------------------------------- MODULE Tracker -------------------------------
(***************************************************************************)
(* The list of jobs the terminal UI shows (allJobs), its copy in the       *)
(* database, and everything that writes them: the user's keys, the editor, *)
(* the acceptance of a fetch review, and the background tasks, which work  *)
(* on a copy of the rows taken when they start (internal/tuiapp,           *)
(* internal/domain/job_merge.go, SaveJobs of internal/storage).            *)
(*                                                                         *)
(* Who owns the background slot is module SlotOwnership; the channels and  *)
(* goroutines of a task are module TaskSlot, and are one queue here.       *)
(***************************************************************************)
EXTENDS SlotOwnership, Sequences, SequencesExt, FiniteSets

CONSTANTS
    Keys,        \* company and title of a job, which identify it (JobMergeKey)
    Statuses,    \* the statuses of the status menu
    Edited,      \* the rows a user can make in the editor
    Scopes       \* bounds of a behaviour: [keys, tasks, incidents], the jobs there
                 \* are, the tasks that may start, and the failed accesses to the
                 \* database and uses of the editor

ASSUME TrackerAssumption ==
    /\ IsFiniteSet(Keys)
    /\ {"Unopened", "Expired"} \subseteq Statuses
    /\ Edited \subseteq [key: Keys, status: Statuses, info: {"missing", "full"}]
    /\ Scopes \subseteq [keys: SUBSET Keys, tasks: 0..MaxTasks, incidents: Nat]

VARIABLES
    board,    \* allJobs
    store,    \* the rows of the jobs table
    work,     \* per id: the task's goroutine and the messages it has sent
    editor,   \* a row is open in the external editor
    review,   \* the keys the pending review may hold; none if no review is pending
    incidents, \* failed accesses to the database and uses of the editor so far
    scope     \* the bounds of this behaviour

trackerVars == <<ownershipVars, board, store, work, editor, review, incidents, scope>>

\* info stands for the fields enrichment fills: some missing, or none.
Row == [key: Keys, status: Statuses, info: {"missing", "full"}]
Checked == {"Unopened", "Viewed"}

KeysOf(rows) == {rows[i].key : i \in DOMAIN rows}
Unique(rows) == \A h, i \in DOMAIN rows : rows[h].key = rows[i].key => h = i
Boards == {b \in BoundedSeq(Row, Cardinality(Keys)) : Unique(b)}

\* The rows at the indices in S, in their order.
RowsAt(rows, S) ==
    LET Pick(acc, i) == IF i \in S THEN Append(acc, rows[i]) ELSE acc
    IN  FoldLeftDomain(Pick, <<>>, rows)

\* The first row of a key, the one every lookup of the code finds.
At(k) == CHOOSE i \in DOMAIN board :
            board[i].key = k /\ \A h \in DOMAIN board : board[h].key = k => i <= h

\* A task's goroutine: the copies it works on, the jobs not yet done, the
\* postings found inactive, the messages sent and not yet handled, whether a
\* reader still delivers them, and whether the goroutine has returned.
NoWork == [kind |-> "none", copy |-> <<>>, todo |-> {}, inactive |-> {},
           mail |-> <<>>, heard |-> FALSE, returned |-> FALSE]
Started(kind, rows) ==
    [kind |-> kind, copy |-> rows, todo |-> KeysOf(rows), inactive |-> {},
     mail |-> <<>>, heard |-> TRUE, returned |-> FALSE]

Task == [kind: {"none", "enrich", "validate"}, copy: Seq(Row),
         todo: SUBSET Keys, inactive: SUBSET Keys, mail: Seq(Row),
         heard: BOOLEAN, returned: BOOLEAN]

TypeOK ==
    /\ OwnershipTypeOK
    /\ board \in Seq(Row) /\ store \in Seq(Row)
    /\ work \in [TaskIds -> Task]
    /\ editor \in BOOLEAN
    /\ review \subseteq Keys
    /\ scope \in Scopes
    /\ incidents \in 0..scope.incidents

\* The program starts with the stored rows, or with none when it cannot load
\* them.
Init ==
    /\ OwnershipInit
    /\ scope \in Scopes
    /\ store \in {b \in Boards : KeysOf(b) \subseteq scope.keys}
    /\ \/ board = store /\ incidents = 0
       \/ board = <<>> /\ store # <<>> /\ incidents = 1 /\ scope.incidents > 0
    /\ work = [t \in TaskIds |-> NoWork]
    /\ editor = FALSE
    /\ review = {}

-----------------------------------------------------------------------------
(* SaveJobs replaces the whole table in one transaction.  It fails when two *)
(* rows have the same company and title, and when the database fails.      *)

Incident == incidents < scope.incidents /\ incidents' = incidents + 1

Saved(rows) ==
    /\ Unique(rows)
    /\ store' = rows
    /\ UNCHANGED incidents

NotSaved(rows) ==
    /\ UNCHANGED store
    /\ \/ ~Unique(rows) /\ UNCHANGED incidents
       \/ Unique(rows) /\ Incident

\* The callers that throw the error away.
SaveOrNot(rows) == Saved(rows) \/ NotSaved(rows)

\* MergeJobs: a row whose key is there gives its fields to a row that misses
\* them; the others are appended, Unopened unless they have a status.  (Mutants:
\* the new rows take the place of the list; no row is looked up.)
MergeReplace(rows, new) == new
MergeAppend(rows, new) == rows \o new
MergeOne(acc, row) ==
    IF row.key \in KeysOf(acc)
    THEN [i \in DOMAIN acc |->
            IF /\ acc[i].key = row.key
               /\ \A h \in DOMAIN acc : acc[h].key = row.key => h <= i
               /\ row.info = "full"
            THEN [acc[i] EXCEPT !.info = "full"] ELSE acc[i]]
    ELSE Append(acc, row)
Merge(rows, new) == FoldLeft(MergeOne, rows, new)

-----------------------------------------------------------------------------
(* The user's keys.                                                        *)

\* The status menu, and "m" with the status Viewed: the error of the save is
\* ignored.
SetStatus(k, s) ==
    /\ k \in KeysOf(board)
    /\ board' = [board EXCEPT ![At(k)].status = s]
    /\ SaveOrNot(board')
    /\ UNCHANGED <<ownershipVars, work, editor, review>>

\* "D": deleteJob removes the row in place, in the array that allJobs shares, so
\* that a failed save leaves the list one row short and its last row twice.
Delete(k) ==
    /\ k \in KeysOf(board)
    /\ LET i == At(k)
           shorter == RemoveAt(board, i)
       IN  \/ Saved(shorter) /\ board' = shorter
           \/ NotSaved(shorter) /\ board' = Append(shorter, Last(board))
    /\ UNCHANGED <<ownershipVars, work, editor, review>>

\* "E": the row under the cursor is opened in the external editor.
OpenEditor ==
    /\ board # <<>>
    /\ ~editor
    /\ editor' = TRUE
    /\ Incident
    /\ UNCHANGED <<ownershipVars, board, store, work, review>>

\* Whatever the user wrote replaces the row the cursor is on when the editor
\* returns.
JobEdited(cursor, row) ==
    /\ editor
    /\ cursor \in KeysOf(board)
    /\ board' = [board EXCEPT ![At(cursor)] = row]
    /\ editor' = FALSE
    /\ SaveOrNot(board')
    /\ UNCHANGED <<ownershipVars, work, review>>

\* The editor failed, or the list is empty when it returns.
EditLost ==
    /\ editor
    /\ editor' = FALSE
    /\ UNCHANGED <<ownershipVars, board, store, work, incidents, review>>

\* handleFetchJobsMsg: a review takes the place of an earlier one.  It holds no job
\* that is in the list now; which of the others it holds, if any, is left open until
\* it is accepted.
FetchAnswered ==
    /\ issued < scope.tasks
    /\ review' = scope.keys \ KeysOf(board)
    /\ UNCHANGED <<ownershipVars, board, store, work, editor, incidents>>

\* Enter on a review: the added jobs are merged with the list as it is now and saved,
\* and a task starts to enrich them.  When the save fails the review is gone.
AcceptReview(new) ==
    /\ KeysOf(new) \subseteq review
    /\ review' = {}
    /\ issued < scope.tasks
    /\ LET merged == Merge(board, new)
       IN  \/ /\ Saved(merged)
              /\ board' = merged
              /\ Take
              /\ work' = [work EXCEPT ![issued + 1] = Started("enrich", new)]
           \/ /\ NotSaved(merged)
              /\ UNCHANGED <<ownershipVars, board, work>>
    /\ UNCHANGED editor

\* Esc on a review.
DismissReview ==
    /\ review # {}
    /\ review' = {}
    /\ UNCHANGED <<ownershipVars, board, store, work, editor, incidents>>

StartTask(kind, rows) ==
    /\ rows # <<>>
    /\ issued < scope.tasks
    /\ Take
    /\ work' = [work EXCEPT ![issued + 1] = Started(kind, rows)]
    /\ UNCHANGED <<board, store, editor, incidents, review>>

\* postingValidationStatus (mutant: whatever the status).
AlwaysCheck(row) == TRUE
NeedsCheck(row) == row.status \in Checked

\* The rows of a batch, one per job: of those at the indices in S, the first with
\* its key.
FirstRows(S) ==
    RowsAt(board, {i \in S : \A h \in S : board[h].key = board[i].key => i <= h})

PostingValidationTargets == FirstRows({i \in DOMAIN board : NeedsCheck(board[i])})
JobsNeedingEnrichment == FirstRows({i \in DOMAIN board : board[i].info = "missing"})

\* "u" in the detail view, "U" and "V" on the main list.
UpdateDetails(k) == k \in KeysOf(board) /\ StartTask("enrich", <<board[At(k)]>>)

UpdateAll ==
    /\ SlotFree
    /\ StartTask("enrich", JobsNeedingEnrichment)

CheckPostings ==
    /\ SlotFree
    /\ StartTask("validate", PostingValidationTargets)

-----------------------------------------------------------------------------
(* The task's goroutine.                                                   *)

\* An enriched job is sent, with the fields that were found.
EnrichJob(t, i, info) ==
    /\ work[t].kind = "enrich"
    /\ work[t].copy[i].key \in work[t].todo
    /\ info = "missing" => work[t].copy[i].info = "missing"
    /\ LET row == [work[t].copy[i] EXCEPT !.info = info]
       IN  work' = [work EXCEPT ![t].copy[i] = row,
                                ![t].todo = @ \ {row.key},
                                ![t].mail = IF work[t].heard THEN Append(@, row) ELSE @]
    /\ UNCHANGED <<ownershipVars, board, store, editor, incidents, review>>

\* A job whose turn does not come before the timeout is left as it was.
SkipJob(t, i) ==
    /\ work[t].kind = "enrich"
    /\ work[t].copy[i].key \in work[t].todo
    /\ work' = [work EXCEPT ![t].todo = @ \ {work[t].copy[i].key}]
    /\ UNCHANGED <<ownershipVars, board, store, editor, incidents, review>>

\* A posting is looked up: it is inactive, or not (or the lookup timed out).
VerifyJob(t, i, inactive) ==
    /\ work[t].kind = "validate"
    /\ work[t].copy[i].key \in work[t].todo
    /\ LET k == work[t].copy[i].key
       IN  work' = [work EXCEPT ![t].todo = @ \ {k},
                                ![t].inactive = IF inactive THEN @ \cup {k} ELSE @]
    /\ UNCHANGED <<ownershipVars, board, store, editor, incidents, review>>

\* All jobs are done.  Company search and propagation may fill some more copies
\* (those in S), which are sent again; then the goroutine returns.
Return(t, S) ==
    /\ work[t].kind # "none" /\ ~work[t].returned /\ work[t].todo = {}
    /\ work[t].kind = "validate" => S = {}
    /\ \A i \in S : work[t].copy[i].info = "missing"
    /\ LET filled == [i \in DOMAIN work[t].copy |->
                        IF i \in S THEN [work[t].copy[i] EXCEPT !.info = "full"]
                        ELSE work[t].copy[i]]
       IN  work' = [work EXCEPT ![t].copy = filled,
                                ![t].returned = TRUE,
                                ![t].mail = IF work[t].heard THEN @ \o RowsAt(filled, S) ELSE @]
    /\ UNCHANGED <<ownershipVars, board, store, editor, incidents, review>>

-----------------------------------------------------------------------------
(* Message handlers.                                                       *)

\* The final message takes the goroutine's results with it.
Final(t) == work' = [work EXCEPT ![t].copy = <<>>, ![t].inactive = {}]

\* The list with a row brought up to date, if it is still there (mutant: the row
\* is not looked up).
Grown(row) == Append(board, row)
Updated(row) ==
    IF row.key \in KeysOf(board) THEN [board EXCEPT ![At(row.key)] = row] ELSE board

\* handleBackgroundJobEnrichedMsg: the task's copy replaces the row, in memory
\* only; a message that does not find its task in the slot is the last one.
JobEnriched(t) ==
    /\ work[t].mail # <<>>
    /\ LET row == Head(work[t].mail)
       IN  IF Owner(t)
           THEN /\ board' = Updated(row)
                /\ work' = [work EXCEPT ![t].mail = Tail(@)]
           ELSE /\ work' = [work EXCEPT ![t].mail = <<>>, ![t].heard = FALSE]
                /\ UNCHANGED board
    /\ UNCHANGED <<ownershipVars, store, editor, incidents, review>>

\* handleAcceptedFetchEnrichedMsg: the enriched jobs are merged into the list.
EnrichmentDone(t) ==
    /\ work[t].kind = "enrich" /\ work[t].returned
    /\ Settle(t)
    /\ LET merged == Merge(board, work[t].copy)
       IN  \/ Saved(merged) /\ board' = merged
           \/ NotSaved(merged) /\ UNCHANGED board
    /\ Final(t)
    /\ UNCHANGED <<editor, review>>

\* The new status of an inactive posting (mutant: one the status menu lacks).
Deactivated(row) == [row EXCEPT !.status = "Inactive"]
MarkExpired(row) == [row EXCEPT !.status = "Expired"]

\* handlePostingValidationCompleteMsg: rows found inactive become Expired, if
\* their status still is one of those that are checked.
PostingsDone(t) ==
    /\ work[t].kind = "validate" /\ work[t].returned
    /\ Settle(t)
    /\ board' = [i \in DOMAIN board |->
                   IF board[i].key \in work[t].inactive /\ NeedsCheck(board[i])
                   THEN MarkExpired(board[i]) ELSE board[i]]
    /\ IF board' # board THEN SaveOrNot(board') ELSE UNCHANGED <<store, incidents>>
    /\ Final(t)
    /\ UNCHANGED <<editor, review>>

\* Either final message when the task does not own the slot.
FinalDropped(t) ==
    /\ work[t].returned
    /\ Discard(t)
    /\ Final(t)
    /\ UNCHANGED <<board, store, editor, incidents, review>>

BulkRefresh ==
    /\ BulkStart \/ BulkStep \/ BulkFinish
    /\ UNCHANGED <<board, store, work, editor, incidents, review>>

-----------------------------------------------------------------------------
\* What a review can add: rows, Unopened, each key once.
Reviews == {b \in Boards : b # <<>> /\ \A i \in DOMAIN b : b[i].status = "Unopened"}

User ==
    \/ \E k \in scope.keys :
          \/ \E s \in Statuses : SetStatus(k, s)
          \/ Delete(k)
          \/ \E row \in {r \in Edited : r.key \in scope.keys} : JobEdited(k, row)
          \/ UpdateDetails(k)
    \/ OpenEditor \/ EditLost
    \/ FetchAnswered \/ DismissReview
    \/ \E new \in Reviews : AcceptReview(new)
    \/ UpdateAll
    \/ CheckPostings

Goroutine(t) ==
    \/ \E i \in DOMAIN work[t].copy :
          \/ \E info \in {"missing", "full"} : EnrichJob(t, i, info)
          \/ SkipJob(t, i)
          \/ \E inactive \in BOOLEAN : VerifyJob(t, i, inactive)
    \/ \E S \in SUBSET DOMAIN work[t].copy : Return(t, S)

Handlers(t) ==
    JobEnriched(t) \/ EnrichmentDone(t) \/ PostingsDone(t) \/ FinalDropped(t)

Next ==
    /\ \/ User
       \/ \E t \in TaskIds : Goroutine(t) \/ Handlers(t)
       \/ BulkRefresh
    /\ UNCHANGED scope

Spec == Init /\ [][Next]_trackerVars

-----------------------------------------------------------------------------
(* Properties.                                                             *)

\* As long as the database answers and no row was edited by hand, a job is in
\* the list once: the merges, which look jobs up by key, never let a second row
\* of a job in, so every save succeeds (SaveJobs refuses a second row).
UniqueRows == incidents = 0 => Unique(board)

\* As long as the database answers, a job that was saved is only lost by "D" (one
\* row less in the list) or by an edit: no task saves a list taken before the job
\* was added.
NoJobVanishes ==
    [][incidents' = 0 /\ KeysOf(store) \ KeysOf(store') # {} =>
          Len(board') = Len(board) - 1]_trackerVars

\* The end of a task only fills rows, adds rows and expires postings that were
\* checked: it never undoes a status the user gave meanwhile.
FinishedTaskKeepsStatus ==
    [][stage' # stage =>
          \A i \in DOMAIN board :
              /\ i \in DOMAIN board' /\ board'[i].key = board[i].key
              /\ \/ board'[i].status = board[i].status
                 \/ board[i].status \in Checked /\ board'[i].status = "Expired"]_trackerVars

\* As long as the database answers, the end of an enrichment leaves the table and
\* the list alike, whatever was deleted, edited, added by a review or sent by
\* another task since it started: its save is never refused, and the changes its
\* messages made in memory only are stored with it.
FinishedTaskIsSaved ==
    [][\A t \in TaskIds :
          /\ stage[t] = "working" /\ stage'[t] = "settled"
          /\ work[t].kind = "enrich" /\ incidents' = 0
          => store' = board']_trackerVars

\* "`u` in detail view updates missing fields for that job"
\* (docs/FUNCTIONALITY_INVENTORY.md:134): the messages with its results leave the
\* status of every row alone.
EnrichedJobKeepsStatus ==
    [][\A t \in TaskIds : JobEnriched(t) =>
          \A i \in DOMAIN board : board'[i].status = board[i].status]_trackerVars

=============================================================================
