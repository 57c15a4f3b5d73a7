------------------------------ MODULE TaskSlot ------------------------------
(***************************************************************************)
(* The one background-task slot of the terminal UI and the goroutines that *)
(* work for it (internal/tuiapp/background_task.go, posting_validation.go, *)
(* and the handlers of update_keys.go, update_fetch_msgs.go and            *)
(* update_health_msgs.go).                                                 *)
(*                                                                         *)
(* A task is started by a key press.  It runs in a goroutine of its own,   *)
(* the producer, which sends each enriched job on a bounded channel and    *)
(* returns one final message.  A second goroutine, the reader, takes one   *)
(* item from the task's channels, delivers it to the event loop as a       *)
(* message, and is started again only by the handler of that message.  The *)
(* event loop handles one message at a time, in any order; a handler that  *)
(* finds another owner in the slot drops its message, and with it the      *)
(* reader.                                                                 *)
(*                                                                         *)
(* The bulk health refresh shares the slot, under the id 0 that no task    *)
(* has; its own steps are the subject of module BulkHealth.                *)
(***************************************************************************)
EXTENDS Naturals, Sequences, FiniteSets

CONSTANTS
    Jobs,        \* the jobs a task can work on
    Results,     \* what the enrichment of a job can yield
    Full,        \* the results that leave no field of the job missing
    MaxTasks,    \* bound: tasks started in one run of the program
    BatchCap,    \* capacity of jobCh for a batch (16 in the code)
    DetailCap,   \* capacity of jobCh for a single job (1 in the code)
    TextCap,     \* capacity of progressCh (8 in the code)
    MaxWorkers   \* maxConcurrentEnrich (6 in the code)

ASSUME TaskSlotAssumption ==
    /\ Full \subseteq Results
    /\ "none" \notin Results
    /\ MaxTasks \in Nat \ {0}
    /\ BatchCap \in Nat \ {0}
    /\ DetailCap \in Nat \ {0}
    /\ TextCap \in Nat \ {0}
    /\ MaxWorkers \in Nat \ {0}

VARIABLES
    slot,      \* backgroundTask: [active, id, pending], pending = pendingFields
    next,      \* nextBackgroundTask
    bulk,      \* bulkHealthFetching
    task,      \* per id: [kind, batch, cap, phase, late] of the task
    work,      \* per id and job: how far the producer is with the job
    result,    \* per id and job: the enriched copy the producer holds
    republish, \* per id: jobs changed after the workers, still to be sent
    chan,      \* per id: the content of jobCh
    texts,     \* per id: how many texts progressCh holds
    reader     \* per id: the reader goroutine, or the message it delivers

slotVars == <<slot, next, bulk>>
producerVars == <<work, result, republish>>
taskVars == <<slotVars, task, producerVars, chan, texts, reader>>

TaskIds == 1..MaxTasks
Unfinished == {"running", "post", "returned"}

NoTask == [kind |-> "none", batch |-> {}, cap |-> 0, phase |-> "none", late |-> FALSE]
NoWork == [j \in Jobs |-> "none"]
NoResult == [j \in Jobs |-> "none"]
JobMsg == [at: {"job"}, job: Jobs, res: Results]
Reading == [at |-> "reading"]
Gone == [at |-> "gone"]

\* The test at the head of every handler of a task's messages.
Owner(t) == slot.active /\ slot.id = t

\* The goroutine of t has neither returned nor been refused.
Producing(t) == task[t].phase \in {"running", "post"}

TaskRecord ==
    [kind: {"none", "enrich", "validate"}, batch: SUBSET Jobs, cap: {0, BatchCap, DetailCap},
     phase: {"none", "handled", "dropped"} \cup Unfinished, late: BOOLEAN]

TypeOK ==
    /\ slot \in [active: BOOLEAN, id: 0..MaxTasks, pending: SUBSET Jobs]
    /\ next \in 0..MaxTasks
    /\ bulk \in BOOLEAN
    /\ task \in [TaskIds -> TaskRecord]
    /\ work \in [TaskIds -> [Jobs -> {"none", "queued", "working", "sent", "skipped"}]]
    /\ result \in [TaskIds -> [Jobs -> Results \cup {"none"}]]
    /\ republish \in [TaskIds -> SUBSET Jobs]
    /\ chan \in [TaskIds -> Seq(Jobs \X Results)]
    /\ texts \in [TaskIds -> 0..TextCap]
    /\ reader \in [TaskIds -> JobMsg \cup [at: {"off", "reading", "text", "done", "gone"}]]

Init ==
    /\ slot = [active |-> FALSE, id |-> 0, pending |-> {}]
    /\ next = 0
    /\ bulk = FALSE
    /\ task = [t \in TaskIds |-> NoTask]
    /\ work = [t \in TaskIds |-> NoWork]
    /\ result = [t \in TaskIds |-> NoResult]
    /\ republish = [t \in TaskIds |-> {}]
    /\ chan = [t \in TaskIds |-> <<>>]
    /\ texts = [t \in TaskIds |-> 0]
    /\ reader = [t \in TaskIds |-> [at |-> "off"]]

-----------------------------------------------------------------------------
(* Key presses that take the slot.                                         *)

\* The slot under the next id.
NewSlot(pending) == [active |-> TRUE, id |-> next + 1, pending |-> pending]

\* A new task overwrites the slot, whoever owned it, and starts its producer
\* and its reader.
StartTask(kind, batch, cap, pending) ==
    /\ next < MaxTasks
    /\ next' = next + 1
    /\ slot' = NewSlot(pending)
    /\ task' = [task EXCEPT ![next + 1] = [kind |-> kind, batch |-> batch, cap |-> cap,
                                           phase |-> "running", late |-> FALSE]]
    /\ work' = [work EXCEPT ![next + 1] =
                    [j \in Jobs |-> IF j \in batch THEN "queued" ELSE "none"]]
    /\ texts' = [texts EXCEPT ![next + 1] = IF kind = "enrich" THEN 1 ELSE 0]
    /\ reader' = [reader EXCEPT ![next + 1] = Reading]
    /\ UNCHANGED <<bulk, result, republish, chan>>

\* The guards "U" and "V" share.
SlotFree == ~slot.active /\ ~bulk

\* Enter on a fetch review: the added jobs are enriched.
AcceptReview(batch, pending) ==
    /\ batch # {}
    /\ StartTask("enrich", batch, BatchCap, pending)

\* "u" in the detail view.
UpdateDetails(j, pending) == StartTask("enrich", {j}, DetailCap, pending)

\* "U" on the main list, on the jobs with a missing field.
UpdateAll(batch) ==
    /\ SlotFree
    /\ batch # {}
    /\ StartTask("enrich", batch, BatchCap, batch)

\* "V" on the main list: the posting check has no job channel.
CheckPostings(batch) ==
    /\ SlotFree
    /\ batch # {}
    /\ StartTask("validate", batch, 0, {})

\* "H": the bulk refresh writes a fresh slot, whose id is 0.
BulkStart ==
    /\ ~bulk
    /\ bulk' = TRUE
    /\ slot' = [active |-> TRUE, id |-> 0, pending |-> {}]
    /\ UNCHANGED <<next, task, producerVars, chan, texts, reader>>

\* A company of the refresh is done, others are left: the slot is marked active.
BulkStep ==
    /\ bulk
    /\ slot' = [slot EXCEPT !.active = TRUE]
    /\ UNCHANGED <<next, bulk, task, producerVars, chan, texts, reader>>

\* The last company is done: the slot is marked inactive.
BulkFinish ==
    /\ bulk
    /\ bulk' = FALSE
    /\ slot' = [slot EXCEPT !.active = FALSE]
    /\ UNCHANGED <<next, task, producerVars, chan, texts, reader>>

-----------------------------------------------------------------------------
(* The producer: enrichAcceptedFetchCmd or validatePostingsCmd.            *)

\* A progress text is offered; when the channel is full it is thrown away.
\* Modelled: the text a producer starts with, one per job of a posting check and
\* the one for the last job of an enrichment.  (Mutant: the channel has no end.)
OfferAlways(n) == n + 1
Offer(n) == IF n < TextCap THEN n + 1 ELSE n

\* The 300-second context of the batch expires.
Expire(t) ==
    /\ task[t].kind = "enrich" /\ Producing(t) /\ ~task[t].late
    /\ task' = [task EXCEPT ![t].late = TRUE]
    /\ UNCHANGED <<slotVars, producerVars, chan, texts, reader>>

\* A worker gets a place in the semaphore of MaxWorkers, or the posting check
\* reaches the job.
BeginJob(t, j) ==
    /\ task[t].phase = "running"
    /\ work[t][j] = "queued"
    /\ Cardinality({i \in Jobs : work[t][i] = "working"}) <
          (IF task[t].kind = "validate" THEN 1 ELSE MaxWorkers)
    /\ work' = [work EXCEPT ![t][j] = "working"]
    /\ texts' = [texts EXCEPT ![t] = IF task[t].kind = "validate" THEN Offer(@) ELSE @]
    /\ UNCHANGED <<slotVars, task, result, republish, chan, reader>>

\* A worker that still waits for a place when the context expires gives up.
SkipJob(t, j) ==
    /\ task[t].phase = "running" /\ task[t].late
    /\ work[t][j] = "queued"
    /\ work' = [work EXCEPT ![t][j] = "skipped"]
    /\ UNCHANGED <<slotVars, task, result, republish, chan, texts, reader>>

\* The enriched job is sent on jobCh: the send blocks while the channel is
\* full, whatever the context says.
EmitJob(t, j, r) ==
    /\ task[t].kind = "enrich" /\ task[t].phase = "running"
    /\ work[t][j] = "working"
    /\ Len(chan[t]) < task[t].cap
    /\ chan' = [chan EXCEPT ![t] = Append(@, <<j, r>>)]
    /\ work' = [work EXCEPT ![t][j] = "sent"]
    /\ result' = [result EXCEPT ![t][j] = r]
    /\ texts' = [texts EXCEPT ![t] =
                     IF \A i \in task[t].batch \ {j} : work[t][i] \in {"sent", "skipped"}
                     THEN Offer(@) ELSE @]
    /\ UNCHANGED <<slotVars, task, republish, reader>>

\* The posting check has its answer for one job (r); nothing is sent.
VerifyJob(t, j, r) ==
    /\ task[t].kind = "validate" /\ task[t].phase = "running"
    /\ work[t][j] = "working"
    /\ work' = [work EXCEPT ![t][j] = "sent"]
    /\ result' = [result EXCEPT ![t][j] = r]
    /\ UNCHANGED <<slotVars, task, republish, chan, texts, reader>>

WorkersDone(t) == \A j \in task[t].batch : work[t][j] \in {"sent", "skipped"}

\* After wg.Wait, company search and propagation change the jobs in S, which
\* are to be sent a second time.
PostProcess(t, S, res) ==
    /\ task[t].kind = "enrich" /\ task[t].phase = "running"
    /\ WorkersDone(t)
    /\ S \subseteq task[t].batch
    /\ result' = [result EXCEPT ![t] =
                      [j \in Jobs |-> IF j \in S THEN res[j] ELSE result[t][j]]]
    /\ republish' = [republish EXCEPT ![t] = S]
    /\ task' = [task EXCEPT ![t].phase = "post"]
    /\ UNCHANGED <<slotVars, work, chan, texts, reader>>

\* The second send blocks like the first.
Republish(t, j) ==
    /\ task[t].phase = "post"
    /\ j \in republish[t]
    /\ Len(chan[t]) < task[t].cap
    /\ chan' = [chan EXCEPT ![t] = Append(@, <<j, result[t][j]>>)]
    /\ republish' = [republish EXCEPT ![t] = @ \ {j}]
    /\ UNCHANGED <<slotVars, task, work, result, texts, reader>>

\* The producer closes its channels and returns the final message.
Return(t) ==
    /\ \/ task[t].phase = "post" /\ republish[t] = {}
       \/ task[t].kind = "validate" /\ task[t].phase = "running" /\ WorkersDone(t)
    /\ task' = [task EXCEPT ![t].phase = "returned"]
    /\ work' = [work EXCEPT ![t] = NoWork]
    /\ UNCHANGED <<slotVars, result, republish, chan, texts, reader>>

-----------------------------------------------------------------------------
(* The reader: waitForBackgroundTaskProgress.  A second look at the         *)
(* channels may find both of them ready, so it may take either.            *)

ReadJob(t) ==
    /\ reader[t].at = "reading"
    /\ chan[t] # <<>>
    /\ reader' = [reader EXCEPT ![t] = [at |-> "job", job |-> Head(chan[t])[1],
                                                      res |-> Head(chan[t])[2]]]
    /\ chan' = [chan EXCEPT ![t] = Tail(@)]
    /\ UNCHANGED <<slotVars, task, producerVars, texts>>

ReadText(t) ==
    /\ reader[t].at = "reading"
    /\ texts[t] > 0
    /\ reader' = [reader EXCEPT ![t] = [at |-> "text"]]
    /\ texts' = [texts EXCEPT ![t] = @ - 1]
    /\ UNCHANGED <<slotVars, task, producerVars, chan>>

\* Both channels are closed and empty.
ReadClosed(t) ==
    /\ reader[t].at = "reading"
    /\ ~Producing(t) /\ chan[t] = <<>> /\ texts[t] = 0
    /\ reader' = [reader EXCEPT ![t] = [at |-> "done"]]
    /\ UNCHANGED <<slotVars, task, producerVars, chan, texts>>

-----------------------------------------------------------------------------
(* Message handlers of the event loop.                                     *)

\* handleBackgroundJobEnrichedMsg by the owner: the job's pending fields are
\* settled when none is missing any more, and the reader is started again
\* (mutant: pendingFields is left alone).
ApplyJobOnly(t) ==
    /\ reader[t].at = "job"
    /\ Owner(t)
    /\ reader' = [reader EXCEPT ![t] = Reading]
    /\ UNCHANGED <<slotVars, task, producerVars, chan, texts>>

ApplyJob(t) ==
    /\ reader[t].at = "job"
    /\ Owner(t)
    /\ slot' = [slot EXCEPT !.pending =
                    IF reader[t].res \in Full THEN @ \ {reader[t].job} ELSE @]
    /\ reader' = [reader EXCEPT ![t] = Reading]
    /\ UNCHANGED <<next, bulk, task, producerVars, chan, texts>>

\* handleBackgroundTaskProgressMsg by the owner.
ShowText(t) ==
    /\ reader[t].at = "text"
    /\ Owner(t)
    /\ reader' = [reader EXCEPT ![t] = Reading]
    /\ UNCHANGED <<slotVars, task, producerVars, chan, texts>>

\* The last message of the reader, or any of its messages when the task does
\* not own the slot: nobody starts the reader again (mutant: nor after a text).
DropReaderOnText(t) ==
    /\ \/ reader[t].at \in {"done", "text"}
       \/ reader[t].at = "job" /\ ~Owner(t)
    /\ reader' = [reader EXCEPT ![t] = Gone]
    /\ UNCHANGED <<slotVars, task, producerVars, chan, texts>>

DropReader(t) ==
    /\ \/ reader[t].at = "done"
       \/ reader[t].at \in {"job", "text"} /\ ~Owner(t)
    /\ reader' = [reader EXCEPT ![t] = Gone]
    /\ UNCHANGED <<slotVars, task, producerVars, chan, texts>>

\* handleAcceptedFetchEnrichedMsg and handlePostingValidationCompleteMsg by the
\* owner: the slot is released (mutant: whoever owns it).
ApplyFinalUnasked(t) ==
    /\ task[t].phase = "returned"
    /\ slot' = [slot EXCEPT !.active = FALSE, !.pending = {}]
    /\ task' = [task EXCEPT ![t].phase = "handled"]
    /\ result' = [result EXCEPT ![t] = NoResult]
    /\ UNCHANGED <<next, bulk, work, republish, chan, texts, reader>>

ApplyFinal(t) ==
    /\ task[t].phase = "returned"
    /\ Owner(t)
    /\ slot' = [slot EXCEPT !.active = FALSE, !.pending = {}]
    /\ task' = [task EXCEPT ![t].phase = "handled"]
    /\ result' = [result EXCEPT ![t] = NoResult]
    /\ UNCHANGED <<next, bulk, work, republish, chan, texts, reader>>

\* The same handlers when the slot has another owner.
DropFinal(t) ==
    /\ task[t].phase = "returned"
    /\ ~Owner(t)
    /\ task' = [task EXCEPT ![t].phase = "dropped"]
    /\ result' = [result EXCEPT ![t] = NoResult]
    /\ UNCHANGED <<slotVars, work, republish, chan, texts, reader>>

-----------------------------------------------------------------------------
Producer(t) ==
    \/ Expire(t)
    \/ \E j \in Jobs : BeginJob(t, j) \/ SkipJob(t, j) \/ Republish(t, j)
    \/ \E j \in Jobs, r \in Results : EmitJob(t, j, r) \/ VerifyJob(t, j, r)
    \/ \E S \in SUBSET Jobs, res \in [Jobs -> Results] : PostProcess(t, S, res)
    \/ Return(t)

Reader(t) == ReadJob(t) \/ ReadText(t) \/ ReadClosed(t)

Handlers(t) == ApplyJob(t) \/ ShowText(t) \/ DropReader(t) \/ ApplyFinal(t) \/ DropFinal(t)

User ==
    \/ \E batch \in SUBSET Jobs :
          \/ \E pending \in SUBSET batch : AcceptReview(batch, pending)
          \/ UpdateAll(batch)
          \/ CheckPostings(batch)
    \/ \E j \in Jobs : \E pending \in SUBSET {j} : UpdateDetails(j, pending)
    \/ BulkStart

Next ==
    \/ User
    \/ BulkStep \/ BulkFinish
    \/ \E t \in TaskIds : Producer(t) \/ Reader(t) \/ Handlers(t)

Spec == Init /\ [][Next]_taskVars

\* The Go scheduler runs every goroutine that is not blocked, each job's
\* enrichment and check ends (they run under timeouts), and the event loop takes
\* every message offered to it.  No key press and no health step need ever come.
Fairness ==
    \A t \in TaskIds :
        WF_taskVars(Producer(t)) /\ WF_taskVars(Reader(t)) /\ WF_taskVars(Handlers(t))

FairSpec == Spec /\ Fairness

-----------------------------------------------------------------------------
(* What the tasks look like to the rest of the program: SlotOwnership.     *)

Stage(t) ==
    CASE task[t].phase = "none" -> "none"
      [] task[t].phase \in Unfinished -> "working"
      [] task[t].phase = "handled" -> "settled"
      [] task[t].phase = "dropped" -> "discarded"

Ownership == INSTANCE SlotOwnership WITH
    slot <- [active |-> slot.active, id |-> slot.id],
    issued <- next,
    stage <- [t \in TaskIds |-> Stage(t)]

\* With all its goroutines, channels and stale messages, the slot changes hands
\* exactly as SlotOwnership says: on a key press, on the final message of its
\* owner, and on the steps of a bulk refresh.
ImplementsOwnership == Ownership!OwnershipSpec

-----------------------------------------------------------------------------
(* Properties.                                                             *)

\* A producer that still works for the owner of the slot is listened to: its
\* reader has not been dropped, so a full jobCh empties again.  (The guards of
\* the handlers drop readers; bulk steps switch the slot on and off without
\* looking at whose it is.)
OwnerIsHeard ==
    \A t \in TaskIds : Producing(t) /\ Owner(t) => reader[t].at # "gone"

\* The messages of a task whose final message has been handled can pass the
\* owner test again only while a bulk refresh runs: its steps reactivate a slot
\* that a finished task left behind.
SettledOwnerNeedsBulk == Ownership!SettledOwnerNeedsBulk

\* Fields shown as loading are honest: a job stays in pendingFields of the owner
\* only as long as a result that completes it has not reached the event loop.
InFlight(t, j) ==
    \/ \E i \in DOMAIN chan[t] : chan[t][i][1] = j
    \/ reader[t].at = "job" /\ reader[t].job = j
    \/ j \in republish[t]

PendingIsUndelivered ==
    \A t \in TaskIds, j \in Jobs :
        /\ Owner(t) /\ j \in slot.pending
        /\ task[t].phase \in Unfinished
        /\ result[t][j] \in Full
        => InFlight(t, j)

\* A task that lost the slot never owns it again: no message of it can be
\* mistaken for one of the task that replaced it, or of the bulk refresh.
LostForGood == Ownership!LostForGood

\* A task that keeps the slot is completed, however full its channels got.
OwnerIsServed ==
    \A t \in TaskIds :
        task[t].phase \in Unfinished /\ Owner(t) ~> task[t].phase = "handled" \/ ~Owner(t)

=============================================================================
