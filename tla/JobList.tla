------------------------------- MODULE JobList -------------------------------
(***************************************************************************)
(* The list of jobs of the terminal UI: what it shows of the rows, its     *)
(* cursor, the menus and windows over it, and the health of single         *)
(* companies (internal/tuiapp/update_keys.go, filters.go,                  *)
(* overlay_actions.go, health_background.go, update_health_msgs.go).       *)
(*                                                                         *)
(* filteredJobs is a copy: every handler that changes a row has to make it *)
(* anew, and the cursor is an index into it that any message may move to   *)
(* another row.  An index that is in no row ends the program.  A job stands*)
(* for its company too; the rows of a list are of different jobs.  Saving  *)
(* them, and its failures, are in module Tracker.                          *)
(*                                                                         *)
(* The table is at least five rows high, more than the lists here: a page  *)
(* down goes to the end and a page up to the top.  What is scrolled to is  *)
(* left out.                                                               *)
(***************************************************************************)
EXTENDS Setup, Integers

CONSTANTS
    Jobs,
    Statuses,    \* in the order of their names
    SortKeys,    \* the columns the keys 1 to 5 sort by
    Ranks,       \* the order of the jobs in each of the other columns
    Searches,    \* what a search may match
    MaxScore,
    Parts,       \* bound: the keys that are pressed in an execution
    MaxLookups   \* bound: health commands waited for at a time

ASSUME JobListAssumption ==
    /\ IsFiniteSet(Jobs)
    /\ Statuses \in Seq(Range(Statuses))
    /\ {"Unopened", "Viewed", "Expired"} \subseteq Range(Statuses)
    /\ "health" \in SortKeys
    /\ \A by \in SortKeys \ {"health", "status"} : Ranks[by] \in [Jobs -> Int]
    /\ Searches \subseteq SUBSET Jobs
    /\ MaxScore \in Nat /\ MaxLookups \in Nat
    /\ Parts \subseteq SUBSET {"wizard", "rows", "health", "commands", "calls", "fetch"}

VARIABLES
    scope,    \* which keys are pressed
    list,     \* m.allJobs, m.filteredJobs and what they are made with
    mode,     \* m.isFiltering, m.isCommanding
    health,   \* m.healthCache: the score of a company, 0 when unknown
    window,   \* m.overlay.health
    tasks,    \* m.backgroundHealth.tasks: in the foreground or not
    panel,    \* m.backgroundHealth.expanded and animating
    lookups   \* companies of the command ":health" whose answer is to come

listVars == <<scope, list, mode, health, window, tasks, panel, lookups>>
windowVars == <<health, window, tasks, panel, lookups>>

Row == [job: Jobs, status: Range(Statuses)]

Rows(n) == UNION {[1..k -> Row] : k \in 0..n}

NoWindow == [loading |-> FALSE, minimized |-> FALSE, report |-> {}, refresh |-> {}]

ListTypeOK ==
    /\ scope \subseteq {"wizard", "rows", "health", "commands", "calls", "fetch"}
    /\ list \in [rows: Rows(Cardinality(Jobs)), shown: Rows(Cardinality(Jobs)),
                 cursor: -1..Cardinality(Jobs), by: SortKeys, desc: BOOLEAN,
                 filters: SUBSET Range(Statuses), query: SUBSET Searches,
                 menu: SUBSET Range(Statuses)]
    /\ mode \in {"keys", "search", "command"}
    /\ health \in [Jobs -> 0..MaxScore]
    /\ window \in [loading: BOOLEAN, minimized: BOOLEAN, report: SUBSET Jobs,
                   refresh: SUBSET Jobs]
    /\ tasks \in UNION {[S -> {"foreground", "background"}] : S \in SUBSET Jobs}
    /\ panel \in [expanded: BOOLEAN, animating: BOOLEAN]
    /\ lookups \subseteq Jobs

-----------------------------------------------------------------------------
(* What the list shows.                                                    *)

\* A search looks at every status.
Matches(l, row) ==
    IF l.query # {} THEN row.job \in UNION l.query
    ELSE l.filters = {} \/ row.status \in l.filters

KeyOf(by, row, scores) ==
    CASE by = "health" -> scores[row.job]
      [] by = "status" -> CHOOSE i \in DOMAIN Statuses : Statuses[i] = row.status
      [] OTHER -> Ranks[by][row.job]

\* The rows that match, sorted; rows of one key keep their order.
Sorted(l, scores) ==
    LET hits == {i \in DOMAIN l.rows : Matches(l, l.rows[i])}
        key(i) == KeyOf(l.by, l.rows[i], scores)
        before(i, j) == \/ IF l.desc THEN key(i) > key(j) ELSE key(i) < key(j)
                        \/ key(i) = key(j) /\ i < j
        place(i) == Cardinality({j \in hits : before(j, i)}) + 1
    IN  [n \in 1..Cardinality(hits) |-> l.rows[CHOOSE i \in hits : place(i) = n]]

Bounded(cursor, n) == IF n = 0 THEN 0 ELSE IF cursor >= n THEN n - 1 ELSE cursor

\* applyFilterAndSort
AppliedWith(l, scores) ==
    LET s == Sorted(l, scores)
    IN  [l EXCEPT !.shown = s, !.cursor = Bounded(@, Len(s))]

Applied(l) == AppliedWith(l, health)

InRange(l) == l.cursor \in 0..(Len(l.shown) - 1)

\* The row a key is about: filteredJobs[cursor] looked up in allJobs by its
\* company and title.
Selected == list.shown[list.cursor + 1]
Places(job) == {i \in DOMAIN list.rows : list.rows[i].job = job}

SetStatus(l, job, status) ==
    [l EXCEPT !.rows = [i \in DOMAIN @ |->
        IF @[i].job = job THEN [@[i] EXCEPT !.status = status] ELSE @[i]]]

-----------------------------------------------------------------------------
(* Keys of the list.                                                       *)

\* The keys of the list are also heard behind a minimized window.
MainKeys ==
    /\ mode = "keys"
    /\ screen = "none" \/ (screen = "health" /\ window.minimized)

OnRow == MainKeys /\ Len(list.shown) > 0 /\ InRange(list)

\* A key that indexes a row that is not there.
Panic == MainKeys /\ Len(list.shown) > 0 /\ ~InRange(list)

SameScreen == UNCHANGED <<disk, screen, setup, asked>>

Goes(next) == screen' = next /\ UNCHANGED <<disk, setup, asked>>

\* up, down, pgup, pgdown, home and end.
Move ==
    /\ scope \cap {"rows", "health"} # {}
    /\ MainKeys
    /\ list' \in {[list EXCEPT !.cursor = c] :
                    c \in {IF list.cursor > 0 THEN list.cursor - 1 ELSE list.cursor,
                           IF list.cursor < Len(list.shown) - 1
                           THEN list.cursor + 1 ELSE list.cursor,
                           0, Len(list.shown) - 1}}
    /\ SameScreen
    /\ UNCHANGED <<scope, mode>> /\ UNCHANGED windowVars

\* The wheel of the mouse keeps the cursor in the list.
Wheel ==
    /\ scope \cap {"rows", "health"} # {}
    /\ screen = "none"
    /\ \E c \in {list.cursor - 1, list.cursor + 1} :
          list' = [list EXCEPT !.cursor =
                      Bounded(IF c < 0 THEN 0 ELSE c, Len(list.shown))]
    /\ SameScreen
    /\ UNCHANGED <<scope, mode>> /\ UNCHANGED windowVars

Sort ==
    /\ "rows" \in scope
    /\ MainKeys
    /\ UNCHANGED <<scope, mode>> /\ UNCHANGED windowVars
    /\ \E by \in SortKeys :
          list' = Applied([list EXCEPT !.by = by,
                              !.desc = IF by = list.by THEN ~@
                                       ELSE by \in {"health", "date"}])
    /\ SameScreen

\* "m": the cursor goes on from where it was before the list was made anew.
MarkViewed ==
    /\ "rows" \in scope
    /\ OnRow
    /\ UNCHANGED <<scope, mode>> /\ UNCHANGED windowVars
    /\ LET l == Applied(SetStatus(list, Selected.job, "Viewed"))
       IN  list' = [l EXCEPT !.cursor = IF list.cursor < Len(l.shown) - 1
                                        THEN list.cursor + 1 ELSE list.cursor]
    /\ SameScreen

\* "D", when the row can be deleted.
Delete ==
    /\ "rows" \in scope
    /\ OnRow
    /\ UNCHANGED <<scope, mode>> /\ UNCHANGED windowVars
    /\ \E i \in Places(Selected.job) :
          list' = Applied([list EXCEPT !.rows = RemoveAt(@, i)])
    /\ SameScreen

\* "E": the row comes back from the editor, and replaces the one at the cursor.
JobEdited ==
    /\ "rows" \in scope
    /\ OnRow
    /\ UNCHANGED <<scope, mode>> /\ UNCHANGED windowVars
    /\ \E i \in Places(Selected.job), row \in Row :
          /\ Places(row.job) \subseteq {i}
          /\ list' = Applied([list EXCEPT !.rows[i] = row])
    /\ SameScreen

\* "s", and enter in its menu, which looks for the row under the cursor again.
OpenStatusMenu ==
    /\ "rows" \in scope
    /\ OnRow
    /\ Goes("status")
    /\ UNCHANGED listVars

StatusChosen ==
    /\ mode = "keys" /\ screen = "status"
    /\ InRange(list)
    /\ UNCHANGED <<scope, mode, health, tasks, panel, lookups>>
    /\ window' = NoWindow
    /\ \E status \in Range(Statuses) :
          list' = Applied(SetStatus(list, Selected.job, status))
    /\ Goes("none")

\* Enter in the menu of a list that became empty, and esc.
CloseOverlay ==
    /\ mode = "keys"
    /\ screen \in {"status", "filter", "detail"}
    /\ Goes("none")
    /\ window' = NoWindow
    /\ list' = [list EXCEPT !.menu = {}]
    /\ UNCHANGED <<scope, mode, health, tasks, panel, lookups>>

\* "f": the menu works on a copy, which is made the filter at every change.
OpenFilterMenu ==
    /\ "rows" \in scope
    /\ MainKeys
    /\ Goes("filter")
    /\ list' = [list EXCEPT !.menu = list.filters]
    /\ UNCHANGED <<scope, mode>> /\ UNCHANGED windowVars

Switched(set, x) == IF x \in set THEN set \ {x} ELSE set \cup {x}

ToggleFilter ==
    /\ mode = "keys" /\ screen = "filter"
    /\ UNCHANGED <<scope, mode>> /\ UNCHANGED windowVars
    /\ \E status \in Range(Statuses) :
          LET values == Switched(list.menu, status)
          IN  list' = [Applied([list EXCEPT !.menu = values, !.filters = values])
                          EXCEPT !.cursor = 0]
    /\ SameScreen

\* saveDefaultFilters; a configuration that is not there is made.  What is saved
\* is the filter of a later start.
SaveFilters ==
    /\ mode = "keys" /\ screen = "filter"
    /\ UNCHANGED <<scope, list, mode, health, tasks, panel, lookups, setup, asked>>
    /\ \/ disk' = [disk EXCEPT !.exists = TRUE] /\ UNCHANGED <<screen, window>>
       \/ screen' = "notice" /\ window' = NoWindow /\ disk' = disk

\* "/" and what is typed after it.
OpenSearch ==
    /\ "rows" \in scope
    /\ MainKeys
    /\ mode' = "search"
    /\ SameScreen
    /\ UNCHANGED <<scope, list>> /\ UNCHANGED windowVars

Searching == mode = "search" /\ screen \notin {"setup", "notice"}

Search ==
    /\ Searching
    /\ UNCHANGED <<scope, mode>> /\ UNCHANGED windowVars
    /\ \E q \in {{}} \cup {{S} : S \in Searches} :
          list' = Applied([list EXCEPT !.query = q])
    /\ SameScreen

\* enter keeps the query and esc drops it.
EndSearch ==
    /\ Searching
    /\ mode' = "keys"
    /\ UNCHANGED scope /\ UNCHANGED windowVars
    /\ \E q \in {{}, list.query} : list' = Applied([list EXCEPT !.query = q])
    /\ SameScreen

\* enter, and the keys that go through the list behind the details.
OpenDetails ==
    /\ "rows" \in scope
    /\ MainKeys
    /\ Len(list.shown) > 0
    /\ Goes("detail")
    /\ UNCHANGED listVars

NextDetails ==
    /\ mode = "keys" /\ screen = "detail"
    /\ \/ list.cursor > 0 /\ list' = [list EXCEPT !.cursor = Bounded(@ - 1, Len(list.shown))]
       \/ list.cursor < Len(list.shown) - 1 /\ list' = [list EXCEPT !.cursor = @ + 1]
    /\ SameScreen
    /\ UNCHANGED <<scope, mode>> /\ UNCHANGED windowVars

-----------------------------------------------------------------------------
(* Messages that change rows.                                              *)

\* (mutant: the list is not made anew.)
RowStored(l) == l

RowApplied(l) == Applied(l)

\* handleBackgroundJobEnrichedMsg: the copy of a task, with the status the row
\* had when the task took it.
RowEnriched ==
    /\ "rows" \in scope
    /\ UNCHANGED <<scope, mode>> /\ UNCHANGED windowVars
    /\ \E i \in DOMAIN list.rows, status \in Range(Statuses) :
          list' = RowApplied([list EXCEPT !.rows[i].status = status])
    /\ SameScreen

\* handlePostingValidationCompleteMsg: the cursor follows its row.
PostingsChecked ==
    /\ "rows" \in scope
    /\ UNCHANGED <<scope, mode, health, tasks, panel, lookups>>
    /\ window' = NoWindow
    /\ \E gone \in SUBSET {i \in DOMAIN list.rows :
                              list.rows[i].status \in {"Unopened", "Viewed"}} :
          LET l == Applied([list EXCEPT !.rows = [i \in DOMAIN @ |->
                        IF i \in gone THEN [@[i] EXCEPT !.status = "Expired"]
                        ELSE @[i]]])
              at == {n \in DOMAIN l.shown :
                        InRange(list) /\ l.shown[n].job = Selected.job}
          IN  list' = IF at = {} THEN l
                      ELSE [l EXCEPT !.cursor = (CHOOSE n \in at : TRUE) - 1]
    /\ CloseWizard("notice")
    /\ UNCHANGED <<disk, asked>>
=============================================================================
