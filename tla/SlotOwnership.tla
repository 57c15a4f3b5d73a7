---------------------------- MODULE SlotOwnership ----------------------------
(***************************************************************************)
(* What the background-task slot of the terminal UI promises, whatever the *)
(* goroutines behind it do: who owns the slot, and what becomes of a task. *)
(* TaskSlot implements this module; Tracker builds on it.                  *)
(***************************************************************************)
EXTENDS Naturals

CONSTANT MaxTasks  \* bound: tasks started in one run of the program

ASSUME MaxTasksAssumption == MaxTasks \in Nat \ {0}

VARIABLES
    slot,   \* backgroundTask: [active, id]
    issued, \* nextBackgroundTask: the last id given to a task
    bulk,   \* bulkHealthFetching
    stage   \* per id: what became of the task

ownershipVars == <<slot, issued, bulk, stage>>

TaskIds == 1..MaxTasks

\* The test at the head of every handler of a task's messages.
Owner(t) == slot.active /\ slot.id = t

OwnershipTypeOK ==
    /\ slot \in [active: BOOLEAN, id: 0..MaxTasks]
    /\ issued \in 0..MaxTasks
    /\ bulk \in BOOLEAN
    /\ stage \in [TaskIds -> {"none", "working", "settled", "discarded"}]

OwnershipInit ==
    /\ slot = [active |-> FALSE, id |-> 0]
    /\ issued = 0
    /\ bulk = FALSE
    /\ stage = [t \in TaskIds |-> "none"]

\* A key press starts a task, which overwrites the slot.
Take ==
    /\ issued < MaxTasks
    /\ issued' = issued + 1
    /\ slot' = [active |-> TRUE, id |-> issued + 1]
    /\ stage' = [stage EXCEPT ![issued + 1] = "working"]
    /\ UNCHANGED bulk

\* The guards "U" and "V" share.
SlotFree == ~slot.active /\ ~bulk

\* The final message of a task is handled by the owner of the slot ...
Settle(t) ==
    /\ stage[t] = "working"
    /\ Owner(t)
    /\ slot' = [slot EXCEPT !.active = FALSE]
    /\ stage' = [stage EXCEPT ![t] = "settled"]
    /\ UNCHANGED <<issued, bulk>>

\* ... or dropped when the task does not own it.
Discard(t) ==
    /\ stage[t] = "working"
    /\ ~Owner(t)
    /\ stage' = [stage EXCEPT ![t] = "discarded"]
    /\ UNCHANGED <<slot, issued, bulk>>

\* The bulk health refresh takes the slot under the id 0, marks it active after
\* each company but the last, and inactive after the last.
BulkStart ==
    /\ ~bulk
    /\ bulk' = TRUE
    /\ slot' = [active |-> TRUE, id |-> 0]
    /\ UNCHANGED <<issued, stage>>

BulkStep ==
    /\ bulk
    /\ slot' = [slot EXCEPT !.active = TRUE]
    /\ UNCHANGED <<issued, bulk, stage>>

BulkFinish ==
    /\ bulk
    /\ bulk' = FALSE
    /\ slot' = [slot EXCEPT !.active = FALSE]
    /\ UNCHANGED <<issued, stage>>

OwnershipNext ==
    \/ Take
    \/ \E t \in TaskIds : Settle(t) \/ Discard(t)
    \/ BulkStart \/ BulkStep \/ BulkFinish

OwnershipSpec == OwnershipInit /\ [][OwnershipNext]_ownershipVars

-----------------------------------------------------------------------------
\* A task that lost the slot never owns it again: no message of it can be
\* mistaken for one of the task that replaced it, or of the bulk refresh.
LostForGood ==
    [][\A t \in 1..issued : slot.id # t => slot'.id # t]_ownershipVars

\* The messages of a task whose final message was handled can pass the owner
\* test again only while a bulk refresh runs: its steps reactivate a slot that a
\* finished task left behind.
SettledOwnerNeedsBulk ==
    \A t \in TaskIds : stage[t] = "settled" /\ Owner(t) => bulk

=============================================================================
