------------------------ MODULE SlotOwnershipProofs ------------------------
(***************************************************************************)
(* Proofs about the ownership of the background slot, for any number of    *)
(* tasks.                                                                  *)
(***************************************************************************)
EXTENDS SlotOwnership, TLAPS

\* Ids are given out in order, and the slot holds none that was not given out;
\* a task is at work or over once its id was given out; and a settled task that
\* is still in the slot left it inactive, unless a refresh runs.
OwnershipInv ==
    /\ OwnershipTypeOK
    /\ slot.id <= issued
    /\ \A t \in TaskIds : stage[t] = "none" <=> t > issued
    /\ SettledOwnerNeedsBulk

\* The inductive invariant holds at the start and survives every step.
THEOREM OwnershipInvariance == OwnershipSpec => []OwnershipInv
<1>1. OwnershipInit => OwnershipInv
  <2> SUFFICES ASSUME OwnershipInit
               PROVE  OwnershipInv
    OBVIOUS
  <2>1. slot \in [active: BOOLEAN, id: 0..MaxTasks] /\ issued \in 0..MaxTasks /\ slot.id <= issued
    <3>1. 0 \in 0..MaxTasks
      BY MaxTasksAssumption
    <3> QED
      BY <3>1 DEF OwnershipInit
  <2>2. bulk \in BOOLEAN /\ stage \in [TaskIds -> {"none", "working", "settled", "discarded"}]
    BY DEF OwnershipInit
  <2>3. ASSUME NEW t \in TaskIds
        PROVE  /\ stage[t] = "none" <=> t > issued
               /\ stage[t] # "settled"
    BY <2>3, MaxTasksAssumption DEF OwnershipInit, TaskIds
  <2> QED
    BY <2>1, <2>2, <2>3 DEF OwnershipInv, OwnershipTypeOK, SettledOwnerNeedsBulk
<1>2. OwnershipInv /\ [OwnershipNext]_ownershipVars => OwnershipInv'
  <2> SUFFICES ASSUME OwnershipInv, [OwnershipNext]_ownershipVars
               PROVE  OwnershipInv'
    OBVIOUS
  <2> USE MaxTasksAssumption DEF OwnershipInv, OwnershipTypeOK, SettledOwnerNeedsBulk,
          TaskIds, Owner
  <2>1. CASE Take
    BY <2>1 DEF Take
  <2>2. ASSUME NEW t \in TaskIds, Settle(t)
        PROVE  OwnershipInv'
    BY <2>2 DEF Settle
  <2>3. ASSUME NEW t \in TaskIds, Discard(t)
        PROVE  OwnershipInv'
    BY <2>3 DEF Discard
  <2>4. CASE BulkStart
    BY <2>4 DEF BulkStart
  <2>5. CASE BulkStep
    BY <2>5 DEF BulkStep
  <2>6. CASE BulkFinish
    BY <2>6 DEF BulkFinish
  <2>7. CASE UNCHANGED ownershipVars
    BY <2>7 DEF ownershipVars
  <2> QED
    BY <2>1, <2>2, <2>3, <2>4, <2>5, <2>6, <2>7 DEF OwnershipNext
<1> QED
  BY <1>1, <1>2, PTL DEF OwnershipSpec

\* A step of the program moves a task into the slot only when it gives its id out.
LEMMA IdsAreFresh ==
    ASSUME OwnershipInv, [OwnershipNext]_ownershipVars,
           NEW t \in 1..issued, slot.id # t
    PROVE  slot'.id # t
<1> USE MaxTasksAssumption DEF OwnershipInv, OwnershipTypeOK, TaskIds
<1>1. CASE Take
  BY <1>1 DEF Take
<1>2. CASE \E u \in TaskIds : Settle(u) \/ Discard(u)
  BY <1>2 DEF Settle, Discard
<1>3. CASE BulkStart \/ BulkStep \/ BulkFinish
  BY <1>3 DEF BulkStart, BulkStep, BulkFinish
<1>4. CASE UNCHANGED ownershipVars
  BY <1>4 DEF ownershipVars
<1> QED
  BY <1>1, <1>2, <1>3, <1>4 DEF OwnershipNext

\* A task that lost the slot never owns it again (the owner tests of the message
\* handlers in update_fetch_msgs.go and posting_validation.go rest on it).
THEOREM TaskIsLostForGood == OwnershipSpec => LostForGood
<1>1. OwnershipInv /\ [OwnershipNext]_ownershipVars
        => [\A t \in 1..issued : slot.id # t => slot'.id # t]_ownershipVars
  BY IdsAreFresh
<1> QED
  BY <1>1, OwnershipInvariance, PTL DEF OwnershipSpec, LostForGood

\* A settled task passes the owner test only during a bulk refresh.
THEOREM SettledOwnerTheorem == OwnershipSpec => []SettledOwnerNeedsBulk
BY OwnershipInvariance, PTL DEF OwnershipInv

=============================================================================
