--------------------------- MODULE TaskSlotProofs ---------------------------
(***************************************************************************)
(* Proofs about module TaskSlot, for any jobs, any number of tasks and any *)
(* capacities.                                                             *)
(***************************************************************************)
EXTENDS TaskSlot, TLAPS

-----------------------------------------------------------------------------
(* The inductive invariant.                                                *)

\* Ids are given out in order; what is to be sent again is there to be sent.
BookInv ==
    /\ slot.id <= next
    /\ \A t \in TaskIds : task[t].phase = "none" <=> t > next
    /\ \A t \in TaskIds : task[t].phase # "post" => republish[t] = {}
    /\ \A t \in TaskIds : \A j \in republish[t] : result[t][j] \in Results

\* Why nobody who works for the owner goes unheard: while the task works, its slot
\* is switched off only at the end of a refresh, and its reader leaves only then,
\* or when another id is in the slot; both stay as they are until the slot is
\* written anew, because no refresh is left that could switch it on.
HeardInv ==
    \A t \in TaskIds :
        /\ Producing(t) /\ slot.id = t /\ ~slot.active => ~bulk
        /\ Producing(t) /\ slot.id = t /\ reader[t].at = "gone" => ~slot.active
        /\ reader[t].at = "done" => ~Producing(t)

\* The inductive invariant.
TaskInv == TypeOK /\ BookInv /\ HeardInv

-----------------------------------------------------------------------------
(* It is an invariant.                                                     *)

\* A task that moves to another phase is still a task.
LEMMA TaskPhaseType ==
    ASSUME task \in [TaskIds -> TaskRecord], NEW t \in TaskIds,
           NEW p \in {"none", "handled", "dropped"} \cup Unfinished
    PROVE  [task EXCEPT ![t].phase = p] \in [TaskIds -> TaskRecord]
<1>1. [task[t] EXCEPT !.phase = p] \in TaskRecord
  <2>1. task[t] \in TaskRecord
    OBVIOUS
  <2> QED
    BY <2>1 DEF TaskRecord
<1>2. [task EXCEPT ![t].phase = p] = [task EXCEPT ![t] = [task[t] EXCEPT !.phase = p]]
  OBVIOUS
<1> QED
  BY <1>1, <1>2

LEMMA StartTaskInv ==
    ASSUME TaskInv, NEW kind \in {"enrich", "validate"}, NEW batch \in SUBSET Jobs,
           NEW cap \in {0, BatchCap, DetailCap}, NEW pending \in SUBSET batch,
           StartTask(kind, batch, cap, pending)
    PROVE  TaskInv'
<1> USE TaskSlotAssumption DEF TaskInv, StartTask, NewSlot
<1>1. TypeOK'
  BY DEF TypeOK, TaskRecord, TaskIds, Unfinished, Reading
<1>2. BookInv'
  BY DEF TypeOK, BookInv, TaskIds
<1>3. HeardInv'
  BY DEF TypeOK, BookInv, HeardInv, Producing, TaskIds, Reading
<1> QED
  BY <1>1, <1>2, <1>3

LEMMA BulkStartInv ==
    ASSUME TaskInv,
           BulkStart
    PROVE  TaskInv'
<1> USE TaskSlotAssumption DEF TaskInv, TypeOK, slotVars, producerVars, BulkStart
<1>1. TypeOK'
  <2>1. slot' \in [active: BOOLEAN, id: 0..MaxTasks, pending: SUBSET Jobs]
    <3>1. 0 \in 0..MaxTasks
      OBVIOUS
    <3> QED
      BY <3>1
  <2> QED
    BY <2>1
<1>2. BookInv'
  BY DEF BookInv
<1>3. HeardInv'
  BY DEF HeardInv, Producing, TaskIds
<1> QED
  BY <1>1, <1>2, <1>3

LEMMA BulkStepInv ==
    ASSUME TaskInv,
           BulkStep
    PROVE  TaskInv'
<1> USE TaskSlotAssumption DEF TaskInv, TypeOK, slotVars, producerVars, BulkStep
<1>1. TypeOK'
  BY DEF Unfinished, JobMsg
<1>2. BookInv'
  BY DEF BookInv
<1>3. HeardInv'
  BY DEF HeardInv, Producing, Owner
<1> QED
  BY <1>1, <1>2, <1>3

LEMMA BulkFinishInv ==
    ASSUME TaskInv,
           BulkFinish
    PROVE  TaskInv'
<1> USE TaskSlotAssumption DEF TaskInv, TypeOK, slotVars, producerVars, BulkFinish
<1>1. TypeOK'
  BY DEF Unfinished, JobMsg
<1>2. BookInv'
  BY DEF BookInv
<1>3. HeardInv'
  BY DEF HeardInv, Producing, Owner
<1> QED
  BY <1>1, <1>2, <1>3

LEMMA ExpireInv ==
    ASSUME TaskInv, NEW t \in TaskIds,
           Expire(t)
    PROVE  TaskInv'
<1> USE TaskSlotAssumption DEF TaskInv, TypeOK, slotVars, producerVars, Expire
<1>1. TypeOK'
  <2>1. task' \in [TaskIds -> TaskRecord]
    <3>1. [task[t] EXCEPT !.late = TRUE] \in TaskRecord
      <4>1. task[t] \in TaskRecord
        OBVIOUS
      <4> QED
        BY <4>1 DEF TaskRecord
    <3>2. task' = [task EXCEPT ![t] = [task[t] EXCEPT !.late = TRUE]]
      OBVIOUS
    <3> QED
      BY <3>1, <3>2
  <2> QED
    BY <2>1
<1>2. BookInv'
  BY DEF BookInv
<1>3. HeardInv'
  BY DEF HeardInv, Producing, Owner
<1> QED
  BY <1>1, <1>2, <1>3

LEMMA BeginJobInv ==
    ASSUME TaskInv, NEW t \in TaskIds, NEW j \in Jobs,
           BeginJob(t, j)
    PROVE  TaskInv'
<1> USE TaskSlotAssumption DEF TaskInv, TypeOK, slotVars, producerVars, BeginJob, Offer
<1>1. TypeOK'
  BY DEF Unfinished, JobMsg
<1>2. BookInv'
  BY DEF BookInv
<1>3. HeardInv'
  BY DEF HeardInv, Producing, Owner
<1> QED
  BY <1>1, <1>2, <1>3

LEMMA SkipJobInv ==
    ASSUME TaskInv, NEW t \in TaskIds, NEW j \in Jobs,
           SkipJob(t, j)
    PROVE  TaskInv'
<1> USE TaskSlotAssumption DEF TaskInv, TypeOK, slotVars, producerVars, SkipJob
<1>1. TypeOK'
  BY DEF Unfinished, JobMsg
<1>2. BookInv'
  BY DEF BookInv
<1>3. HeardInv'
  BY DEF HeardInv, Producing, Owner
<1> QED
  BY <1>1, <1>2, <1>3

LEMMA EmitJobInv ==
    ASSUME TaskInv, NEW t \in TaskIds, NEW j \in Jobs, NEW r \in Results,
           EmitJob(t, j, r)
    PROVE  TaskInv'
<1> USE TaskSlotAssumption DEF TaskInv, TypeOK, slotVars, producerVars, EmitJob, Offer
<1>1. TypeOK'
  BY DEF Unfinished, JobMsg
<1>2. BookInv'
  BY DEF BookInv
<1>3. HeardInv'
  BY DEF HeardInv, Producing, Owner
<1> QED
  BY <1>1, <1>2, <1>3

LEMMA VerifyJobInv ==
    ASSUME TaskInv, NEW t \in TaskIds, NEW j \in Jobs, NEW r \in Results,
           VerifyJob(t, j, r)
    PROVE  TaskInv'
<1> USE TaskSlotAssumption DEF TaskInv, TypeOK, slotVars, producerVars, VerifyJob
<1>1. TypeOK'
  BY DEF Unfinished, JobMsg
<1>2. BookInv'
  BY DEF BookInv
<1>3. HeardInv'
  BY DEF HeardInv, Producing, Owner
<1> QED
  BY <1>1, <1>2, <1>3

LEMMA PostProcessInv ==
    ASSUME TaskInv, NEW t \in TaskIds, NEW S \in SUBSET Jobs, NEW res \in [Jobs -> Results],
           PostProcess(t, S, res)
    PROVE  TaskInv'
<1> USE TaskSlotAssumption DEF TaskInv, TypeOK, slotVars, producerVars, PostProcess
<1>1. TypeOK'
  <2>1. result' \in [TaskIds -> [Jobs -> Results \cup {"none"}]]
    <3>1. [j \in Jobs |-> IF j \in S THEN res[j] ELSE result[t][j]]
             \in [Jobs -> Results \cup {"none"}]
      OBVIOUS
    <3> QED
      BY <3>1
  <2>2. S \in SUBSET Jobs
    OBVIOUS
  <2>3. task' \in [TaskIds -> TaskRecord]
    BY TaskPhaseType DEF Unfinished
  <2> QED
    BY <2>1, <2>2, <2>3
<1>2. BookInv'
  BY DEF BookInv
<1>3. HeardInv'
  BY DEF HeardInv, Producing, Owner
<1> QED
  BY <1>1, <1>2, <1>3

LEMMA RepublishInv ==
    ASSUME TaskInv, NEW t \in TaskIds, NEW j \in Jobs,
           Republish(t, j)
    PROVE  TaskInv'
<1> USE TaskSlotAssumption DEF TaskInv, TypeOK, slotVars, producerVars, Republish
<1>1. TypeOK'
  <2>1. result[t][j] \in Results
    BY DEF BookInv
  <2> QED
    BY <2>1
<1>2. BookInv'
  BY DEF BookInv
<1>3. HeardInv'
  BY DEF HeardInv, Producing, Owner
<1> QED
  BY <1>1, <1>2, <1>3

LEMMA ReturnInv ==
    ASSUME TaskInv, NEW t \in TaskIds,
           Return(t)
    PROVE  TaskInv'
<1> USE TaskSlotAssumption DEF TaskInv, TypeOK, slotVars, producerVars, Return, NoWork
<1>1. TypeOK'
  <2>1. task' \in [TaskIds -> TaskRecord]
    BY TaskPhaseType DEF Unfinished
  <2>2. work' \in [TaskIds -> [Jobs -> {"none", "queued", "working", "sent", "skipped"}]]
    <3>1. NoWork \in [Jobs -> {"none", "queued", "working", "sent", "skipped"}]
      OBVIOUS
    <3> QED
      BY <3>1
  <2> QED
    BY <2>1, <2>2
<1>2. BookInv'
  BY DEF BookInv
<1>3. HeardInv'
  BY DEF HeardInv, Producing, Owner
<1> QED
  BY <1>1, <1>2, <1>3

LEMMA ReadJobInv ==
    ASSUME TaskInv, NEW t \in TaskIds,
           ReadJob(t)
    PROVE  TaskInv'
<1> USE TaskSlotAssumption DEF TaskInv, TypeOK, slotVars, producerVars, ReadJob
<1>1. TypeOK'
  BY DEF Unfinished, JobMsg
<1>2. BookInv'
  BY DEF BookInv
<1>3. HeardInv'
  BY DEF HeardInv, Producing, Owner
<1> QED
  BY <1>1, <1>2, <1>3

LEMMA ReadTextInv ==
    ASSUME TaskInv, NEW t \in TaskIds,
           ReadText(t)
    PROVE  TaskInv'
<1> USE TaskSlotAssumption DEF TaskInv, TypeOK, slotVars, producerVars, ReadText
<1>1. TypeOK'
  BY DEF Unfinished, JobMsg
<1>2. BookInv'
  BY DEF BookInv
<1>3. HeardInv'
  BY DEF HeardInv, Producing, Owner
<1> QED
  BY <1>1, <1>2, <1>3

LEMMA ReadClosedInv ==
    ASSUME TaskInv, NEW t \in TaskIds,
           ReadClosed(t)
    PROVE  TaskInv'
<1> USE TaskSlotAssumption DEF TaskInv, TypeOK, slotVars, producerVars, ReadClosed
<1>1. TypeOK'
  BY DEF Unfinished, JobMsg
<1>2. BookInv'
  BY DEF BookInv
<1>3. HeardInv'
  BY DEF HeardInv, Producing, Owner
<1> QED
  BY <1>1, <1>2, <1>3

LEMMA ApplyJobInv ==
    ASSUME TaskInv, NEW t \in TaskIds,
           ApplyJob(t)
    PROVE  TaskInv'
<1> USE TaskSlotAssumption DEF TaskInv, TypeOK, slotVars, producerVars, ApplyJob, Reading
<1>1. TypeOK'
  BY DEF Unfinished, JobMsg
<1>2. BookInv'
  BY DEF BookInv
<1>3. HeardInv'
  BY DEF HeardInv, Producing, Owner
<1> QED
  BY <1>1, <1>2, <1>3

LEMMA ShowTextInv ==
    ASSUME TaskInv, NEW t \in TaskIds,
           ShowText(t)
    PROVE  TaskInv'
<1> USE TaskSlotAssumption DEF TaskInv, TypeOK, slotVars, producerVars, ShowText, Reading
<1>1. TypeOK'
  BY DEF Unfinished, JobMsg
<1>2. BookInv'
  BY DEF BookInv
<1>3. HeardInv'
  BY DEF HeardInv, Producing, Owner
<1> QED
  BY <1>1, <1>2, <1>3

LEMMA DropReaderInv ==
    ASSUME TaskInv, NEW t \in TaskIds,
           DropReader(t)
    PROVE  TaskInv'
<1> USE TaskSlotAssumption DEF TaskInv, TypeOK, slotVars, producerVars, DropReader, Gone
<1>1. TypeOK'
  BY DEF Unfinished, JobMsg
<1>2. BookInv'
  BY DEF BookInv
<1>3. HeardInv'
  BY DEF HeardInv, Producing, Owner
<1> QED
  BY <1>1, <1>2, <1>3

LEMMA ApplyFinalInv ==
    ASSUME TaskInv, NEW t \in TaskIds,
           ApplyFinal(t)
    PROVE  TaskInv'
<1> USE TaskSlotAssumption DEF TaskInv, TypeOK, slotVars, producerVars, ApplyFinal, NoResult
<1>1. TypeOK'
  <2>1. task' \in [TaskIds -> TaskRecord]
    BY TaskPhaseType DEF Unfinished
  <2>2. result' \in [TaskIds -> [Jobs -> Results \cup {"none"}]]
    <3>1. NoResult \in [Jobs -> Results \cup {"none"}]
      OBVIOUS
    <3> QED
      BY <3>1
  <2>3. slot' \in [active: BOOLEAN, id: 0..MaxTasks, pending: SUBSET Jobs]
    OBVIOUS
  <2> QED
    BY <2>1, <2>2, <2>3
<1>2. BookInv'
  <2>1. slot'.id = slot.id
    OBVIOUS
  <2>2. \A u \in TaskIds : /\ task'[u].phase = "none" <=> task[u].phase = "none"
                           /\ task'[u].phase = "post" <=> task[u].phase = "post"
    OBVIOUS
  <2>3. republish[t] = {}
    BY DEF BookInv
  <2>4. \A u \in TaskIds : \A j \in republish[u] : result'[u][j] = result[u][j]
    BY <2>3
  <2> QED
    BY <2>1, <2>2, <2>4 DEF BookInv
<1>3. HeardInv'
  BY DEF HeardInv, Producing, Owner
<1> QED
  BY <1>1, <1>2, <1>3

LEMMA DropFinalInv ==
    ASSUME TaskInv, NEW t \in TaskIds,
           DropFinal(t)
    PROVE  TaskInv'
<1> USE TaskSlotAssumption DEF TaskInv, TypeOK, slotVars, producerVars, DropFinal, NoResult
<1>1. TypeOK'
  <2>1. task' \in [TaskIds -> TaskRecord]
    BY TaskPhaseType DEF Unfinished
  <2>2. result' \in [TaskIds -> [Jobs -> Results \cup {"none"}]]
    <3>1. NoResult \in [Jobs -> Results \cup {"none"}]
      OBVIOUS
    <3> QED
      BY <3>1
  <2> QED
    BY <2>1, <2>2
<1>2. BookInv'
  <2>1. slot'.id = slot.id
    OBVIOUS
  <2>2. \A u \in TaskIds : /\ task'[u].phase = "none" <=> task[u].phase = "none"
                           /\ task'[u].phase = "post" <=> task[u].phase = "post"
    OBVIOUS
  <2>3. republish[t] = {}
    BY DEF BookInv
  <2>4. \A u \in TaskIds : \A j \in republish[u] : result'[u][j] = result[u][j]
    BY <2>3
  <2> QED
    BY <2>1, <2>2, <2>4 DEF BookInv
<1>3. HeardInv'
  BY DEF HeardInv, Producing, Owner
<1> QED
  BY <1>1, <1>2, <1>3

\* Nothing of it is about a step that changes nothing.
LEMMA StutterInv == ASSUME TaskInv, UNCHANGED taskVars PROVE TaskInv'
<1> USE DEF TaskInv, taskVars, slotVars, producerVars
<1>1. TypeOK'
  BY DEF TypeOK
<1>2. BookInv'
  BY DEF BookInv
<1>3. HeardInv'
  BY DEF HeardInv, Producing
<1> QED
  BY <1>1, <1>2, <1>3

LEMMA InitInv == Init => TaskInv
<1> SUFFICES ASSUME Init
             PROVE  TaskInv
  OBVIOUS
<1> USE TaskSlotAssumption DEF Init, TaskIds
<1>1. slot \in [active: BOOLEAN, id: 0..MaxTasks, pending: SUBSET Jobs]
  <2>1. 0 \in 0..MaxTasks
    OBVIOUS
  <2> QED
    BY <2>1
<1>2. NoTask \in TaskRecord
  BY DEF NoTask, TaskRecord
<1>3. NoWork \in [Jobs -> {"none", "queued", "working", "sent", "skipped"}]
  BY DEF NoWork
<1>4. NoResult \in [Jobs -> Results \cup {"none"}]
  BY DEF NoResult
<1>5. TypeOK
  <2>1. next \in 0..MaxTasks /\ bulk \in BOOLEAN
    <3>1. 0 \in 0..MaxTasks
      OBVIOUS
    <3> QED
      BY <3>1
  <2>2. task \in [TaskIds -> TaskRecord]
    BY <1>2
  <2>3. work \in [TaskIds -> [Jobs -> {"none", "queued", "working", "sent", "skipped"}]]
    BY <1>3
  <2>4. result \in [TaskIds -> [Jobs -> Results \cup {"none"}]]
    BY <1>4
  <2>5. republish \in [TaskIds -> SUBSET Jobs]
    OBVIOUS
  <2>6. chan \in [TaskIds -> Seq(Jobs \X Results)] /\ texts \in [TaskIds -> 0..TextCap]
    OBVIOUS
  <2>7. reader \in [TaskIds -> JobMsg \cup [at: {"off", "reading", "text", "done", "gone"}]]
    OBVIOUS
  <2> QED
    BY <1>1, <2>1, <2>2, <2>3, <2>4, <2>5, <2>6, <2>7 DEF TypeOK
<1>6. ASSUME NEW t \in TaskIds
      PROVE  /\ task[t].phase = "none"
             /\ republish[t] = {}
             /\ reader[t].at = "off"
             /\ t > next
  BY <1>6 DEF NoTask
<1>7. BookInv
  <2>1. slot.id <= next
    OBVIOUS
  <2>2. \A t \in TaskIds : task[t].phase = "none" <=> t > next
    BY <1>6
  <2>3. \A t \in TaskIds : republish[t] = {}
    BY <1>6
  <2> QED
    BY <2>1, <2>2, <2>3 DEF BookInv
<1>8. HeardInv
  BY <1>6 DEF HeardInv, Producing
<1> QED
  BY <1>5, <1>7, <1>8 DEF TaskInv

LEMMA UserInv == ASSUME TaskInv, User PROVE TaskInv'
<1>1. ASSUME NEW batch \in SUBSET Jobs, NEW pending \in SUBSET batch,
             AcceptReview(batch, pending)
      PROVE  TaskInv'
  BY <1>1, StartTaskInv DEF AcceptReview
<1>2. ASSUME NEW batch \in SUBSET Jobs, UpdateAll(batch)
      PROVE  TaskInv'
  BY <1>2, StartTaskInv DEF UpdateAll
<1>3. ASSUME NEW batch \in SUBSET Jobs, CheckPostings(batch)
      PROVE  TaskInv'
  <2>1. StartTask("validate", batch, 0, {})
    BY <1>3 DEF CheckPostings
  <2> QED
    BY <2>1, StartTaskInv
<1>4. ASSUME NEW j \in Jobs, NEW pending \in SUBSET {j}, UpdateDetails(j, pending)
      PROVE  TaskInv'
  <2>1. StartTask("enrich", {j}, DetailCap, pending)
    BY <1>4 DEF UpdateDetails
  <2> QED
    BY <2>1, StartTaskInv
<1> QED
  BY <1>1, <1>2, <1>3, <1>4, BulkStartInv DEF User

\* The inductive invariant holds in every state of every run.
THEOREM TaskInvariance == Spec => []TaskInv
<1>1. TaskInv /\ [Next]_taskVars => TaskInv'
  <2> SUFFICES ASSUME TaskInv, [Next]_taskVars
               PROVE  TaskInv'
    OBVIOUS
  <2>1. ASSUME NEW t \in TaskIds, Producer(t)
        PROVE  TaskInv'
    BY <2>1, ExpireInv, BeginJobInv, SkipJobInv, RepublishInv, EmitJobInv, VerifyJobInv,
       PostProcessInv, ReturnInv DEF Producer
  <2>2. ASSUME NEW t \in TaskIds, Reader(t)
        PROVE  TaskInv'
    BY <2>2, ReadJobInv, ReadTextInv, ReadClosedInv DEF Reader
  <2>3. ASSUME NEW t \in TaskIds, Handlers(t)
        PROVE  TaskInv'
    BY <2>3, ApplyJobInv, ShowTextInv, DropReaderInv, ApplyFinalInv, DropFinalInv DEF Handlers
  <2> QED
    BY <2>1, <2>2, <2>3, UserInv, BulkStepInv, BulkFinishInv, StutterInv DEF Next
<1> QED
  BY <1>1, InitInv, PTL DEF Spec

\* Every variable keeps its type, whatever the tasks and channels are.
THEOREM TypeCorrectness == Spec => []TypeOK
BY TaskInvariance, PTL DEF TaskInv

\* A task that works for the owner of the slot always has its reader
\* (waitForBackgroundTaskProgress, restarted by the handlers in
\* update_fetch_msgs.go), so that its full channel empties.
THEOREM OwnerIsHeardTheorem == Spec => []OwnerIsHeard
<1>1. TaskInv => OwnerIsHeard
  BY DEF TaskInv, HeardInv, OwnerIsHeard, Owner
<1> QED
  BY <1>1, TaskInvariance, PTL

-----------------------------------------------------------------------------
(* TaskSlot implements SlotOwnership.                                      *)

\* The stages of SlotOwnership's tasks, read off the tasks of TaskSlot.
Stages == [t \in TaskIds |-> Stage(t)]

\* A task that stays within one stage leaves all stages as they are.
LEMMA SameStages ==
    ASSUME TypeOK, TypeOK',
           \A t \in TaskIds : \/ task'[t].phase = task[t].phase
                              \/ task[t].phase \in Unfinished /\ task'[t].phase \in Unfinished
    PROVE  Stages' = Stages
<1>1. ASSUME NEW t \in TaskIds
      PROVE  Stage(t)' = Stage(t)
  BY <1>1 DEF Stage, Unfinished
<1> QED
  BY <1>1 DEF Stages

\* A step that leaves the slot's owner and the stages alone is invisible.
LEMMA SilentStep ==
    ASSUME TypeOK, TypeOK',
           UNCHANGED <<slot.active, slot.id, next, bulk>>,
           \A t \in TaskIds : \/ task'[t].phase = task[t].phase
                              \/ task[t].phase \in Unfinished /\ task'[t].phase \in Unfinished
    PROVE  UNCHANGED Ownership!ownershipVars
<1>1. Stages' = Stages
  BY SameStages
<1> QED
  BY <1>1 DEF Stages, Ownership!ownershipVars

\* A task that keeps its phase keeps its stage.
LEMMA SamePhase ==
    ASSUME NEW t \in TaskIds, task'[t] = task[t]
    PROVE  Stage(t)' = Stage(t)
BY DEF Stage, Unfinished

\* The slot of SlotOwnership after a step that switches the slot on or off.
LEMMA SwitchedSlot ==
    ASSUME NEW b, slot'.active = b, slot'.id = slot.id
    PROVE  [active |-> slot.active, id |-> slot.id]'
               = [[active |-> slot.active, id |-> slot.id] EXCEPT !.active = b]
OBVIOUS

\* The stages after a step that moves one task.
LEMMA MovedStage ==
    ASSUME NEW u \in TaskIds, NEW s,
           \A t \in TaskIds : Stage(t)' = IF t = u THEN s ELSE Stage(t)
    PROVE  Stages' = [Stages EXCEPT ![u] = s]
BY DEF Stages

LEMMA StartTaskTakes ==
    ASSUME TaskInv, NEW kind \in {"enrich", "validate"}, NEW batch \in SUBSET Jobs,
           NEW cap \in {0, BatchCap, DetailCap}, NEW pending \in SUBSET batch,
           StartTask(kind, batch, cap, pending)
    PROVE  Ownership!Take
<1> USE TaskSlotAssumption
<1>1. next + 1 \in TaskIds
  BY DEF TaskInv, TypeOK, StartTask, TaskIds
<1>2. ASSUME NEW t \in TaskIds
      PROVE  Stage(t)' = IF t = next + 1 THEN "working" ELSE Stage(t)
  <2>1. CASE t = next + 1
    <3>1. task'[t].phase = "running"
      BY <2>1, <1>1 DEF TaskInv, TypeOK, StartTask
    <3> QED
      BY <2>1, <3>1 DEF Stage, Unfinished
  <2>2. CASE t # next + 1
    <3>1. task'[t] = task[t]
      BY <2>2, <1>1 DEF TaskInv, TypeOK, StartTask
    <3> QED
      BY <2>2, <3>1, SamePhase
  <2> QED
    BY <2>1, <2>2
<1>3. Stages' = [Stages EXCEPT ![next + 1] = "working"]
  BY <1>1, <1>2, MovedStage
<1> QED
  BY <1>3 DEF Stages, Ownership!Take, StartTask, NewSlot

LEMMA ApplyFinalSettles ==
    ASSUME TaskInv, NEW t \in TaskIds, ApplyFinal(t)
    PROVE  Ownership!Settle(t)
<1>1. task[t].phase = "returned" /\ task'[t].phase = "handled"
  BY DEF TaskInv, TypeOK, ApplyFinal
<1>2. ASSUME NEW u \in TaskIds
      PROVE  Stage(u)' = IF u = t THEN "settled" ELSE Stage(u)
  <2>1. CASE u = t
    BY <1>1, <2>1 DEF Stage, Unfinished
  <2>2. CASE u # t
    <3>1. task'[u] = task[u]
      BY <2>2 DEF TaskInv, TypeOK, ApplyFinal
    <3> QED
      BY <2>2, <3>1, SamePhase
  <2> QED
    BY <2>1, <2>2
<1>3. Stages' = [Stages EXCEPT ![t] = "settled"]
  BY <1>2, MovedStage
<1>4. Stages[t] = "working"
  BY <1>1 DEF Stages, Stage, Unfinished
<1>5. /\ Owner(t)
      /\ slot'.active = FALSE /\ slot'.id = slot.id
      /\ UNCHANGED <<next, bulk>>
  BY DEF TaskInv, TypeOK, ApplyFinal
<1> QED
  BY <1>3, <1>4, <1>5, SwitchedSlot DEF Stages, Ownership!Settle, Ownership!Owner, Owner

LEMMA DropFinalDiscards ==
    ASSUME TaskInv, NEW t \in TaskIds, DropFinal(t)
    PROVE  Ownership!Discard(t)
<1>1. task[t].phase = "returned" /\ task'[t].phase = "dropped"
  BY DEF TaskInv, TypeOK, DropFinal
<1>2. ASSUME NEW u \in TaskIds
      PROVE  Stage(u)' = IF u = t THEN "discarded" ELSE Stage(u)
  <2>1. CASE u = t
    BY <1>1, <2>1 DEF Stage, Unfinished
  <2>2. CASE u # t
    <3>1. task'[u] = task[u]
      BY <2>2 DEF TaskInv, TypeOK, DropFinal
    <3> QED
      BY <2>2, <3>1, SamePhase
  <2> QED
    BY <2>1, <2>2
<1>3. Stages' = [Stages EXCEPT ![t] = "discarded"]
  BY <1>2, MovedStage
<1>4. Stages[t] = "working"
  BY <1>1 DEF Stages, Stage, Unfinished
<1>5. ~Owner(t) /\ UNCHANGED <<slot, next, bulk>>
  BY DEF DropFinal, slotVars
<1> QED
  BY <1>3, <1>4, <1>5 DEF Stages, Ownership!Discard, Ownership!Owner, Owner

\* Steps of the bulk refresh are steps of the abstract one.
LEMMA BulkMaps ==
    ASSUME TaskInv, TaskInv', BulkStart \/ BulkStep \/ BulkFinish
    PROVE  Ownership!BulkStart \/ Ownership!BulkStep \/ Ownership!BulkFinish
<1> USE DEF TaskInv
<1>1. Stages' = Stages
  BY SameStages DEF BulkStart, BulkStep, BulkFinish
<1>2. CASE BulkStart
  BY <1>1, <1>2 DEF Stages, BulkStart, Ownership!BulkStart
<1>3. CASE BulkStep
  <2>1. slot'.active = TRUE /\ slot'.id = slot.id
    BY <1>3 DEF TypeOK, BulkStep
  <2> QED
    BY <1>1, <1>3, <2>1, SwitchedSlot DEF Stages, BulkStep, Ownership!BulkStep
<1>4. CASE BulkFinish
  <2>1. slot'.active = FALSE /\ slot'.id = slot.id
    BY <1>4 DEF TypeOK, BulkFinish
  <2> QED
    BY <1>1, <1>4, <2>1, SwitchedSlot DEF Stages, BulkFinish, Ownership!BulkFinish
<1> QED
  BY <1>2, <1>3, <1>4

LEMMA UserMaps ==
    ASSUME TaskInv, TaskInv', User
    PROVE  Ownership!Take \/ Ownership!BulkStart \/ Ownership!BulkStep \/ Ownership!BulkFinish
<1>1. ASSUME NEW batch \in SUBSET Jobs, NEW pending \in SUBSET batch,
             AcceptReview(batch, pending)
      PROVE  Ownership!Take
  BY <1>1, StartTaskTakes DEF AcceptReview
<1>2. ASSUME NEW batch \in SUBSET Jobs, UpdateAll(batch)
      PROVE  Ownership!Take
  BY <1>2, StartTaskTakes DEF UpdateAll
<1>3. ASSUME NEW batch \in SUBSET Jobs, CheckPostings(batch)
      PROVE  Ownership!Take
  <2>1. StartTask("validate", batch, 0, {})
    BY <1>3 DEF CheckPostings
  <2> QED
    BY <2>1, StartTaskTakes
<1>4. ASSUME NEW j \in Jobs, NEW pending \in SUBSET {j}, UpdateDetails(j, pending)
      PROVE  Ownership!Take
  <2>1. StartTask("enrich", {j}, DetailCap, pending)
    BY <1>4 DEF UpdateDetails
  <2> QED
    BY <2>1, StartTaskTakes
<1> QED
  BY <1>1, <1>2, <1>3, <1>4, BulkMaps DEF User

LEMMA ProducerMaps ==
    ASSUME TaskInv, TaskInv', NEW t \in TaskIds, Producer(t)
    PROVE  UNCHANGED Ownership!ownershipVars
<1>1. UNCHANGED slotVars
  BY DEF Producer, Expire, BeginJob, SkipJob, Republish, EmitJob, VerifyJob, PostProcess, Return
<1> DEFINE Stays == \A u \in TaskIds :
                       \/ task'[u].phase = task[u].phase
                       \/ task[u].phase \in Unfinished /\ task'[u].phase \in Unfinished
<1>2. Stays
  <2>1. ASSUME Expire(t)
        PROVE  Stays
    BY <2>1 DEF TaskInv, TypeOK, Expire
  <2>2. ASSUME NEW j \in Jobs, BeginJob(t, j) \/ SkipJob(t, j) \/ Republish(t, j)
        PROVE  Stays
    BY <2>2 DEF BeginJob, SkipJob, Republish
  <2>3. ASSUME NEW j \in Jobs, NEW r \in Results, EmitJob(t, j, r) \/ VerifyJob(t, j, r)
        PROVE  Stays
    BY <2>3 DEF EmitJob, VerifyJob
  <2>4. ASSUME NEW S \in SUBSET Jobs, NEW res \in [Jobs -> Results], PostProcess(t, S, res)
        PROVE  Stays
    BY <2>4 DEF TaskInv, TypeOK, Unfinished, PostProcess
  <2>5. ASSUME Return(t)
        PROVE  Stays
    BY <2>5 DEF TaskInv, TypeOK, Unfinished, Return
  <2> HIDE DEF Stays
  <2> QED
    BY <2>1, <2>2, <2>3, <2>4, <2>5 DEF Producer
<1> QED
  BY <1>1, <1>2, SilentStep DEF TaskInv, slotVars

LEMMA ReaderMaps ==
    ASSUME TaskInv, TaskInv', NEW t \in TaskIds, Reader(t)
    PROVE  UNCHANGED Ownership!ownershipVars
<1>1. UNCHANGED <<slotVars, task>>
  BY DEF Reader, ReadJob, ReadText, ReadClosed
<1> QED
  BY <1>1, SilentStep DEF TaskInv, slotVars

LEMMA HandlersMap ==
    ASSUME TaskInv, TaskInv', NEW t \in TaskIds, Handlers(t)
    PROVE  Ownership!Settle(t) \/ Ownership!Discard(t) \/ UNCHANGED Ownership!ownershipVars
<1>1. ASSUME ApplyJob(t) \/ ShowText(t) \/ DropReader(t)
      PROVE  UNCHANGED Ownership!ownershipVars
  <2>1. UNCHANGED <<slot.active, slot.id, next, bulk, task>>
    BY <1>1 DEF TaskInv, TypeOK, ApplyJob, ShowText, DropReader, slotVars
  <2> QED
    BY <2>1, SilentStep DEF TaskInv
<1> QED
  BY <1>1, ApplyFinalSettles, DropFinalDiscards DEF Handlers

LEMMA InitMaps == Init => Ownership!OwnershipInit
<1> SUFFICES ASSUME Init
             PROVE  Ownership!OwnershipInit
  OBVIOUS
<1>1. ASSUME NEW t \in TaskIds
      PROVE  Stage(t) = "none"
  <2>1. task[t].phase = "none"
    BY <1>1 DEF Init, NoTask
  <2> QED
    BY <2>1 DEF Stage, Unfinished
<1> QED
  BY <1>1 DEF Init, Ownership!OwnershipInit, Ownership!TaskIds, TaskIds

LEMMA StepMaps ==
    ASSUME TaskInv, TaskInv', [Next]_taskVars
    PROVE  [Ownership!OwnershipNext]_(Ownership!ownershipVars)
<1>1. CASE User \/ BulkStep \/ BulkFinish
  BY <1>1, UserMaps, BulkMaps DEF Ownership!OwnershipNext
<1>2. ASSUME NEW t \in TaskIds, Producer(t) \/ Reader(t)
      PROVE  UNCHANGED Ownership!ownershipVars
  BY <1>2, ProducerMaps, ReaderMaps
<1>3. ASSUME NEW t \in TaskIds, Handlers(t)
      PROVE  [Ownership!OwnershipNext]_(Ownership!ownershipVars)
  BY <1>3, HandlersMap DEF Ownership!OwnershipNext, Ownership!TaskIds, TaskIds
<1>4. CASE UNCHANGED taskVars
  BY <1>4, SilentStep DEF TaskInv, taskVars, slotVars
<1> QED
  BY <1>1, <1>2, <1>3, <1>4 DEF Next

\* With all its goroutines, channels and stale messages, the slot changes hands
\* only as SlotOwnership says.
THEOREM TaskSlotImplementsOwnership == Spec => ImplementsOwnership
<1>1. TaskInv /\ TaskInv' /\ [Next]_taskVars
         => [Ownership!OwnershipNext]_(Ownership!ownershipVars)
  BY StepMaps
<1> QED
  BY <1>1, InitMaps, TaskInvariance, PTL DEF Spec, ImplementsOwnership, Ownership!OwnershipSpec

\* What SlotOwnershipProofs proves of the abstract specification.
Facts == INSTANCE SlotOwnershipProofs WITH
    slot <- [active |-> slot.active, id |-> slot.id],
    issued <- next,
    stage <- [t \in TaskIds |-> Stage(t)]

\* Both instances are the same specification.
LEMMA SameSpec == Ownership!OwnershipSpec => Facts!OwnershipSpec
<1>1. Ownership!OwnershipInit => Facts!OwnershipInit
  BY DEF Ownership!OwnershipInit, Facts!OwnershipInit, Ownership!TaskIds, Facts!TaskIds
<1>2. Ownership!OwnershipNext => Facts!OwnershipNext
  BY DEF Ownership!OwnershipNext, Facts!OwnershipNext, Ownership!TaskIds, Facts!TaskIds,
         Ownership!Take, Facts!Take, Ownership!Settle, Facts!Settle,
         Ownership!Discard, Facts!Discard, Ownership!Owner, Facts!Owner,
         Ownership!BulkStart, Facts!BulkStart, Ownership!BulkStep, Facts!BulkStep,
         Ownership!BulkFinish, Facts!BulkFinish
<1>3. UNCHANGED Ownership!ownershipVars => UNCHANGED Facts!ownershipVars
  BY DEF Ownership!ownershipVars, Facts!ownershipVars
<1> QED
  BY <1>1, <1>2, <1>3, PTL DEF Ownership!OwnershipSpec, Facts!OwnershipSpec

\* A task that lost the slot never owns it again, so no stale message of its
\* goroutines passes the owner test of a handler.
THEOREM TaskSlotLostForGood == Spec => LostForGood
<1>1. MaxTasks \in Nat \ {0}
  BY TaskSlotAssumption
<1>2. Facts!OwnershipSpec => Facts!LostForGood
  BY <1>1, Facts!TaskIsLostForGood
<1>3. [\A t \in 1..next : [active |-> slot.active, id |-> slot.id].id # t
            => [active |-> slot.active, id |-> slot.id]'.id # t]_(Facts!ownershipVars)
      => [\A t \in 1..next : [active |-> slot.active, id |-> slot.id].id # t
            => [active |-> slot.active, id |-> slot.id]'.id # t]_(Ownership!ownershipVars)
  BY DEF Ownership!ownershipVars, Facts!ownershipVars
<1> QED
  BY <1>2, <1>3, SameSpec, TaskSlotImplementsOwnership, PTL
     DEF LostForGood, ImplementsOwnership, Facts!LostForGood, Ownership!LostForGood

\* The messages of a task whose final message was handled pass the owner test
\* again only while a bulk refresh runs.
THEOREM TaskSlotSettledOwner == Spec => []SettledOwnerNeedsBulk
<1>1. MaxTasks \in Nat \ {0}
  BY TaskSlotAssumption
<1>2. Facts!OwnershipSpec => []Facts!SettledOwnerNeedsBulk
  BY <1>1, Facts!SettledOwnerTheorem
<1>3. Facts!SettledOwnerNeedsBulk => SettledOwnerNeedsBulk
  BY DEF Facts!SettledOwnerNeedsBulk, SettledOwnerNeedsBulk, Ownership!SettledOwnerNeedsBulk,
         Facts!TaskIds, Ownership!TaskIds, Facts!Owner, Ownership!Owner
<1> QED
  BY <1>2, <1>3, SameSpec, TaskSlotImplementsOwnership, PTL DEF ImplementsOwnership

-----------------------------------------------------------------------------
(* Fields shown as loading.                                                *)

\* A result that completes the job is on its way to the event loop, or about to be
\* sent again.
Carried(t, j) ==
    \/ \E i \in DOMAIN chan[t] : chan[t][i][1] = j /\ chan[t][i][2] \in Full
    \/ reader[t].at = "job" /\ reader[t].job = j /\ reader[t].res \in Full
    \/ j \in republish[t]

\* Why a pending field of the owner is honest: the latest result of the job is on
\* its way, because the first result that completes the job takes it out of the
\* pending fields, a later one is sent again, and a message is dropped only when
\* the slot is lost or switched off for good.  A posting check has no such fields.
PendingInv ==
    /\ \A t \in TaskIds, j \in Jobs : t > next => result[t][j] = "none"
    /\ \A t \in TaskIds :
          task[t].phase \in Unfinished /\ slot.id = t /\ ~slot.active => ~bulk
    /\ \A t \in TaskIds : slot.id = t /\ task[t].kind = "validate" => slot.pending = {}
    /\ \A t \in TaskIds, j \in Jobs :
          /\ Owner(t) /\ j \in slot.pending
          /\ task[t].phase \in Unfinished
          /\ result[t][j] \in Full
          => Carried(t, j)

\* A step that leaves the slot, the tasks and their results alone.
LEMMA CarriedOn ==
    ASSUME PendingInv, UNCHANGED <<slot, next, bulk, result>>,
           \A u \in TaskIds : task'[u].phase = task[u].phase /\ task'[u].kind = task[u].kind,
           \A u \in TaskIds : \A i \in Jobs :
              Owner(u) /\ i \in slot.pending /\ Carried(u, i) => Carried(u, i)'
    PROVE  PendingInv'
BY DEF PendingInv, Owner

\* What each of them carries is still carried when none of the channels changes.
LEMMA SameCarried ==
    ASSUME UNCHANGED <<chan, reader, republish>>
    PROVE  \A u, i : Carried(u, i) => Carried(u, i)'
BY DEF Carried

\* A task that starts has delivered nothing yet.
LEMMA StartTaskPending ==
    ASSUME TaskInv, PendingInv, NEW kind \in {"enrich", "validate"}, NEW batch \in SUBSET Jobs,
           NEW cap \in {0, BatchCap, DetailCap}, NEW pending \in SUBSET batch,
           StartTask(kind, batch, cap, pending), kind = "validate" => pending = {}
    PROVE  PendingInv'
<1> USE TaskSlotAssumption DEF TaskInv, TypeOK, StartTask, NewSlot, TaskIds
<1>1. \A t \in TaskIds, j \in Jobs : t > next' => result'[t][j] = "none"
  BY DEF PendingInv
<1>2. \A t \in TaskIds : slot'.id = t => slot'.active /\ result'[t] = result[t] /\ t > next
  OBVIOUS
<1>3. \A t \in TaskIds, j \in Jobs : slot'.id = t => result'[t][j] \notin Full
  BY <1>2 DEF PendingInv
<1>4. \A t \in TaskIds : slot'.id = t /\ task'[t].kind = "validate" => slot'.pending = {}
  OBVIOUS
<1> QED
  BY <1>1, <1>2, <1>3, <1>4 DEF PendingInv, Owner

\* The keys of the user.
LEMMA UserPending ==
    ASSUME TaskInv, PendingInv, User
    PROVE  PendingInv'
<1>1. ASSUME NEW batch \in SUBSET Jobs, NEW pending \in SUBSET batch,
             AcceptReview(batch, pending)
      PROVE  PendingInv'
  BY <1>1, StartTaskPending DEF AcceptReview
<1>2. ASSUME NEW batch \in SUBSET Jobs, UpdateAll(batch)
      PROVE  PendingInv'
  BY <1>2, StartTaskPending DEF UpdateAll
<1>3. ASSUME NEW batch \in SUBSET Jobs, CheckPostings(batch)
      PROVE  PendingInv'
  <2>1. StartTask("validate", batch, 0, {})
    BY <1>3 DEF CheckPostings
  <2> QED
    BY <2>1, StartTaskPending
<1>4. ASSUME NEW j \in Jobs, NEW pending \in SUBSET {j}, UpdateDetails(j, pending)
      PROVE  PendingInv'
  <2>1. StartTask("enrich", {j}, DetailCap, pending)
    BY <1>4 DEF UpdateDetails
  <2> QED
    BY <2>1, StartTaskPending
<1>5. CASE BulkStart
  <2>1. slot' = [active |-> TRUE, id |-> 0, pending |-> {}] /\ UNCHANGED <<next, task, result>>
    BY <1>5 DEF BulkStart, producerVars
  <2> QED
    BY <2>1 DEF PendingInv, Owner, TaskIds
<1> QED
  BY <1>1, <1>2, <1>3, <1>4, <1>5 DEF User

\* The steps of a bulk refresh.
LEMMA BulkPending ==
    ASSUME TaskInv, PendingInv, BulkStep \/ BulkFinish
    PROVE  PendingInv'
<1>1. UNCHANGED <<next, task, chan, reader, republish, result>>
  BY DEF BulkStep, BulkFinish, producerVars
<1>2. slot'.id = slot.id /\ slot'.pending = slot.pending
  BY DEF BulkStep, BulkFinish, TaskInv, TypeOK
<1>3. \A u, i : Carried(u, i) => Carried(u, i)'
  BY <1>1, SameCarried
<1>4. CASE BulkStep
  <2>1. bulk /\ slot'.active /\ UNCHANGED bulk
    BY <1>4 DEF BulkStep, TaskInv, TypeOK
  <2> QED
    BY <1>1, <1>2, <1>3, <2>1 DEF PendingInv, Owner
<1>5. CASE BulkFinish
  <2>1. ~bulk' /\ ~slot'.active
    BY <1>5 DEF BulkFinish, TaskInv, TypeOK
  <2> QED
    BY <1>1, <1>2, <1>3, <2>1 DEF PendingInv, Owner
<1> QED
  BY <1>4, <1>5

\* The steps of a producer: every full result is put in the channel, or among those
\* to be sent again.
LEMMA ProducerPending ==
    ASSUME TaskInv, PendingInv, NEW t \in TaskIds, Producer(t)
    PROVE  PendingInv'
<1> USE TaskSlotAssumption DEF TaskInv, TypeOK, slotVars, producerVars
<1>1. CASE Expire(t)
  <2>1. UNCHANGED <<slot, next, bulk, result, chan, reader, republish>>
    BY <1>1 DEF Expire
  <2>2. \A u \in TaskIds : task'[u].phase = task[u].phase /\ task'[u].kind = task[u].kind
    BY <1>1 DEF Expire, TaskRecord
  <2> QED
    BY <2>1, <2>2, CarriedOn, SameCarried
<1>2. ASSUME NEW j \in Jobs, BeginJob(t, j) \/ SkipJob(t, j)
      PROVE  PendingInv'
  <2>1. UNCHANGED <<slot, next, bulk, task, result, chan, reader, republish>>
    BY <1>2 DEF BeginJob, SkipJob
  <2> QED
    BY <2>1, CarriedOn, SameCarried
<1>3. ASSUME NEW j \in Jobs, Republish(t, j)
      PROVE  PendingInv'
  <2> DEFINE m == <<j, result[t][j]>>
  <2>1. /\ UNCHANGED <<slot, next, bulk, task, result, reader>>
        /\ chan' = [chan EXCEPT ![t] = Append(@, m)]
        /\ republish' = [republish EXCEPT ![t] = @ \ {j}]
        /\ task[t].phase = "post"
    BY <1>3 DEF Republish
  <2>2. m \in Jobs \X Results
    BY <1>3 DEF Republish, BookInv
  <2>3. \A u \in TaskIds : \A i \in DOMAIN chan[u] : i \in DOMAIN chan'[u] /\ chan'[u][i] = chan[u][i]
    BY <2>1, <2>2
  <2>4. Len(chan[t]) + 1 \in DOMAIN chan'[t] /\ chan'[t][Len(chan[t]) + 1] = m
    BY <2>1, <2>2
  <2>5. ASSUME NEW u \in TaskIds, NEW i \in Jobs, Owner(u), i \in slot.pending,
               task[u].phase \in Unfinished, result[u][i] \in Full
        PROVE  Carried(u, i)'
    <3>1. Carried(u, i)
      BY <2>5 DEF PendingInv
    <3>2. CASE u = t /\ i = j
      BY <2>1, <2>4, <2>5, <3>2 DEF Carried
    <3>3. CASE u # t \/ i # j
      BY <2>1, <2>3, <3>1, <3>3 DEF Carried
    <3> QED
      BY <3>2, <3>3
  <2> QED
    BY <2>1, <2>5 DEF PendingInv, Owner
<1>4. ASSUME NEW j \in Jobs, NEW r \in Results, EmitJob(t, j, r)
      PROVE  PendingInv'
  <2> DEFINE m == <<j, r>>
  <2>1. /\ UNCHANGED <<slot, next, bulk, task, reader, republish>>
        /\ chan' = [chan EXCEPT ![t] = Append(@, m)]
        /\ result' = [result EXCEPT ![t][j] = r]
        /\ task[t].phase = "running"
    BY <1>4 DEF EmitJob
  <2>2. m \in Jobs \X Results
    OBVIOUS
  <2>3. \A u \in TaskIds : \A i \in DOMAIN chan[u] : i \in DOMAIN chan'[u] /\ chan'[u][i] = chan[u][i]
    BY <2>1, <2>2
  <2>4. Len(chan[t]) + 1 \in DOMAIN chan'[t] /\ chan'[t][Len(chan[t]) + 1] = m
    BY <2>1, <2>2
  <2>5. ASSUME NEW u \in TaskIds, NEW i \in Jobs, Owner(u), i \in slot.pending,
               task[u].phase \in Unfinished, result'[u][i] \in Full
        PROVE  Carried(u, i)'
    <3>1. CASE u = t /\ i = j
      BY <2>1, <2>4, <2>5, <3>1 DEF Carried
    <3>2. CASE u # t \/ i # j
      <4>1. Carried(u, i)
        BY <2>1, <2>5, <3>2 DEF PendingInv
      <4> QED
        BY <2>1, <2>3, <4>1 DEF Carried
    <3> QED
      BY <3>1, <3>2
  <2>6. t <= next
    BY <2>1 DEF BookInv, TaskIds
  <2> QED
    BY <2>1, <2>5, <2>6 DEF PendingInv, Owner, TaskIds
<1>5. ASSUME NEW j \in Jobs, NEW r \in Results, VerifyJob(t, j, r)
      PROVE  PendingInv'
  <2>1. /\ UNCHANGED <<slot, next, bulk, task, reader, republish, chan>>
        /\ result' = [result EXCEPT ![t][j] = r]
        /\ task[t].kind = "validate" /\ task[t].phase = "running"
    BY <1>5 DEF VerifyJob
  <2>2. Owner(t) => slot.pending = {}
    BY <2>1 DEF PendingInv, Owner
  <2>3. \A u, i : Carried(u, i) => Carried(u, i)'
    BY <2>1, SameCarried
  <2>4. t <= next
    BY <2>1 DEF BookInv, TaskIds
  <2> QED
    BY <2>1, <2>2, <2>3, <2>4 DEF PendingInv, Owner, TaskIds
<1>6. ASSUME NEW S \in SUBSET Jobs, NEW res \in [Jobs -> Results], PostProcess(t, S, res)
      PROVE  PendingInv'
  <2>1. /\ UNCHANGED <<slot, next, bulk, reader, chan>>
        /\ result' = [result EXCEPT ![t] = [j \in Jobs |-> IF j \in S THEN res[j] ELSE result[t][j]]]
        /\ republish' = [republish EXCEPT ![t] = S]
        /\ task[t].phase = "running"
    BY <1>6 DEF PostProcess
  <2>2. \A u \in TaskIds : /\ task'[u].kind = task[u].kind
                           /\ task'[u].phase \in Unfinished => task[u].phase \in Unfinished
    BY <1>6, <2>1 DEF PostProcess, TaskRecord, Unfinished
  <2>3. republish[t] = {}
    BY <2>1 DEF BookInv
  <2>4. ASSUME NEW u \in TaskIds, NEW i \in Jobs, Owner(u), i \in slot.pending,
               task'[u].phase \in Unfinished, result'[u][i] \in Full
        PROVE  Carried(u, i)'
    <3>1. CASE u = t /\ i \in S
      BY <2>1, <3>1 DEF Carried
    <3>2. CASE u # t \/ i \notin S
      <4>1. Carried(u, i)
        BY <2>1, <2>2, <2>4, <3>2 DEF PendingInv
      <4> QED
        BY <2>1, <2>3, <4>1 DEF Carried
    <3> QED
      BY <3>1, <3>2
  <2>5. t <= next
    BY <2>1 DEF BookInv, TaskIds
  <2> QED
    BY <2>1, <2>2, <2>4, <2>5 DEF PendingInv, Owner, TaskIds
<1>7. CASE Return(t)
  <2>1. UNCHANGED <<slot, next, bulk, result, chan, reader, republish>>
    BY <1>7 DEF Return
  <2>2. \A u \in TaskIds : /\ task'[u].kind = task[u].kind
                           /\ task'[u].phase \in Unfinished => task[u].phase \in Unfinished
    BY <1>7 DEF Return, TaskRecord, Unfinished
  <2>3. \A u, i : Carried(u, i) => Carried(u, i)'
    BY <2>1, SameCarried
  <2> QED
    BY <2>1, <2>2, <2>3 DEF PendingInv, Owner
<1> QED
  BY <1>1, <1>2, <1>3, <1>4, <1>5, <1>6, <1>7 DEF Producer

\* The steps of a reader.
LEMMA ReaderPending ==
    ASSUME TaskInv, PendingInv, NEW t \in TaskIds, Reader(t)
    PROVE  PendingInv'
<1> USE TaskSlotAssumption DEF TaskInv, TypeOK, slotVars, producerVars
<1>1. CASE ReadJob(t)
  <2>1. /\ UNCHANGED <<slot, next, bulk, task, result, republish>>
        /\ reader[t].at = "reading" /\ chan[t] # <<>>
        /\ reader' = [reader EXCEPT ![t] = [at |-> "job", job |-> Head(chan[t])[1],
                                                          res |-> Head(chan[t])[2]]]
        /\ chan' = [chan EXCEPT ![t] = Tail(@)]
    BY <1>1 DEF ReadJob
  <2>2. ASSUME NEW i \in DOMAIN chan[t], i # 1
        PROVE  i - 1 \in DOMAIN chan'[t] /\ chan'[t][i - 1] = chan[t][i]
    BY <2>1, <2>2
  <2>3. ASSUME NEW u \in TaskIds, NEW i \in Jobs, Carried(u, i)
        PROVE  Carried(u, i)'
    <3>1. CASE u # t
      BY <2>1, <2>3, <3>1 DEF Carried
    <3>2. CASE u = t /\ i \in republish[t]
      BY <2>1, <3>2 DEF Carried
    <3>3. ASSUME u = t, NEW n \in DOMAIN chan[t], chan[t][n][1] = i, chan[t][n][2] \in Full
          PROVE  Carried(u, i)'
      <4>1. CASE n = 1
        BY <2>1, <3>3, <4>1 DEF Carried
      <4>2. CASE n # 1
        BY <2>2, <3>3, <4>2 DEF Carried
      <4> QED
        BY <4>1, <4>2
    <3> QED
      BY <2>1, <2>3, <3>1, <3>2, <3>3 DEF Carried
  <2> QED
    BY <2>1, <2>3, CarriedOn
<1>2. CASE ReadText(t) \/ ReadClosed(t)
  <2>1. /\ UNCHANGED <<slot, next, bulk, task, result, republish, chan>>
        /\ reader[t].at = "reading"
        /\ \A u \in TaskIds : u # t => reader'[u] = reader[u]
    BY <1>2 DEF ReadText, ReadClosed
  <2>2. \A u \in TaskIds, i \in Jobs : Carried(u, i) => Carried(u, i)'
    BY <2>1 DEF Carried
  <2> QED
    BY <2>1, <2>2, CarriedOn
<1> QED
  BY <1>1, <1>2 DEF Reader

\* The handlers: a full result that arrives ends the wait for it.
LEMMA HandlersPending ==
    ASSUME TaskInv, PendingInv, NEW t \in TaskIds, Handlers(t)
    PROVE  PendingInv'
<1> USE TaskSlotAssumption DEF TaskInv, TypeOK, slotVars, producerVars
<1>1. CASE ApplyJob(t)
  <2>1. /\ UNCHANGED <<next, bulk, task, result, republish, chan>>
        /\ slot'.id = slot.id /\ slot'.active = slot.active
        /\ slot'.pending = IF reader[t].res \in Full THEN slot.pending \ {reader[t].job}
                           ELSE slot.pending
        /\ \A u \in TaskIds : u # t => reader'[u] = reader[u]
        /\ Owner(t)
    BY <1>1 DEF ApplyJob
  <2>2. ASSUME NEW u \in TaskIds, NEW i \in Jobs, Owner(u), i \in slot'.pending, Carried(u, i)
        PROVE  Carried(u, i)'
    <3>1. u = t
      BY <2>1, <2>2 DEF Owner
    <3>2. ~(reader[t].job = i /\ reader[t].res \in Full)
      BY <2>1, <2>2
    <3> QED
      BY <2>1, <2>2, <3>1, <3>2 DEF Carried
  <2> QED
    BY <2>1, <2>2 DEF PendingInv, Owner
<1>2. CASE ShowText(t)
  <2>1. /\ UNCHANGED <<slot, next, bulk, task, result, republish, chan>>
        /\ reader[t].at = "text"
        /\ \A u \in TaskIds : u # t => reader'[u] = reader[u]
    BY <1>2 DEF ShowText
  <2>2. \A u \in TaskIds, i \in Jobs : Carried(u, i) => Carried(u, i)'
    BY <2>1 DEF Carried
  <2> QED
    BY <2>1, <2>2, CarriedOn
<1>3. CASE DropReader(t)
  <2>1. /\ UNCHANGED <<slot, next, bulk, task, result, republish, chan>>
        /\ reader[t].at = "job" => ~Owner(t)
        /\ \A u \in TaskIds : u # t => reader'[u] = reader[u]
    BY <1>3 DEF DropReader
  <2>2. \A u \in TaskIds, i \in Jobs : Owner(u) /\ Carried(u, i) => Carried(u, i)'
    BY <2>1 DEF Carried
  <2> QED
    BY <2>1, <2>2, CarriedOn
<1>4. CASE ApplyFinal(t)
  <2>1. /\ UNCHANGED <<next, bulk, republish, chan, reader>>
        /\ slot'.id = slot.id /\ ~slot'.active /\ slot'.pending = {} /\ slot.id = t
        /\ result' = [result EXCEPT ![t] = NoResult]
    BY <1>4 DEF ApplyFinal, Owner
  <2>2. \A u \in TaskIds : /\ u # t => task'[u] = task[u]
                           /\ u = t => task'[u].phase = "handled"
    BY <1>4 DEF ApplyFinal, TaskRecord
  <2> QED
    BY <2>1, <2>2 DEF PendingInv, Owner, NoResult, Unfinished
<1>5. CASE DropFinal(t)
  <2>1. /\ UNCHANGED <<slot, next, bulk, republish, chan, reader>>
        /\ \A u \in TaskIds : u # t => result'[u] = result[u]
        /\ \A j \in Jobs : result'[t][j] = "none"
    BY <1>5 DEF DropFinal, NoResult
  <2>2. \A u \in TaskIds : /\ u # t => task'[u] = task[u]
                           /\ task'[u].kind = task[u].kind
                           /\ task'[u].phase \in Unfinished => u # t
    BY <1>5 DEF DropFinal, TaskRecord, Unfinished
  <2>3. \A u, i : Carried(u, i) => Carried(u, i)'
    BY <2>1, SameCarried
  <2> QED
    BY <2>1, <2>2, <2>3 DEF PendingInv, Owner
<1> QED
  BY <1>1, <1>2, <1>3, <1>4, <1>5 DEF Handlers

\* A job is shown as loading only as long as a result that completes it is on its
\* way (pendingFields, handleBackgroundJobEnrichedMsg of update_fetch_msgs.go).
THEOREM PendingIsUndeliveredTheorem == Spec => []PendingIsUndelivered
<1>1. Init => PendingInv
  BY TaskSlotAssumption DEF Init, PendingInv, NoTask, NoResult, TaskIds, Owner
<1>2. TaskInv /\ PendingInv /\ [Next]_taskVars => PendingInv'
  <2> SUFFICES ASSUME TaskInv, PendingInv, [Next]_taskVars
               PROVE  PendingInv'
    OBVIOUS
  <2>1. CASE UNCHANGED taskVars
    BY <2>1, CarriedOn, SameCarried DEF taskVars, slotVars, producerVars
  <2> QED
    BY <2>1, UserPending, BulkPending, ProducerPending, ReaderPending, HandlersPending DEF Next
<1>3. PendingInv => PendingIsUndelivered
  BY DEF PendingInv, PendingIsUndelivered, Carried, InFlight
<1> QED
  BY <1>1, <1>2, <1>3, TaskInvariance, PTL DEF Spec

=============================================================================
