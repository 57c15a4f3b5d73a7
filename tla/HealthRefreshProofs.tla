------------------------- MODULE HealthRefreshProofs -------------------------
(***************************************************************************)
(* Proofs about the health commands, for any jobs, keys, concurrency and   *)
(* number of refreshes, about the lookups they run, and about the access   *)
(* to the language model, for any files, environment and callers.          *)
(*                                                                         *)
(* The names of the companies are any: what a refresh leaves undone, and   *)
(* the lookups beyond the limit, are counted against the jobs that share a *)
(* name, and the run bulk_health_names shows a refresh that leaves some.   *)
(***************************************************************************)
EXTENDS HealthRefresh, Induction, TLAPS

-----------------------------------------------------------------------------
(* Types.                                                                  *)

\* What the counters of a refresh may be.
Bulks == [fetching: BOOLEAN, total: Nat, limit: 0..Concurrency, completed: Nat,
          inFlight: 0..Concurrency, todo: SUBSET Jobs]

\* The inductive invariant about counters and browsers.
Inv ==
    /\ TypeOK
    /\ bulk.inFlight <= bulk.limit
    /\ bulk.fetching => runs \in RunIds
    /\ ~bulk.fetching => bulk.inFlight = 0

\* Any number of jobs can be counted.
LEMMA Countable ==
    ASSUME NEW S \in SUBSET Jobs
    PROVE  IsFiniteSet(S) /\ Cardinality(S) \in Nat
BY FS_Subset, FS_CardinalityType, BulkHealthAssumption

\* So can the names of their companies.
LEMMA TotalType ==
    ASSUME NEW S \in SUBSET Jobs
    PROVE  /\ Total(S) \in Nat
           /\ IsFiniteSet(Names(S)) /\ Total(S) \in 0..Cardinality(S)
<1> DEFINE names == {company[j] : j \in S}
           f == [j \in S |-> company[j]]
<1>1. f \in Surjection(S, names)
  BY DEF Surjection
<1>2. IsFiniteSet(names) /\ Cardinality(names) <= Cardinality(S)
  BY <1>1, Countable, FS_Surjection
<1>3. Cardinality(names) \in Nat /\ Cardinality(S) \in Nat
  BY <1>2, Countable, FS_CardinalityType
<1>4. names = Names(S)
  BY DEF Names
<1> HIDE DEF names
<1> QED
  BY <1>2, <1>3, <1>4 DEF Total

\* Scheduling leaves no more lookups in flight than the limit.
LEMMA ScheduleTypes ==
    ASSUME NEW b \in Bulks, b.inFlight <= b.limit, NEW r \in RunIds, NEW S, NEW old,
           old \subseteq [run: RunIds, job: Jobs, answer: Answers], Schedule(b, r, S, old)
    PROVE  /\ bulk' \in Bulks
           /\ bulk' = [b EXCEPT !.inFlight = @ + Cardinality(S), !.todo = @ \ S]
           /\ bulk'.inFlight <= bulk'.limit
           /\ steps' \subseteq [run: RunIds, job: Jobs, answer: Answers]
<1>1. S \subseteq Jobs /\ Cardinality(S) \in Nat /\ Cardinality(b.todo) \in Nat
  BY Countable DEF Schedule, Bulks
<1>2. b.inFlight + Cardinality(S) <= b.limit
  BY <1>1 DEF Schedule, AtMost, Bulks
<1>3. bulk' = [b EXCEPT !.inFlight = @ + Cardinality(S), !.todo = @ \ S]
  BY DEF Schedule
<1>4. bulk'.inFlight = b.inFlight + Cardinality(S) /\ bulk'.limit = b.limit
  BY <1>3 DEF Bulks
<1>5. b.inFlight + Cardinality(S) \in 0..Concurrency
  BY <1>1, <1>2, BulkHealthAssumption DEF Bulks
<1>6. bulk' \in Bulks
  BY <1>3, <1>5 DEF Bulks
<1>7. steps' \subseteq [run: RunIds, job: Jobs, answer: Answers]
  BY <1>1 DEF Schedule, Step, Answers
<1> QED
  BY <1>2, <1>3, <1>4, <1>6, <1>7

\* A message that is counted gives its place back.
LEMMA CountedTypes ==
    ASSUME NEW b \in Bulks, b.inFlight <= b.limit
    PROVE  /\ Counted(b) \in Bulks
           /\ Counted(b).inFlight <= Counted(b).limit
           /\ Counted(b).inFlight = IF b.inFlight > 0 THEN b.inFlight - 1 ELSE 0
           /\ Counted(b).completed = b.completed + 1
           /\ Counted(b).todo = b.todo /\ Counted(b).total = b.total
           /\ Counted(b).fetching = b.fetching
<1> DEFINE left == IF b.inFlight > 0 THEN b.inFlight - 1 ELSE 0
<1>1. left \in 0..Concurrency /\ left <= b.limit /\ b.completed + 1 \in Nat
  BY BulkHealthAssumption DEF Bulks
<1>2. Counted(b) = [b EXCEPT !.inFlight = left, !.completed = b.completed + 1]
  BY DEF Counted
<1> HIDE DEF left
<1>3. Counted(b) \in Bulks
  BY <1>1, <1>2 DEF Bulks
<1>4. Counted(b).inFlight = left /\ Counted(b).limit = b.limit
  BY <1>2 DEF Bulks
<1> QED
  BY <1>1, <1>2, <1>3, <1>4 DEF left, Bulks

\* Each step keeps the types.
LEMMA StepTypes ==
    ASSUME Inv, [Next]_bulkVars
    PROVE  Inv'
<1> USE DEF Inv
<1>0. bulk \in Bulks /\ steps \subseteq [run: RunIds, job: Jobs, answer: Answers]
  BY DEF TypeOK, Bulks
<1>1. ASSUME NEW S \in SUBSET Jobs, StartRefresh(S)
      PROVE  Inv'
  <2> DEFINE candidates == {j \in Jobs : single[j] = "idle"}
             missing == {j \in candidates : ~Cached(j)}
             batch == IF missing # {} THEN missing ELSE candidates
             begun == [fetching |-> TRUE, total |-> Total(batch),
                       limit |-> AtMost(Concurrency, Cardinality(batch)),
                       completed |-> 0, inFlight |-> 0, todo |-> batch]
  <2>1. batch \in SUBSET Jobs
    OBVIOUS
  <2>2. Cardinality(batch) \in Nat /\ Total(batch) \in Nat
    <3> HIDE DEF batch
    <3> QED
      BY <2>1, Countable, TotalType
  <2>3. AtMost(Concurrency, Cardinality(batch)) \in 0..Concurrency
    BY <2>2, BulkHealthAssumption DEF AtMost
  <2>4. begun \in Bulks /\ begun.inFlight <= begun.limit
    <3> HIDE DEF batch
    <3> QED
      BY <2>1, <2>2, <2>3, BulkHealthAssumption DEF Bulks
  <2>5. Schedule(begun, runs + 1, S, steps) /\ runs' = runs + 1 /\ runs < MaxRuns
    BY <1>1 DEF StartRefresh
  <2>6. runs + 1 \in RunIds
    BY <2>5, BulkHealthAssumption DEF TypeOK, RunIds
  <2>7. /\ bulk' \in Bulks /\ bulk'.inFlight <= bulk'.limit
        /\ steps' \subseteq [run: RunIds, job: Jobs, answer: Answers]
    <3> HIDE DEF begun
    <3> QED
      BY <1>0, <2>4, <2>5, <2>6, ScheduleTypes
  <2>8. runs' \in 0..MaxRuns
    BY <2>5, BulkHealthAssumption DEF TypeOK
  <2>9. /\ browser' \in [RunIds -> {"none", "idle", "open", "closed"}]
        /\ health' \subseteq Jobs /\ single' = single /\ company' = company
    BY <1>1 DEF StartRefresh, TypeOK
  <2>10. bulk'.fetching
    BY <1>1 DEF StartRefresh, Schedule
  <2> QED
    BY <2>5, <2>6, <2>7, <2>8, <2>9, <2>10 DEF TypeOK, Bulks
<1>2. ASSUME NEW s \in steps, NEW a \in Answers, Answer(s, a)
      PROVE  Inv'
  <2>1. [s EXCEPT !.answer = a] \in [run: RunIds, job: Jobs, answer: Answers]
    BY <1>0
  <2> QED
    BY <1>0, <1>2, <2>1 DEF Answer, TypeOK
<1>3. ASSUME NEW s \in steps, NEW S \in SUBSET Jobs, HandleStep(s, S)
      PROVE  Inv'
  <2>1. CASE UNCHANGED <<bulk, browser, health>> /\ steps' = steps \ {s}
    BY <1>3, <2>1 DEF HandleStep, TypeOK
  <2>2. CASE bulk' = Idle /\ steps' = steps \ {s} /\ browser' = ClosedBrowser(runs)
    <3>1. bulk' \in Bulks /\ bulk'.inFlight <= bulk'.limit /\ ~bulk'.fetching /\ bulk'.inFlight = 0
      BY <2>2, BulkHealthAssumption DEF Idle, Bulks
    <3>2. health' \subseteq Jobs /\ UNCHANGED <<company, runs, single>>
      BY <1>0, <1>3 DEF HandleStep, TypeOK
    <3>3. browser' \in [RunIds -> {"none", "idle", "open", "closed"}]
      BY <2>2 DEF ClosedBrowser, TypeOK
    <3> QED
      BY <2>2, <3>1, <3>2, <3>3 DEF TypeOK, Bulks
  <2>3. CASE bulk.fetching /\ Schedule(Counted(bulk), runs, S, steps \ {s}) /\ UNCHANGED browser
    <3>1. Counted(bulk) \in Bulks /\ Counted(bulk).inFlight <= Counted(bulk).limit
      BY <1>0, CountedTypes
    <3>2. /\ bulk' \in Bulks /\ bulk'.inFlight <= bulk'.limit
          /\ steps' \subseteq [run: RunIds, job: Jobs, answer: Answers]
      BY <1>0, <2>3, <3>1, ScheduleTypes
    <3>3. health' \subseteq Jobs /\ UNCHANGED <<company, runs, single>>
      BY <1>0, <1>3 DEF HandleStep, TypeOK
    <3>4. bulk'.fetching
      BY <1>0, <2>3, <3>1, CountedTypes DEF Schedule, Bulks
    <3> QED
      BY <2>3, <3>2, <3>3, <3>4 DEF TypeOK, Bulks
  <2> QED
    BY <1>0, <1>3, <2>1, <2>2, <2>3 DEF HandleStep, TypeOK
<1>4. ASSUME NEW s \in steps, UseBrowser(s)
      PROVE  Inv'
  BY <1>4 DEF UseBrowser, TypeOK
<1>5. ASSUME NEW j \in Jobs, NEW again \in BOOLEAN, StartSingle(j, again)
      PROVE  Inv'
  BY <1>5 DEF StartSingle, TypeOK, Answers
<1>6. ASSUME NEW j \in Jobs, NEW a \in Answers, AnswerSingle(j, a)
      PROVE  Inv'
  BY <1>6 DEF AnswerSingle, TypeOK
<1>7. ASSUME NEW j \in Jobs, HandleSingle(j)
      PROVE  Inv'
  BY <1>7 DEF HandleSingle, Filed, TypeOK
<1>8. CASE UNCHANGED bulkVars
  BY <1>8 DEF bulkVars, TypeOK
<1>9. Watched \subseteq Jobs
  BY BulkHealthAssumption
<1> QED
  BY <1>1, <1>2, <1>3, <1>4, <1>5, <1>6, <1>7, <1>8, <1>9 DEF Next, Progress

\* The refresh keeps its types, and the counter of lookups in flight stays within the
\* limit, whatever companies, lookups and refreshes there are.
THEOREM TypeCorrectness == Spec => []TypeOK
<1>1. Init => Inv
  <2>1. Init => TypeOK
    BY BulkHealthAssumption DEF Init, TypeOK, Idle
  <2> QED
    BY <2>1 DEF Init, Inv, Idle
<1>2. Inv /\ [Next]_bulkVars => Inv'
  BY StepTypes
<1>3. Inv => TypeOK
  BY DEF Inv
<1> QED
  BY <1>1, <1>2, <1>3, PTL DEF Spec

-----------------------------------------------------------------------------
(* The browser.                                                            *)

\* The browser of a refresh does not outlive it, and no command of an earlier refresh
\* starts it again, whatever the names of the companies.
THEOREM BrowserIsReleasedTheorem == Spec => []BrowserIsReleased
<1>1. Init => Inv /\ BrowserIsReleased
  <2>1. Init => TypeOK
    BY BulkHealthAssumption DEF Init, TypeOK, Idle
  <2> QED
    BY <2>1 DEF Init, Inv, Idle, BrowserIsReleased
<1>2. ASSUME Inv, BrowserIsReleased, [Next]_bulkVars
      PROVE  BrowserIsReleased'
  <2>1. browser \in [RunIds -> {"none", "idle", "open", "closed"}]
    BY <1>2 DEF Inv, TypeOK
  <2>2. ASSUME UNCHANGED <<browser, runs>>, bulk'.fetching = bulk.fetching
        PROVE  BrowserIsReleased'
    BY <1>2, <2>2 DEF BrowserIsReleased
  <2>3. ASSUME NEW S, StartRefresh(S)
        PROVE  BrowserIsReleased'
    <3>1. bulk'.fetching
      BY <2>3 DEF StartRefresh, Schedule
    <3>2. browser' = [browser EXCEPT ![runs + 1] = "idle"] /\ runs' = runs + 1 /\ ~bulk.fetching
      BY <2>3 DEF StartRefresh
    <3> QED
      BY <1>2, <2>1, <3>1, <3>2 DEF BrowserIsReleased
  <2>4. ASSUME NEW s \in steps, NEW S, HandleStep(s, S)
        PROVE  BrowserIsReleased'
    <3>1. CASE ~bulk.fetching
      BY <2>2, <2>4, <3>1 DEF HandleStep
    <3>2. CASE bulk.fetching /\ browser' = ClosedBrowser(runs)
      BY <1>2, <2>1, <2>4, <3>2 DEF HandleStep, ClosedBrowser, BrowserIsReleased
    <3>3. CASE bulk.fetching /\ Schedule(Counted(bulk), runs, S, steps \ {s}) /\ UNCHANGED browser
      <4>1. bulk'.fetching
        BY <1>2, <3>3 DEF Schedule, Counted, Inv, TypeOK
      <4> QED
        BY <2>2, <2>4, <3>3, <4>1 DEF HandleStep
    <3> QED
      BY <2>4, <3>1, <3>2, <3>3 DEF HandleStep
  <2>5. ASSUME NEW s \in steps, UseBrowser(s)
        PROVE  BrowserIsReleased'
    BY <1>2, <2>1, <2>5 DEF UseBrowser, BrowserIsReleased
  <2>6. ASSUME NEW s \in steps, NEW a \in Answers, Answer(s, a)
        PROVE  BrowserIsReleased'
    BY <2>2, <2>6 DEF Answer
  <2>7. ASSUME NEW j \in Jobs,
               \/ \E again \in BOOLEAN : StartSingle(j, again)
               \/ \E a \in Answers : AnswerSingle(j, a)
               \/ HandleSingle(j)
        PROVE  BrowserIsReleased'
    BY <2>2, <2>7 DEF StartSingle, AnswerSingle, HandleSingle
  <2>8. CASE UNCHANGED bulkVars
    BY <2>2, <2>8 DEF bulkVars
  <2>9. Watched \subseteq Jobs
    BY BulkHealthAssumption
  <2> QED
    BY <1>2, <2>3, <2>4, <2>5, <2>6, <2>7, <2>8, <2>9 DEF Next, Progress
<1>3. Inv /\ [Next]_bulkVars => Inv'
  BY StepTypes
<1> QED
  BY <1>1, <1>2, <1>3, PTL DEF Spec

-----------------------------------------------------------------------------
(* Counting.                                                               *)

\* Of a batch, no more jobs share a name than of all jobs.
LEMMA SharedBounds ==
    ASSUME NEW batch \in SUBSET Jobs
    PROVE  /\ Shared \in Nat
           /\ Cardinality(batch) <= Total(batch) + Shared
<1> DEFINE rest == Jobs \ batch
<1>1. /\ Cardinality(Jobs) \in Nat /\ Cardinality(batch) \in Nat /\ Cardinality(rest) \in Nat
      /\ IsFiniteSet(batch) /\ IsFiniteSet(rest)
  BY Countable
<1>2. Cardinality(Jobs) = Cardinality(batch) + Cardinality(rest)
  <2>1. Jobs = batch \cup rest /\ batch \cap rest = {}
    OBVIOUS
  <2>2. Cardinality(batch \cap rest) = 0
    BY <2>1, FS_EmptySet
  <2> HIDE DEF rest
  <2>3. Cardinality(batch \cup rest) = Cardinality(batch) + Cardinality(rest) - 0
    BY <1>1, <2>2, FS_Union
  <2> QED
    BY <1>1, <2>1, <2>3
<1>3. \A S \in SUBSET Jobs :
         IsFiniteSet(Names(S)) /\ Cardinality(Names(S)) \in 0..Cardinality(S)
  BY TotalType DEF Total
<1>4. Cardinality(Names(Jobs)) <= Cardinality(Names(batch)) + Cardinality(Names(rest))
  <2>1. Names(Jobs) = Names(batch) \cup Names(rest)
    BY DEF Names
  <2>2. /\ IsFiniteSet(Names(batch)) /\ IsFiniteSet(Names(rest))
        /\ Cardinality(Names(batch)) \in Nat /\ Cardinality(Names(rest)) \in Nat
    BY <1>1, <1>3
  <2> HIDE DEF rest
  <2>3. /\ Cardinality(Names(batch) \cup Names(rest))
             = Cardinality(Names(batch)) + Cardinality(Names(rest))
                 - Cardinality(Names(batch) \cap Names(rest))
    BY <2>2, FS_Union
  <2>4. Cardinality(Names(batch) \cap Names(rest)) \in Nat
    <3>1. IsFiniteSet(Names(batch) \cap Names(rest))
      BY <2>2, FS_Subset, Names(batch) \cap Names(rest) \subseteq Names(batch)
    <3> QED
      BY <3>1, FS_CardinalityType
  <2> QED
    BY <2>1, <2>2, <2>3, <2>4
<1>5. /\ Cardinality(Names(Jobs)) \in 0..Cardinality(Jobs)
      /\ Cardinality(Names(batch)) \in Nat
      /\ Cardinality(Names(rest)) \in 0..Cardinality(rest)
  BY <1>1, <1>3
<1> HIDE DEF rest
<1> QED
  BY <1>1, <1>2, <1>4, <1>5 DEF Shared, Total

\* Adding to the elements of a finite set.
LEMMA UnionBound ==
    ASSUME NEW A, NEW B, IsFiniteSet(A), IsFiniteSet(B)
    PROVE  /\ IsFiniteSet(A \cup B)
           /\ Cardinality(A \cup B) \in Nat
           /\ Cardinality(A \cup B) <= Cardinality(A) + Cardinality(B)
<1>1. IsFiniteSet(A \cap B)
  BY FS_Subset, A \cap B \subseteq A
<1>2. /\ Cardinality(A \cap B) \in Nat /\ Cardinality(A) \in Nat /\ Cardinality(B) \in Nat
  BY <1>1, FS_CardinalityType
<1>3. /\ IsFiniteSet(A \cup B)
      /\ Cardinality(A \cup B) = Cardinality(A) + Cardinality(B) - Cardinality(A \cap B)
  BY FS_Union
<1>4. Cardinality(A \cup B) \in Nat
  BY <1>3, FS_CardinalityType
<1> QED
  BY <1>2, <1>3, <1>4

\* What the ended refreshes left undone, at most.
Left(n) == Shared * n

LEMMA LeftType ==
    ASSUME NEW n \in Nat
    PROVE  Left(n) \in Nat /\ Left(n + 1) = Left(n) + Shared
BY SharedBounds DEF Left

\* The commands that run are the ones the counter knows of and those that ended
\* refreshes left; with the answers counted and the jobs to do, they are no more than
\* the answers the refresh waits for and what the shared names leave over.
Accounts ==
    /\ IsFiniteSet(steps)
    /\ Cardinality(steps) <= bulk.inFlight + Left(Ended)
    /\ bulk.fetching =>
          bulk.completed + Cardinality(steps) + Cardinality(bulk.todo) <= bulk.total + Left(runs)

\* Commands that are started are counted.
LEMMA ScheduleAccounts ==
    ASSUME NEW b \in Bulks, b.fetching, NEW r \in RunIds, NEW S,
           NEW old, IsFiniteSet(old), Schedule(b, r, S, old),
           NEW late \in Nat, Cardinality(old) <= b.inFlight + late,
           NEW left \in Nat, b.completed + Cardinality(old) + Cardinality(b.todo) <= b.total + left
    PROVE  /\ bulk'.fetching /\ bulk'.total = b.total
           /\ IsFiniteSet(steps')
           /\ Cardinality(steps') <= bulk'.inFlight + late
           /\ bulk'.completed + Cardinality(steps') + Cardinality(bulk'.todo) <= bulk'.total + left
<1> DEFINE new == {Step(r, j) : j \in S}
           f == [j \in S |-> Step(r, j)]
<1>1. S \subseteq b.todo /\ S \in SUBSET Jobs /\ b.todo \in SUBSET Jobs
  BY DEF Schedule, Bulks
<1>2. IsFiniteSet(S) /\ IsFiniteSet(b.todo) /\ Cardinality(S) \in Nat /\ Cardinality(b.todo) \in Nat
  BY <1>1, Countable
<1>3. IsFiniteSet(new) /\ Cardinality(new) = Cardinality(S)
  <2>1. f \in Surjection(S, new) /\ f \in Injection(S, new)
    BY DEF Surjection, Injection, IsInjective, Step
  <2> QED
    BY <1>2, <2>1, FS_Surjection
<1>4. steps' = old \cup new
  BY DEF Schedule
<1>5. Cardinality(old) \in Nat
  BY FS_CardinalityType
<1>6. /\ IsFiniteSet(steps') /\ Cardinality(steps') \in Nat
      /\ Cardinality(steps') <= Cardinality(old) + Cardinality(S)
  <2> HIDE DEF new
  <2> QED
    BY <1>3, <1>4, UnionBound
<1>7. Cardinality(b.todo \ S) = Cardinality(b.todo) - Cardinality(S)
  <2>1. b.todo = (b.todo \ S) \cup S /\ (b.todo \ S) \cap S = {}
    BY <1>1
  <2>2. IsFiniteSet(b.todo \ S) /\ Cardinality(b.todo \ S) \in Nat
    BY <1>1, Countable
  <2>3. Cardinality((b.todo \ S) \cap S) = 0
    BY <2>1, FS_EmptySet
  <2>4. Cardinality((b.todo \ S) \cup S) = Cardinality(b.todo \ S) + Cardinality(S) - 0
    BY <1>2, <2>2, <2>3, FS_Union
  <2>5. Cardinality(b.todo) = Cardinality((b.todo \ S) \cup S)
    BY <2>1
  <2> HIDE DEF new, f
  <2> QED
    BY <1>2, <2>2, <2>4, <2>5
<1>8. /\ bulk'.fetching
      /\ bulk'.inFlight = b.inFlight + Cardinality(S)
      /\ bulk'.completed = b.completed /\ bulk'.total = b.total
      /\ bulk'.todo = b.todo \ S
  <2>1. bulk' = [b EXCEPT !.inFlight = @ + Cardinality(S), !.todo = @ \ S]
    BY DEF Schedule
  <2> QED
    BY <2>1 DEF Bulks
<1>9. b.completed \in Nat /\ b.inFlight \in Nat /\ b.total \in Nat
  BY BulkHealthAssumption DEF Bulks
<1> HIDE DEF new, f
<1> QED
  BY <1>2, <1>5, <1>6, <1>7, <1>8, <1>9

\* The steps of the refresh keep the accounts.
LEMMA AccountsStep ==
    ASSUME Inv, Accounts, [Next]_bulkVars
    PROVE  /\ Accounts'
           /\ bulk.fetching /\ ~bulk'.fetching =>
                 Cardinality(bulk.todo) + Cardinality(steps') <= Left(runs)
<1> DEFINE Going == /\ Accounts'
                    /\ bulk.fetching /\ ~bulk'.fetching =>
                          Cardinality(bulk.todo) + Cardinality(steps') <= Left(runs)
<1>0. /\ bulk \in Bulks /\ steps \subseteq [run: RunIds, job: Jobs, answer: Answers]
      /\ runs \in Nat
  BY BulkHealthAssumption DEF Inv, TypeOK, Bulks
<1>a. IsFiniteSet(steps) /\ Cardinality(steps) \in Nat /\ Cardinality(bulk.todo) \in Nat
  BY <1>0, Countable, FS_CardinalityType DEF Accounts, Bulks
<1>b. /\ bulk.completed \in Nat /\ bulk.total \in Nat /\ bulk.inFlight \in Nat
  BY <1>0, BulkHealthAssumption DEF Bulks
<1>c. /\ bulk.fetching => runs \in RunIds /\ Ended \in Nat /\ runs = Ended + 1
      /\ ~bulk.fetching => Ended = runs
  BY <1>0, BulkHealthAssumption DEF Inv, Ended, RunIds
<1>d. company' = company => \A n : Left(n)' = Left(n')
  BY DEF Left, Shared, Names
<1>1. ASSUME NEW S \in SUBSET Jobs, StartRefresh(S)
      PROVE  Going
  <2> DEFINE candidates == {j \in Jobs : single[j] = "idle"}
             missing == {j \in candidates : ~Cached(j)}
             batch == IF missing # {} THEN missing ELSE candidates
             begun == [fetching |-> TRUE, total |-> Total(batch),
                       limit |-> AtMost(Concurrency, Cardinality(batch)),
                       completed |-> 0, inFlight |-> 0, todo |-> batch]
  <2>1. batch \in SUBSET Jobs
    OBVIOUS
  <2>2. /\ Cardinality(batch) \in Nat /\ Total(batch) \in Nat
        /\ Shared \in Nat /\ Cardinality(batch) <= Total(batch) + Shared
    <3> HIDE DEF batch
    <3> QED
      BY <2>1, Countable, TotalType, SharedBounds
  <2>3. AtMost(Concurrency, Cardinality(batch)) \in 0..Concurrency
    BY <2>2, BulkHealthAssumption DEF AtMost
  <2>4. /\ Schedule(begun, runs + 1, S, steps) /\ runs < MaxRuns /\ ~bulk.fetching
        /\ runs' = runs + 1 /\ company' = company
    BY <1>1 DEF StartRefresh
  <2>5. runs + 1 \in RunIds
    BY <1>0, <2>4, BulkHealthAssumption DEF RunIds
  <2>6. Cardinality(steps) <= Left(runs) /\ Left(runs) \in Nat /\ Left(runs + 1) = Left(runs) + Shared
    <3>1. bulk.inFlight = 0
      BY <2>4 DEF Inv
    <3> QED
      BY <1>0, <1>c, <2>4, <3>1, LeftType, <1>a DEF Accounts
  <2> HIDE DEF batch
  <2>7. /\ begun \in Bulks /\ begun.fetching /\ begun.inFlight = 0
        /\ begun.completed = 0 /\ begun.todo = batch /\ begun.total = Total(batch)
    BY <2>1, <2>2, <2>3, BulkHealthAssumption DEF Bulks
  <2> HIDE DEF begun
  <2>8. /\ Cardinality(steps) <= begun.inFlight + Left(runs)
        /\ begun.completed + Cardinality(steps) + Cardinality(begun.todo) <= begun.total + Left(runs + 1)
        /\ Left(runs + 1) \in Nat
    BY <1>a, <2>2, <2>6, <2>7
  <2>9. /\ bulk'.fetching /\ IsFiniteSet(steps')
        /\ Cardinality(steps') <= bulk'.inFlight + Left(runs)
        /\ bulk'.completed + Cardinality(steps') + Cardinality(bulk'.todo) <= bulk'.total + Left(runs + 1)
    BY <1>a, <2>4, <2>5, <2>6, <2>7, <2>8, ScheduleAccounts
  <2>10. Ended' = runs
    BY <1>0, <2>4, <2>9 DEF Ended
  <2> QED
    BY <1>d, <2>4, <2>9, <2>10 DEF Accounts
<1>2. ASSUME NEW s \in steps, NEW a \in Answers, Answer(s, a)
      PROVE  Going
  <2> DEFINE t == [s EXCEPT !.answer = a]
  <2>1. steps' = (steps \ {s}) \cup {t} /\ UNCHANGED <<bulk, runs, company>>
    BY <1>2 DEF Answer
  <2>2. IsFiniteSet(steps \ {s}) /\ Cardinality(steps \ {s}) = Cardinality(steps) - 1
    BY <1>a, FS_RemoveElement
  <2>3. IsFiniteSet({t}) /\ Cardinality({t}) = 1
    BY FS_Singleton
  <2> HIDE DEF t
  <2>4. /\ IsFiniteSet(steps') /\ Cardinality(steps') \in Nat
        /\ Cardinality(steps') <= Cardinality(steps)
    <3> DEFINE rest == steps \ {s}
    <3>1. /\ IsFiniteSet(rest) /\ Cardinality(rest) = Cardinality(steps) - 1 /\ steps' = rest \cup {t}
      BY <2>1, <2>2
    <3> HIDE DEF rest
    <3> QED
      BY <1>a, <2>3, <3>1, UnionBound
  <2>5. Left(Ended)' = Left(Ended) /\ Left(runs)' = Left(runs) /\ Left(Ended) \in Nat /\ Left(runs) \in Nat
    BY <1>0, <1>c, <1>d, <2>1, LeftType DEF Ended
  <2> QED
    BY <1>a, <1>b, <2>1, <2>4, <2>5 DEF Accounts
<1>3. ASSUME NEW s \in steps, NEW S \in SUBSET Jobs, HandleStep(s, S)
      PROVE  Going
  <2> DEFINE counted == Counted(bulk)
             old == steps \ {s}
  <2>1. UNCHANGED <<company, runs>>
    BY <1>3 DEF HandleStep
  <2>2. /\ IsFiniteSet(old) /\ Cardinality(old) = Cardinality(steps) - 1
        /\ Cardinality(old) \in Nat
    BY <1>a, FS_RemoveElement, FS_CardinalityType
  <2>3. /\ counted \in Bulks /\ counted.fetching = bulk.fetching
        /\ counted.inFlight = IF bulk.inFlight > 0 THEN bulk.inFlight - 1 ELSE 0
        /\ counted.completed = bulk.completed + 1
        /\ counted.todo = bulk.todo /\ counted.total = bulk.total
    BY <1>0, CountedTypes DEF Inv
  <2>4. Left(Ended) \in Nat /\ Left(runs) \in Nat
    BY <1>0, <1>c, LeftType
  <2>5. /\ Cardinality(old) <= counted.inFlight + Left(Ended)
        /\ bulk.fetching =>
              counted.completed + Cardinality(old) + Cardinality(bulk.todo) <= bulk.total + Left(runs)
    <3>1. /\ Cardinality(steps) <= bulk.inFlight + Left(Ended)
          /\ bulk.fetching =>
                bulk.completed + Cardinality(steps) + Cardinality(bulk.todo) <= bulk.total + Left(runs)
      BY DEF Accounts
    <3> HIDE DEF old, counted
    <3> QED
      BY <1>a, <1>b, <2>2, <2>3, <2>4, <3>1
  <2> HIDE DEF old, counted
  <2>6. CASE ~bulk.fetching /\ steps' = old /\ UNCHANGED bulk
    <3>1. Left(Ended)' = Left(Ended) /\ counted.inFlight <= bulk.inFlight
      BY <1>b, <1>d, <2>1, <2>3, <2>6 DEF Ended
    <3>2. Cardinality(old) <= bulk.inFlight + Left(Ended)
      BY <1>b, <2>2, <2>3, <2>4, <2>5, <3>1
    <3> QED
      BY <2>2, <2>6, <3>1, <3>2 DEF Accounts
  <2>7. CASE bulk.fetching /\ counted.completed >= bulk.total /\ bulk' = Idle /\ steps' = old
    <3>1. Cardinality(bulk.todo) + Cardinality(old) <= Left(runs)
      BY <1>a, <1>b, <2>2, <2>3, <2>4, <2>5, <2>7
    <3>2. Ended' = runs /\ ~bulk'.fetching /\ bulk'.inFlight = 0
      BY <2>1, <2>7 DEF Ended, Idle
    <3>3. Left(Ended)' = Left(runs) /\ Cardinality(old) <= 0 + Left(runs)
      BY <1>a, <1>d, <2>1, <2>2, <2>4, <3>1, <3>2
    <3> QED
      BY <2>2, <2>7, <3>1, <3>2, <3>3 DEF Accounts
  <2>8. CASE bulk.fetching /\ Schedule(counted, runs, S, old)
    <3>1. runs \in RunIds
      BY <2>8 DEF Inv
    <3>2. /\ bulk'.fetching /\ IsFiniteSet(steps')
          /\ Cardinality(steps') <= bulk'.inFlight + Left(Ended)
          /\ bulk'.completed + Cardinality(steps') + Cardinality(bulk'.todo) <= bulk'.total + Left(runs)
      BY <2>2, <2>3, <2>4, <2>5, <2>8, <3>1, ScheduleAccounts
    <3>3. Left(Ended)' = Left(Ended) /\ Left(runs)' = Left(runs)
      BY <1>d, <2>1, <2>8, <3>2 DEF Ended
    <3> QED
      BY <3>2, <3>3 DEF Accounts
  <2> QED
    BY <1>3, <2>6, <2>7, <2>8 DEF HandleStep, counted, old
<1>4. ASSUME UNCHANGED <<bulk, steps, runs, company>>
      PROVE  Going
  <2>1. Left(Ended)' = Left(Ended) /\ Left(runs)' = Left(runs)
    BY <1>4, <1>d DEF Ended
  <2> QED
    BY <1>4, <2>1 DEF Accounts
<1>5. ASSUME NEW s \in steps, UseBrowser(s)
      PROVE  Going
  BY <1>4, <1>5 DEF UseBrowser
<1>6. ASSUME NEW j \in Jobs,
             \/ \E again \in BOOLEAN : StartSingle(j, again)
             \/ \E a \in Answers : AnswerSingle(j, a)
             \/ HandleSingle(j)
      PROVE  Going
  BY <1>4, <1>6 DEF StartSingle, AnswerSingle, HandleSingle
<1>7. CASE UNCHANGED bulkVars
  BY <1>4, <1>7 DEF bulkVars
<1>8. Watched \subseteq Jobs
  BY BulkHealthAssumption
<1> QED
  BY <1>1, <1>2, <1>3, <1>5, <1>6, <1>7, <1>8 DEF Next, Progress

\* The accounts are kept in every refresh.
LEMMA AccountsInvariance == Spec => [](Inv /\ Accounts)
<1>1. ASSUME Init
      PROVE  Inv /\ Accounts
  <2>1. TypeOK
    BY <1>1, BulkHealthAssumption DEF Init, TypeOK, Idle
  <2>2. IsFiniteSet(steps) /\ Cardinality(steps) = 0
    BY <1>1, FS_EmptySet DEF Init
  <2>3. Ended = 0 /\ Left(0) \in Nat /\ bulk.inFlight = 0 /\ ~bulk.fetching
    BY <1>1, LeftType DEF Init, Ended, Idle
  <2> QED
    BY <1>1, <2>1, <2>2, <2>3 DEF Inv, Accounts, Init, Idle
<1>2. Inv /\ Accounts /\ [Next]_bulkVars => (Inv /\ Accounts)'
  BY StepTypes, AccountsStep
<1> QED
  BY <1>1, <1>2, PTL DEF Spec

\* Whatever the names of the companies and whatever order the answers come in, also
\* those of the commands an earlier refresh left: what is not looked up or not heard
\* when a refresh ends is owed to the shared names alone.
THEOREM OnlySharedAreLeftTheorem == Spec => OnlySharedAreLeft
<1>1. Inv /\ Accounts /\ [Next]_bulkVars =>
        [bulk.fetching /\ ~bulk'.fetching =>
            Cardinality(bulk.todo) + Cardinality(steps') <= Shared * runs]_bulkVars
  BY AccountsStep DEF Left
<1> QED
  BY AccountsInvariance, <1>1, PTL DEF Spec, OnlySharedAreLeft

\* The lookups that run, over all refreshes, are never more than a refresh may use and
\* what the ended ones left.
THEOREM LookupsAreBoundedTheorem == Spec => []LookupsAreBounded
<1>1. ASSUME Inv, Accounts
      PROVE  LookupsAreBounded
  <2>1. bulk.inFlight \in 0..Concurrency /\ Concurrency \in Nat
    BY <1>1, BulkHealthAssumption DEF Inv, TypeOK
  <2>2. Ended \in Nat
    BY <1>1, BulkHealthAssumption DEF Inv, TypeOK, Ended, RunIds
  <2>3. Shared * Ended \in Nat /\ Cardinality(steps) \in Nat
    BY <1>1, <2>2, LeftType, FS_CardinalityType DEF Left, Accounts
  <2>4. Cardinality(steps) <= bulk.inFlight + Shared * Ended
    BY <1>1 DEF Accounts, Left
  <2> QED
    BY <2>1, <2>3, <2>4 DEF LookupsAreBounded
<1> QED
  BY AccountsInvariance, <1>1, PTL

-----------------------------------------------------------------------------
(* The credential of the language model: uses that do not overlap leave no *)
(* trace, and a variable that is only given what it held holds it.         *)

\* A caller that is in the middle of a use.
Active(p) == p.at # "off"
\* The credential of the use is in the environment, and the use knows what was there.
Holds(p) == p.at \in {"making", "connecting", "using", "undoing"} /\ p.value # ""
\* A caller that knows what it has changed, or is about to.
Knows(p) == p.at = "putting" \/ Holds(p)

\* What a use of the model knows of its credential.
ValueInv ==
    \A u \in Callers :
        /\ use[u].at = "resolving" => use[u].value = ""
        /\ use[u].at \in {"finding", "putting"} => use[u].value # ""
        /\ Knows(use[u]) \/ use[u].at = "connecting" => Variable(u) \in Variables

\* The only use: what it has changed, and what it remembers.
AloneInv ==
    ~crossed =>
        /\ \A u, w \in Callers : Active(use[u]) /\ Active(use[w]) => u = w
        /\ (\A u \in Callers : ~Holds(use[u])) => env = found
        /\ \A u \in Callers :
             /\ Holds(use[u]) => env = [found EXCEPT ![Variable(u)] = use[u].value]
             /\ Knows(use[u]) => use[u].previous = found[Variable(u)]
             /\ use[u].at = "using" /\ use[u].value # "" => use[u].key = use[u].value

\* A variable that was given nothing new: what it holds, and what uses would put back.
GivenInv ==
    \A v \in Variables :
        given[v] \subseteq {found[v]} =>
            /\ env[v] = found[v]
            /\ \A u \in Callers : Knows(use[u]) /\ Variable(u) = v => use[u].previous = found[v]

\* The inductive invariant about the environment and its users.
AccessInv == AccessTypeOK /\ ValueInv /\ AloneInv /\ GivenInv

-----------------------------------------------------------------------------
(* What a file comes to.                                                   *)

\* A provider's variable is one, or there is none.
LEMMA KeyVariableType == \A p : KeyVariable(p) \in Variables \cup {""}
  BY DEF KeyVariable, Variables

\* Completing a credential leaves a credential.
LEMMA NormalAuthType ==
  ASSUME NEW p, NEW auth \in Auths
  PROVE  NormalAuth(p, auth) \in Auths
<1> DEFINE mode == IF auth.mode = "" THEN "env" ELSE auth.mode
           variable == IF mode = "env" /\ auth.variable = "" THEN KeyVariable(p) ELSE auth.variable
<1> DEFINE Modes == {"", "env", "literal", "command"}
<1>1. auth.mode \in Modes /\ auth.variable \in Variables \cup {""}
  BY DEF Auths
<1>2. mode \in Modes
  BY <1>1
<1>3. variable \in Variables \cup {""}
  BY <1>1, KeyVariableType
<1>4. [auth EXCEPT !.mode = mode, !.variable = variable] \in Auths
  <2> HIDE DEF mode, variable
  <2> QED BY <1>2, <1>3 DEF Auths
<1>5. [auth EXCEPT !.mode = "", !.variable = ""] \in Auths
  BY DEF Auths
<1>6. QED
  BY <1>4, <1>5 DEF NormalAuth

\* A credential that was filled in is a value.
LEMMA FilledType ==
  ASSUME NEW p, NEW auth \in Auths
  PROVE  Filled(p, auth) \in Auths
<1>1. NoAuth \in Auths
  BY DEF NoAuth, Auths
<1>2. [NoAuth EXCEPT !.none = TRUE] \in Auths
  BY <1>1 DEF Auths
<1>3. ASSUME NEW variable \in Variables \cup {""}
      PROVE  FromEnvironment(variable) \in Auths
  BY <1>1 DEF FromEnvironment, Auths
<1>4. DefaultAuth(p) \in Auths
  BY <1>2, <1>3, KeyVariableType DEF DefaultAuth
<1>5. QED
  BY <1>4 DEF Filled

\* Normalising gives every provider and the selected one a credential.
LEMMA NormalizedType ==
  ASSUME NEW D, Providers \subseteq D, NEW legacy,
         NEW file \in [provider: Providers \cup {"auto"}, first: Providers, top: Auths, own: [D -> Auths]]
  PROVE  Normalized(file, legacy) \in
           [provider: Providers \cup {"auto"}, first: Providers, top: Auths,
            own: [Providers \cup {file.provider} -> Auths]]
<1> DEFINE p == file.provider
           own == [q \in Providers \cup {p} |->
                     IF q \in Providers THEN Filled(q, file.own[q])
                     ELSE IF q \in DOMAIN file.own THEN file.own[q] ELSE NoAuth]
           chosen == IF legacy /\ LegacyApplies(p, own[p], file.top) THEN file.top ELSE own[p]
           auth == NormalAuth(p, chosen)
<1>1. NoAuth \in Auths
  BY DEF NoAuth, Auths
<1>2. own \in [Providers \cup {p} -> Auths]
  BY <1>1, FilledType
<1>3. chosen \in Auths
  BY <1>2
<1>4. auth \in Auths
  BY <1>3, NormalAuthType
<1>5. [own EXCEPT ![p] = auth] \in [Providers \cup {p} -> Auths]
  BY <1>2, <1>4
<1>6. Normalized(file, legacy) = [file EXCEPT !.own = [own EXCEPT ![p] = auth], !.top = auth]
  BY DEF Normalized
<1> HIDE DEF own, auth
<1>7. QED
  BY <1>4, <1>5, <1>6

\* A use has a provider and a credential.
LEMMA EffectiveType ==
  ASSUME NEW file \in Files
  PROVE  Effective(file).provider \in Providers /\ Effective(file).auth \in Auths
<1> DEFINE D == Providers \cup {file.provider}
           config == Normalized(Loaded(file), TRUE)
           p == IF file.provider = "auto" THEN file.first ELSE file.provider
<1>1. Loaded(file) \in [provider: Providers \cup {"auto"}, first: Providers, top: Auths, own: [D -> Auths]]
  BY NormalizedType DEF Loaded, Files
<1>2. Loaded(file).provider = file.provider
  BY DEF Loaded, Normalized, Files
<1>3. config.own \in [D -> Auths]
  <2>1. config \in [provider: Providers \cup {"auto"}, first: Providers, top: Auths,
                    own: [Providers \cup {Loaded(file).provider} -> Auths]]
    BY <1>1, NormalizedType
  <2>2. QED
    BY <2>1, <1>2
<1>4. p \in Providers
  BY DEF Files
<1>5. NormalAuth(p, config.own[p]) \in Auths
  BY <1>3, <1>4, NormalAuthType
<1>6. Effective(file) = [provider |-> p, auth |-> NormalAuth(p, config.own[p])]
  BY DEF Effective
<1> HIDE DEF p, config
<1>7. QED
  BY <1>4, <1>5, <1>6

-----------------------------------------------------------------------------
(* The invariant.                                                          *)

\* Initially nobody uses the model.
LEMMA InitInv == AccessInit => AccessInv
<1> SUFFICES ASSUME AccessInit PROVE AccessInv
  OBVIOUS
<1>1. NoUse \in Uses
  BY DEF NoUse, Uses, NoAuth, Auths, Stages, Providers, Values, Missing, Unset
<1>2. AccessTypeOK
  BY <1>1, AccessAssumption DEF AccessInit, AccessTypeOK
<1>3. \A u \in Callers : use[u] = NoUse
  BY DEF AccessInit
<1>4. QED
  BY <1>2, <1>3 DEF AccessInv, ValueInv, AloneInv, GivenInv, AccessInit, Active, Holds, Knows, NoUse

\* Every step moves one caller.
LEMMA TypeStep ==
  ASSUME AccessTypeOK, ValueInv, AccessNext
  PROVE  AccessTypeOK'
<1>0. NoUse \in Uses
  BY DEF NoUse, Uses, NoAuth, Auths, Stages, Providers, Values, Missing, Unset
<1>1. ASSUME NEW u \in Callers, NEW file \in access.files, Begin(u, file)
      PROVE  AccessTypeOK'
  <2>1. Effective(file).provider \in Providers /\ Effective(file).auth \in Auths
    BY <1>1, AccessAssumption, EffectiveType DEF AccessTypeOK
  <2>2. [NoUse EXCEPT !.at = "resolving", !.provider = Effective(file).provider,
                      !.auth = Effective(file).auth] \in Uses
    BY <2>1, <1>0 DEF Uses, Stages
  <2>3. found' \in Environments /\ given' \in [Variables -> SUBSET Values] /\ crossed' \in BOOLEAN
    BY <1>1 DEF Begin, AccessTypeOK
  <2>4. uses' \in Nat /\ access' \in Accesses /\ env' \in Environments
    BY <1>1 DEF Begin, AccessTypeOK
  <2>5. use' \in [Callers -> Uses]
    BY <1>1, <2>2 DEF Begin, Moves, AccessTypeOK
  <2>6. QED
    BY <2>3, <2>4, <2>5 DEF AccessTypeOK
<1>2. ASSUME NEW u \in Callers, Resolve(u)
      PROVE  AccessTypeOK'
  <2>1. Credential(use[u].auth) \in Values
    <3>1. use[u].auth \in Auths
      BY DEF AccessTypeOK, Uses
    <3>2. QED
      BY <3>1 DEF Credential, Auths, AccessTypeOK, Environments, Values, Missing
  <2>2. /\ [use[u] EXCEPT !.at = "making"] \in Uses
        /\ [use[u] EXCEPT !.at = "finding", !.value = Credential(use[u].auth)] \in Uses
    BY <2>1 DEF AccessTypeOK, Uses, Stages
  <2>3. QED
    BY <1>0, <1>2, <2>2 DEF Resolve, Moves, Kept, AccessTypeOK
<1>3. ASSUME NEW u \in Callers, Find(u)
      PROVE  AccessTypeOK'
  <2>1. CASE Variable(u) = ""
    BY <1>0, <1>3, <2>1 DEF Find, Moves, Kept, AccessTypeOK
  <2>2. CASE Variable(u) # ""
    <3>1. env[Variable(u)] \in Values
      BY <2>2, KeyVariableType DEF Variable, AccessTypeOK, Environments
    <3>2. [use[u] EXCEPT !.at = "putting", !.previous = env[Variable(u)]] \in Uses
      BY <3>1 DEF AccessTypeOK, Uses, Stages
    <3>3. QED
      BY <1>3, <2>2, <3>2 DEF Find, Moves, Kept, AccessTypeOK
  <2>3. QED
    BY <2>1, <2>2
<1>4. ASSUME NEW u \in Callers, Put(u)
      PROVE  AccessTypeOK'
  <2>1. use[u].value \in Values
    BY DEF AccessTypeOK, Uses
  <2>2. [use[u] EXCEPT !.at = "making"] \in Uses
    BY DEF AccessTypeOK, Uses, Stages
  <2>3. QED
    BY <1>4, <2>1, <2>2 DEF Put, Moves, Kept, AccessTypeOK, Environments
<1>5. ASSUME NEW u \in Callers, Make(u) \/ Connect(u) \/ Search(u)
      PROVE  AccessTypeOK'
  <2>1. Variable(u) # "" => env[Variable(u)] \in Values
    BY KeyVariableType DEF Variable, AccessTypeOK, Environments
  <2>2. /\ [use[u] EXCEPT !.at = "undoing"] \in Uses
        /\ [use[u] EXCEPT !.at = "using"] \in Uses
    BY DEF AccessTypeOK, Uses, Stages
  <2>3. ASSUME NEW at \in Stages, Variable(u) # ""
        PROVE  [use[u] EXCEPT !.at = at, !.key = env[Variable(u)]] \in Uses
    BY <2>1, <2>3 DEF AccessTypeOK, Uses
  <2>4. CASE Make(u)
    BY <2>2, <2>3, <2>4 DEF Make, Moves, Kept, AccessTypeOK, Stages
  <2>5. CASE Connect(u)
    <3>1. Variable(u) # ""
      BY <2>5 DEF Connect, ValueInv, Variables
    <3>2. QED
      BY <2>2, <2>3, <2>5, <3>1 DEF Connect, Moves, Kept, AccessTypeOK, Stages
  <2>6. CASE Search(u)
    BY <2>2, <2>3, <2>6 DEF Search, Moves, Kept, AccessTypeOK, Stages
  <2>7. QED
    BY <1>5, <2>4, <2>5, <2>6
<1>6. ASSUME NEW u \in Callers, HandBack(u)
      PROVE  AccessTypeOK'
  <2>1. use[u].previous \in Values
    BY DEF AccessTypeOK, Uses
  <2>2. QED
    BY <1>0, <1>6, <2>1 DEF HandBack, Returned, Moves, Kept, AccessTypeOK, Environments
<1>7. QED
  BY <1>1, <1>2, <1>3, <1>4, <1>5, <1>6 DEF AccessNext

\* A step changes its caller's use and leaves the others.
LEMMA Moved ==
  ASSUME AccessTypeOK, NEW u \in Callers, NEW new, Moves(u, new)
  PROVE  use'[u] = new /\ \A w \in Callers \ {u} : use'[w] = use[w]
  BY DEF Moves, AccessTypeOK

\* Beginning beside others gives up what is said of a use that is alone.
LEMMA BeginStep ==
  ASSUME AccessInv, NEW u \in Callers, NEW file \in access.files, Begin(u, file)
  PROVE  ValueInv' /\ AloneInv' /\ GivenInv'
<1> DEFINE new == [NoUse EXCEPT !.at = "resolving", !.provider = Effective(file).provider,
                                !.auth = Effective(file).auth]
<1>1. use'[u] = new /\ \A w \in Callers \ {u} : use'[w] = use[w]
  BY Moved DEF Begin, AccessInv
<1>2. use'[u].at = "resolving" /\ use'[u].value = ""
  BY <1>1 DEF NoUse
<1>3. env' = env
  BY DEF Begin
<1> HIDE DEF new
<1>4. ValueInv'
  BY <1>1, <1>2 DEF AccessInv, ValueInv, Knows, Holds, Variable
<1>5. CASE Unused
  <2>1. found' = env /\ crossed' = FALSE /\ \A v \in Variables : given'[v] = {}
    BY <1>5 DEF Begin
  <2>2. \A w \in Callers \ {u} : use'[w].at = "off"
    BY <1>1, <1>5 DEF Unused
  <2>3. \A w \in Callers : ~Knows(use'[w])
    BY <1>2, <2>2 DEF Knows, Holds
  <2>4. AloneInv'
    BY <1>2, <1>3, <2>1, <2>2, <2>3 DEF AloneInv, Active, Knows, Holds
  <2>5. GivenInv'
    BY <1>3, <2>1, <2>3 DEF GivenInv
  <2>6. QED
    BY <1>4, <2>4, <2>5
<1>6. CASE ~Unused
  <2>1. crossed' = TRUE /\ found' = found /\ given' = given
    BY <1>6 DEF Begin
  <2>2. AloneInv'
    BY <2>1 DEF AloneInv
  <2>3. GivenInv'
    <3>1. ASSUME NEW w \in Callers, Knows(use'[w])
          PROVE  Variable(w)' = Variable(w) /\ Knows(use[w]) /\ use'[w] = use[w]
      BY <1>1, <1>2, <3>1 DEF Knows, Holds, Variable
    <3>2. QED
      BY <1>3, <2>1, <3>1 DEF AccessInv, GivenInv
  <2>4. QED
    BY <1>4, <2>2, <2>3
<1>7. QED
  BY <1>5, <1>6

\* A step that leaves the environment alone, and its use with the same provider and value.
LEMMA QuietStep ==
  ASSUME AccessInv, NEW u \in Callers, NEW new, Moves(u, new), Kept, env' = env, given' = given,
         new.at = "off" \/ (new.provider = use[u].provider /\ use[u].at # "off"),
         Knows(new) \/ new.at = "connecting" => Variable(u) \in Variables,
         new.at # "resolving",
         new.at \in {"finding", "putting"} => new.value # "",
         Holds(new) <=> Holds(use[u]),
         Holds(new) => new.value = use[u].value,
         Knows(new) => \/ Knows(use[u]) /\ new.previous = use[u].previous
                       \/ new.previous = env[Variable(u)] /\ ~Holds(use[u]),
         new.at = "using" /\ new.value # "" => new.key = env[Variable(u)] \/ new = use[u]
  PROVE  ValueInv' /\ AloneInv' /\ GivenInv'
<1>1. use'[u] = new /\ \A w \in Callers \ {u} : use'[w] = use[w]
  BY Moved DEF AccessInv
<1>2. found' = found /\ crossed' = crossed
  BY DEF Kept
<1>3. \A w \in Callers : use'[w].at # "off" => Variable(w)' = Variable(w) /\ use[w].at # "off"
  BY <1>1 DEF Variable
<1>4. ValueInv'
  BY <1>1 DEF AccessInv, ValueInv, Knows, Holds, Variable
<1>5. AloneInv'
  <2> SUFFICES ASSUME ~crossed
               PROVE  /\ \A w, x \in Callers : Active(use'[w]) /\ Active(use'[x]) => w = x
                      /\ (\A w \in Callers : ~Holds(use'[w])) => env = found
                      /\ \A w \in Callers :
                           /\ Holds(use'[w]) =>
                                env = [found EXCEPT ![Variable(w)'] = use'[w].value]
                           /\ Knows(use'[w]) => use'[w].previous = found[Variable(w)']
                           /\ use'[w].at = "using" /\ use'[w].value # "" =>
                                use'[w].key = use'[w].value
    BY <1>2 DEF AloneInv
  <2>1. \A w, x \in Callers : Active(use'[w]) /\ Active(use'[x]) => w = x
    BY <1>3 DEF AccessInv, AloneInv, Active
  <2>2. (\A w \in Callers : ~Holds(use'[w])) => env = found
    BY <1>1 DEF AccessInv, AloneInv
  <2>3. ASSUME NEW w \in Callers, Holds(use'[w])
        PROVE  Holds(use[w]) /\ Variable(w)' = Variable(w) /\ use'[w].value = use[w].value
    BY <1>1, <1>3, <2>3 DEF Holds
  <2>4. ASSUME NEW w \in Callers, Holds(use'[w])
        PROVE  env = [found EXCEPT ![Variable(w)'] = use'[w].value]
    BY <2>3, <2>4 DEF AccessInv, AloneInv
  <2>5. ASSUME NEW w \in Callers, Knows(use'[w])
        PROVE  use'[w].previous = found[Variable(w)']
    <3>1. Variable(w)' = Variable(w)
      BY <1>3, <2>5 DEF Knows, Holds
    <3>2. CASE w # u \/ (Knows(use[u]) /\ new.previous = use[u].previous)
      BY <1>1, <2>5, <3>1, <3>2 DEF AccessInv, AloneInv
    <3>3. CASE w = u /\ new.previous = env[Variable(u)] /\ ~Holds(use[u])
      <4>1. \A x \in Callers : ~Holds(use'[x])
        BY <1>1, <2>1, <2>5, <3>3 DEF Active, Knows, Holds
      <4>2. env = found
        BY <2>2, <4>1
      <4>3. QED
        BY <1>1, <3>1, <3>3, <4>2
    <3>4. QED
      BY <1>1, <2>5, <3>2, <3>3
  <2>6. ASSUME NEW w \in Callers, use'[w].at = "using", use'[w].value # ""
        PROVE  use'[w].key = use'[w].value
    <3>1. Holds(use'[w])
      BY <2>6 DEF Holds
    <3>2. CASE use'[w] = use[w]
      BY <2>6, <3>2 DEF AccessInv, AloneInv
    <3>3. CASE w = u /\ new.key = env[Variable(u)]
      <4>1. env = [found EXCEPT ![Variable(u)] = new.value]
        BY <1>1, <2>3, <2>4, <3>1, <3>3
      <4>2. Variable(u) \in Variables
        BY <1>1, <3>1, <3>3 DEF Knows
      <4>3. env[Variable(u)] = new.value
        BY <4>1, <4>2 DEF AccessInv, AccessTypeOK, Environments
      <4>4. QED
        BY <1>1, <3>3, <4>3
    <3>4. QED
      BY <1>1, <2>6, <3>2, <3>3
  <2>7. QED
    BY <2>1, <2>2, <2>4, <2>5, <2>6
<1>6. GivenInv'
  <2> SUFFICES ASSUME NEW v \in Variables, given[v] \subseteq {found[v]}
               PROVE  /\ env[v] = found[v]
                      /\ \A w \in Callers : Knows(use'[w]) /\ Variable(w)' = v =>
                            use'[w].previous = found[v]
    BY <1>2 DEF GivenInv
  <2>1. env[v] = found[v]
    BY DEF AccessInv, GivenInv
  <2>2. ASSUME NEW w \in Callers, Knows(use'[w]), Variable(w)' = v
        PROVE  use'[w].previous = found[v]
    <3>1. Variable(w) = v
      BY <1>3, <2>2 DEF Knows, Holds
    <3>2. QED
      BY <1>1, <2>1, <2>2, <3>1 DEF AccessInv, GivenInv
  <2>3. QED
    BY <2>1, <2>2
<1>7. QED
  BY <1>4, <1>5, <1>6

\* The steps that look and remember.
LEMMA LookingStep ==
  ASSUME AccessInv, NEW u \in Callers,
         Resolve(u) \/ Find(u) \/ Make(u) \/ Connect(u) \/ Search(u)
  PROVE  ValueInv' /\ AloneInv' /\ GivenInv'
<1> DEFINE p == use[u]
<1>0. p \in Uses
  BY DEF AccessInv, AccessTypeOK
<1>1. /\ p.at = "resolving" => p.value = ""
      /\ p.at \in {"finding", "putting"} => p.value # ""
      /\ p.at = "connecting" \/ Knows(p) => Variable(u) \in Variables
  BY DEF AccessInv, ValueInv
<1>2. NoUse.at = "off" /\ ~Holds(NoUse) /\ ~Knows(NoUse)
  BY DEF NoUse, Holds, Knows
<1>3. Kept /\ env' = env /\ given' = given
  BY DEF Resolve, Find, Make, Connect, Search
<1>4. CASE Resolve(u)
  <2> DEFINE made == [p EXCEPT !.at = "making"]
             resolved == [p EXCEPT !.at = "finding", !.value = Credential(p.auth)]
  <2>1. p.at = "resolving" /\ p.value = ""
    BY <1>1, <1>4 DEF Resolve
  <2>2. made.at = "making" /\ made.value = "" /\ made.provider = p.provider
    BY <1>0, <2>1 DEF Uses
  <2>3. resolved.at = "finding" /\ resolved.value = Credential(p.auth) /\ resolved.provider = p.provider
    BY <1>0, <2>1 DEF Uses
  <2>4. \/ Moves(u, made) \/ Moves(u, NoUse)
        \/ Moves(u, resolved) /\ Credential(p.auth) # ""
    BY <1>4 DEF Resolve
  <2> HIDE DEF made, resolved
  <2>5. CASE Moves(u, made)
    BY <1>3, <2>1, <2>2, <2>5, QuietStep DEF Holds, Knows
  <2>6. CASE Moves(u, NoUse)
    BY <1>2, <1>3, <2>1, <2>6, QuietStep DEF Holds
  <2>7. CASE Moves(u, resolved) /\ Credential(p.auth) # ""
    BY <1>3, <2>1, <2>3, <2>7, QuietStep DEF Holds, Knows
  <2>8. QED
    BY <2>4, <2>5, <2>6, <2>7
<1>5. CASE Find(u)
  <2> DEFINE knowing == [p EXCEPT !.at = "putting", !.previous = env[Variable(u)]]
  <2>1. p.at = "finding" /\ p.value # ""
    BY <1>1, <1>5 DEF Find
  <2>2. /\ knowing.at = "putting" /\ knowing.value = p.value /\ knowing.provider = p.provider
        /\ knowing.previous = env[Variable(u)]
    BY <1>0 DEF Uses
  <2>3. Moves(u, NoUse) \/ (Moves(u, knowing) /\ Variable(u) \in Variables)
    BY <1>5, KeyVariableType DEF Find, Variable
  <2> HIDE DEF knowing
  <2>4. CASE Moves(u, NoUse)
    BY <1>2, <1>3, <2>1, <2>4, QuietStep DEF Holds
  <2>5. CASE Moves(u, knowing) /\ Variable(u) \in Variables
    BY <1>3, <2>1, <2>2, <2>5, QuietStep DEF Holds, Knows
  <2>6. QED
    BY <2>3, <2>4, <2>5
<1>6. CASE Make(u) \/ Connect(u) \/ Search(u)
  <2> DEFINE failed == [p EXCEPT !.at = "undoing"]
             keyless == [p EXCEPT !.at = "using"]
             keyed(at) == [p EXCEPT !.at = at, !.key = env[Variable(u)]]
  <2>1. p.at \in {"making", "connecting"}
    BY <1>6 DEF Make, Connect, Search
  <2>2. /\ failed.at = "undoing" /\ failed.value = p.value /\ failed.provider = p.provider
        /\ failed.previous = p.previous
    BY <1>0 DEF Uses
  <2>3. /\ keyless.at = "using" /\ keyless.value = p.value /\ keyless.provider = p.provider
    BY <1>0 DEF Uses
  <2>4. ASSUME NEW at
        PROVE  /\ keyed(at).at = at /\ keyed(at).value = p.value
               /\ keyed(at).provider = p.provider /\ keyed(at).previous = p.previous
               /\ keyed(at).key = env[Variable(u)]
    BY <1>0 DEF Uses
  <2>5. \/ Moves(u, failed)
        \/ Moves(u, keyless) /\ Variable(u) = ""
        \/ Moves(u, keyed("using"))
        \/ Moves(u, keyed("connecting")) /\ Variable(u) # ""
    BY <1>6 DEF Make, Connect, Search
  <2>6. Holds(p) <=> p.value # ""
    BY <2>1 DEF Holds
  <2> HIDE DEF failed, keyless, keyed
  <2>7. CASE Moves(u, failed)
    BY <1>1, <1>3, <2>1, <2>2, <2>6, <2>7, QuietStep DEF Holds, Knows
  <2>8. CASE Moves(u, keyless) /\ Variable(u) = ""
    <3>1. p.value = ""
      BY <1>1, <2>6, <2>8 DEF Knows, Variables
    <3>2. QED
      BY <1>1, <1>3, <2>1, <2>3, <2>6, <2>8, <3>1, QuietStep DEF Holds, Knows
  <2>9. CASE Moves(u, keyed("using"))
    <3> DEFINE new == keyed("using")
    <3>1. /\ new.at = "using" /\ new.value = p.value /\ new.provider = p.provider
          /\ new.previous = p.previous /\ new.key = env[Variable(u)]
      BY <2>4
    <3> HIDE DEF new
    <3>2. (Holds(new) <=> Holds(p)) /\ (Knows(new) <=> Holds(new))
      BY <2>6, <3>1 DEF Holds, Knows
    <3>3. Knows(new) => Knows(p) /\ Variable(u) \in Variables
      BY <1>1, <3>2 DEF Knows
    <3>4. Moves(u, new)
      BY <2>9 DEF new
    <3>5. p.at # "off" /\ new.at \notin {"connecting", "resolving", "finding", "putting"}
      BY <2>1, <3>1
    <3>6. QED
      BY <1>3, <3>1, <3>2, <3>3, <3>4, <3>5, QuietStep
  <2>10. CASE Moves(u, keyed("connecting")) /\ Variable(u) # ""
    <3>1. Variable(u) \in Variables
      BY <2>10, KeyVariableType DEF Variable
    <3>2. QED
      BY <1>1, <1>3, <2>1, <2>4, <2>6, <2>10, <3>1, QuietStep DEF Holds, Knows
  <2>11. QED
    BY <2>5, <2>7, <2>8, <2>9, <2>10
<1>7. QED
  BY <1>4, <1>5, <1>6

\* Putting the credential there.
LEMMA PutStep ==
  ASSUME AccessInv, NEW u \in Callers, Put(u)
  PROVE  ValueInv' /\ AloneInv' /\ GivenInv'
<1> DEFINE p == use[u]
           new == [p EXCEPT !.at = "making"]
           v == Variable(u)
<1>0. p \in Uses /\ env \in Environments /\ found \in Environments /\ given \in [Variables -> SUBSET Values]
  BY DEF AccessInv, AccessTypeOK
<1>1. p.at = "putting" /\ p.value # "" /\ v \in Variables
  BY DEF AccessInv, ValueInv, Put, Knows
<1>2. /\ new.at = "making" /\ new.value = p.value /\ new.provider = p.provider
      /\ new.previous = p.previous
  BY <1>0 DEF Uses
<1>3. use'[u] = new /\ \A w \in Callers \ {u} : use'[w] = use[w]
  BY Moved DEF Put, AccessInv
<1>4. env' = [env EXCEPT ![v] = p.value] /\ given' = [given EXCEPT ![v] = @ \cup {p.value}]
  BY DEF Put
<1>5. found' = found /\ crossed' = crossed
  BY DEF Put, Kept
<1> HIDE DEF new
<1>6. \A w \in Callers : Variable(w)' = Variable(w)
  BY <1>2, <1>3 DEF Variable
<1>7. Holds(use'[u]) /\ Knows(p) /\ Knows(use'[u]) /\ ~Holds(p)
  BY <1>1, <1>2, <1>3 DEF Holds, Knows
<1>8. ValueInv'
  BY <1>1, <1>2, <1>3, <1>6 DEF AccessInv, ValueInv, Knows, Holds
<1>9. AloneInv'
  <2> SUFFICES ASSUME ~crossed
               PROVE  /\ \A w, x \in Callers : Active(use'[w]) /\ Active(use'[x]) => w = x
                      /\ \A w \in Callers :
                           /\ Holds(use'[w]) => env' = [found EXCEPT ![Variable(w)] = use'[w].value]
                           /\ Knows(use'[w]) => use'[w].previous = found[Variable(w)]
                           /\ use'[w].at = "using" /\ use'[w].value # "" =>
                                use'[w].key = use'[w].value
    BY <1>5, <1>6, <1>7 DEF AloneInv
  <2>1. \A w \in Callers \ {u} : ~Active(use'[w]) /\ ~Active(use[w])
    BY <1>1, <1>3 DEF AccessInv, AloneInv, Active
  <2>2. \A w \in Callers : ~Holds(use[w])
    BY <1>7, <2>1 DEF Active, Holds
  <2>3. env = found
    BY <2>2 DEF AccessInv, AloneInv
  <2>4. p.previous = found[v]
    BY <1>7 DEF AccessInv, AloneInv
  <2>5. \A w \in Callers \ {u} : ~Holds(use'[w]) /\ ~Knows(use'[w]) /\ use'[w].at # "using"
    BY <2>1 DEF Active, Holds, Knows
  <2>6. use'[u].at # "using" /\ use'[u].value = p.value /\ use'[u].previous = found[v]
    BY <1>2, <1>3, <2>4
  <2>7. env' = [found EXCEPT ![v] = use'[u].value]
    BY <1>4, <2>3, <2>6
  <2>8. \A w, x \in Callers : Active(use'[w]) /\ Active(use'[x]) => w = x
    BY <2>1
  <2> HIDE DEF v
  <2>9. Variable(u) = v
    BY DEF v
  <2>10. QED
    BY <2>5, <2>6, <2>7, <2>8, <2>9
<1>10. GivenInv'
  <2> SUFFICES ASSUME NEW x \in Variables, given'[x] \subseteq {found[x]}
               PROVE  /\ env'[x] = found[x]
                      /\ \A w \in Callers : Knows(use'[w]) /\ Variable(w) = x =>
                            use'[w].previous = found[x]
    BY <1>5, <1>6 DEF GivenInv
  <2>1. given[x] \subseteq {found[x]}
    BY <1>0, <1>4
  <2>2. x = v => p.value = found[x]
    BY <1>0, <1>1, <1>4
  <2>3. env'[x] = found[x]
    <3>1. env[x] = found[x]
      BY <2>1 DEF AccessInv, GivenInv
    <3>2. QED
      BY <1>0, <1>4, <2>2, <3>1 DEF Environments
  <2>4. ASSUME NEW w \in Callers, Knows(use'[w]), Variable(w) = x
        PROVE  use'[w].previous = found[x]
    <3>1. Knows(use[w]) /\ use'[w].previous = use[w].previous
      BY <1>2, <1>3, <1>7, <2>4
    <3>2. QED
      BY <2>1, <2>4, <3>1 DEF AccessInv, GivenInv
  <2>5. QED
    BY <2>3, <2>4
<1>11. QED
  BY <1>8, <1>9, <1>10

\* Putting back what was found.
LEMMA HandBackStep ==
  ASSUME AccessInv, NEW u \in Callers, HandBack(u)
  PROVE  ValueInv' /\ AloneInv' /\ GivenInv'
<1> DEFINE p == use[u]
           v == Variable(u)
<1>0. p \in Uses /\ env \in Environments /\ found \in Environments
  BY DEF AccessInv, AccessTypeOK
<1>1. p.at \in {"using", "undoing"} /\ Moves(u, NoUse) /\ Kept /\ given' = given
  BY DEF HandBack
<1>2. NoUse.at = "off" /\ ~Holds(NoUse) /\ ~Knows(NoUse)
  BY DEF NoUse, Holds, Knows
<1>3. CASE p.value = ""
  <2>1. env' = env /\ ~Holds(p)
    BY <1>3 DEF HandBack, Returned, Holds
  <2>2. QED
    BY <1>1, <1>2, <2>1, QuietStep
<1>4. CASE p.value # ""
  <2>1. env' = [env EXCEPT ![v] = p.previous]
    BY <1>4 DEF HandBack, Returned, Variable
  <2>2. Holds(p) /\ Knows(p) /\ v \in Variables
    BY <1>1, <1>4 DEF Holds, Knows, AccessInv, ValueInv
  <2>3. use'[u] = NoUse /\ \A w \in Callers \ {u} : use'[w] = use[w]
    BY <1>1, Moved DEF AccessInv
  <2>4. found' = found /\ crossed' = crossed
    BY <1>1 DEF Kept
  <2>5. \A w \in Callers : use'[w].at # "off" => w # u /\ Variable(w)' = Variable(w) /\ use'[w] = use[w]
    BY <1>2, <2>3 DEF Variable
  <2>6. ValueInv'
    BY <1>2, <2>3, <2>5 DEF AccessInv, ValueInv, Knows, Holds
  <2>7. AloneInv'
    <3> SUFFICES ASSUME ~crossed
                 PROVE  env' = found /\ \A w \in Callers : ~Active(use'[w])
      BY <2>4 DEF AloneInv, Active, Knows, Holds
    <3>1. \A w \in Callers \ {u} : ~Active(use[w])
      BY <2>2 DEF AccessInv, AloneInv, Active, Holds
    <3>2. env = [found EXCEPT ![v] = p.value] /\ p.previous = found[v]
      BY <2>2 DEF AccessInv, AloneInv
    <3>3. env' = found
      BY <1>0, <2>1, <2>2, <3>2 DEF Environments
    <3>4. QED
      BY <1>2, <2>3, <3>1, <3>3 DEF Active
  <2>8. GivenInv'
    <3> SUFFICES ASSUME NEW x \in Variables, given[x] \subseteq {found[x]}
                 PROVE  /\ env'[x] = found[x]
                        /\ \A w \in Callers : Knows(use'[w]) /\ Variable(w)' = x =>
                              use'[w].previous = found[x]
      BY <1>1, <2>4 DEF GivenInv
    <3>1. env[x] = found[x] /\ (x = v => p.previous = found[x])
      BY <2>2 DEF AccessInv, GivenInv
    <3>2. env'[x] = found[x]
      BY <1>0, <2>1, <3>1 DEF Environments
    <3>3. ASSUME NEW w \in Callers, Knows(use'[w]), Variable(w)' = x
          PROVE  use'[w].previous = found[x]
      <4>1. Variable(w) = x /\ use'[w] = use[w]
        BY <2>5, <3>3 DEF Knows, Holds
      <4>2. QED
        BY <3>3, <4>1 DEF AccessInv, GivenInv
    <3>4. QED
      BY <3>2, <3>3
  <2>9. QED
    BY <2>6, <2>7, <2>8
<1>5. QED
  BY <1>3, <1>4

\* Every step keeps the invariant.
LEMMA NextInv == AccessInv /\ [AccessNext]_accessVars => AccessInv'
<1> SUFFICES ASSUME AccessInv, [AccessNext]_accessVars PROVE AccessInv'
  OBVIOUS
<1>1. CASE AccessNext
  <2>1. AccessTypeOK'
    BY <1>1, TypeStep DEF AccessInv
  <2>2. ASSUME NEW u \in Callers,
               \/ \E file \in access.files : Begin(u, file)
               \/ Resolve(u) \/ Find(u) \/ Put(u) \/ Make(u) \/ Connect(u) \/ Search(u) \/ HandBack(u)
        PROVE  ValueInv' /\ AloneInv' /\ GivenInv'
    BY <2>2, BeginStep, LookingStep, PutStep, HandBackStep
  <2>3. QED
    BY <1>1, <2>1, <2>2 DEF AccessNext, AccessInv
<1>2. CASE UNCHANGED accessVars
  BY <1>2 DEF accessVars, AccessInv, AccessTypeOK, ValueInv, AloneInv, GivenInv, Variable
<1>3. QED
  BY <1>1, <1>2

-----------------------------------------------------------------------------
(* The theorems.                                                           *)

\* The invariant holds of every use of the model (initLLM, applyResolvedLLMAuth,
\* cleanupConfiguredLLM), in whatever order the callers take their steps.
THEOREM AccessInvariance == AccessSpec => []AccessInv
<1>1. AccessInit => AccessInv
  BY InitInv
<1>2. AccessInv /\ [AccessNext]_accessVars => AccessInv'
  BY NextInv
<1>3. QED
  BY <1>1, <1>2, PTL DEF AccessSpec

\* Uses that do not overlap leave the environment as they found it and work with the
\* credential of their own, and a variable that was only given what it held keeps it.
THEOREM CredentialsAreOnesOwnTheorem == AccessSpec => []CredentialsAreOnesOwn
<1>1. AccessInv => CredentialsAreOnesOwn
  <2> SUFFICES ASSUME AccessInv PROVE CredentialsAreOnesOwn
    OBVIOUS
  <2>1. ASSUME Unused, ~crossed PROVE env = found
    BY <2>1 DEF AccessInv, AloneInv, Unused, Holds
  <2>2. ASSUME NEW u \in Callers, ~crossed, use[u].at = "using", use[u].value # ""
        PROVE  use[u].key = use[u].value
    BY <2>2 DEF AccessInv, AloneInv
  <2>3. ASSUME NEW v \in Variables, given[v] \subseteq {found[v]}
        PROVE  env[v] = found[v]
    BY <2>3 DEF AccessInv, GivenInv
  <2>4. QED
    BY <2>1, <2>2, <2>3 DEF CredentialsAreOnesOwn
<1>2. QED
  BY <1>1, AccessInvariance, PTL

-----------------------------------------------------------------------------
(* The lookups: facts.                                                     *)

\* How sure a source is of a fact.
Confidences == {"none", "low", "medium", "high"}

\* A fact that is the best of what was observed, and a value has the confidence of
\* some source.
SoundFact(f) ==
    /\ f \in [value : {f.value}, confidence : Confidences,
              status : {"gap", "confirmed", "estimated", "conflict"}, seen : SUBSET Confidences,
              onSite : SUBSET Confidences]
    /\ f.value = None <=> f.seen = {}
    /\ f.value # None => f.confidence # "none"
    /\ \A c \in f.seen : Rank[c] <= Rank[f.confidence]
    /\ f.status = "confirmed" => f.confidence = "high"

\* A fact that nobody observed is sound.
LEMMA NoFactSound == SoundFact(NoFact)
BY DEF SoundFact, NoFact, Confidences

\* An observation keeps a fact sound, whether it contradicts it or not.
LEMMA ObservedSound ==
    ASSUME NEW f, SoundFact(f), NEW value, value # None, NEW c \in Confidences \ {"none"},
           NEW conflict \in BOOLEAN
    PROVE  /\ SoundFact(Observed(f, value, c, conflict))
           /\ Observed(f, value, c, conflict).value # None
<1> DEFINE g == [f EXCEPT !.seen = @ \cup {c}]
           new == Observed(f, value, c, conflict)
<1>1. g \in [value : {f.value}, confidence : Confidences,
             status : {"gap", "confirmed", "estimated", "conflict"}, seen : SUBSET Confidences,
             onSite : SUBSET Confidences]
      /\ g.value = f.value /\ g.confidence = f.confidence /\ g.status = f.status
      /\ g.seen = f.seen \cup {c} /\ g.onSite = f.onSite
  BY DEF SoundFact
<1>2. /\ Rank["none"] = 0 /\ Rank["low"] = 1 /\ Rank["medium"] = 2 /\ Rank["high"] = 3
      /\ \A x \in Confidences : Rank[x] \in 0..3
  BY DEF Rank, Confidences
<1> HIDE DEF g
<1>3. CASE f.value = None \/ Replaces(f, conflict, c)
  <2>1. new = [g EXCEPT !.value = value, !.confidence = c,
                        !.status = IF Rank[c] >= Rank["high"] THEN "confirmed" ELSE "estimated"]
    BY <1>3 DEF Observed, AcceptFact, g
  <2>2. \A x \in f.seen : Rank[x] <= Rank[c]
    <3>1. CASE f.value = None
      BY <3>1 DEF SoundFact
    <3>2. CASE Replaces(f, conflict, c)
      BY <3>2, <1>2 DEF SoundFact, Replaces
    <3> QED BY <1>3, <3>1, <3>2
  <2>3. Rank[c] >= Rank["high"] => c = "high"
    BY <1>2 DEF Confidences
  <2> HIDE DEF new
  <2>4. /\ new \in [value : {new.value}, confidence : Confidences,
                    status : {"gap", "confirmed", "estimated", "conflict"}, seen : SUBSET Confidences,
                    onSite : SUBSET Confidences]
        /\ new.value = value /\ new.confidence = c /\ new.seen = f.seen \cup {c}
        /\ new.status = "confirmed" => Rank[c] >= Rank["high"]
    BY <2>1, <1>1
  <2>5. \A x \in new.seen : Rank[x] <= Rank[c]
    BY <2>2, <2>4, <1>2
  <2> QED BY <2>3, <2>4, <2>5 DEF SoundFact, new
<1>4. CASE ~(f.value = None \/ Replaces(f, conflict, c))
  <2>1. new = IF conflict THEN [g EXCEPT !.status = "conflict"] ELSE g
    BY <1>4 DEF Observed, g
  <2>2. Rank[c] <= Rank[f.confidence]
    BY <1>4, <1>2 DEF SoundFact, Replaces, Confidences
  <2> HIDE DEF new
  <2>3. /\ new \in [value : {new.value}, confidence : Confidences,
                    status : {"gap", "confirmed", "estimated", "conflict"}, seen : SUBSET Confidences,
                    onSite : SUBSET Confidences]
        /\ new.value = f.value /\ new.confidence = f.confidence /\ new.seen = f.seen \cup {c}
        /\ new.status = "confirmed" => f.status = "confirmed"
    BY <2>1, <1>1
  <2> QED BY <2>2, <2>3, <1>4 DEF SoundFact, new
<1> QED BY <1>3, <1>4

-----------------------------------------------------------------------------
(* The lookups: reports.                                                   *)

\* The fields of a report.
Fields == {"year", "staff", "score", "confidence", "public", "ticker", "flags", "sources",
           "terms", "news", "layoffs", "reviews", "stories", "risk", "website", "assessed",
           "moved", "age"}
\* A record of these fields.
IsReport(r) == r = [f \in Fields |-> r[f]]
\* A sequence of anything.
IsList(s) == \E S : s \in Seq(S)

\* The numbers of a report are numbers, and the model has moved the score by ten at
\* most, if it was asked.
SoundNumbers(r) ==
    /\ r.score \in Int /\ r.risk \in Int /\ r.terms \in Nat /\ r.age \in Nat
    /\ IsList(r.reviews)
    /\ r.moved \in -10..10 /\ r.assessed \in BOOLEAN
    /\ ~r.assessed => r.moved = 0

\* A report but for the gaps that the company's site may have to fill; and with the
\* first of them filled, if it can.
SoundParts(r) ==
    /\ IsReport(r)
    /\ SoundFact(r.year) /\ SoundFact(r.staff)
    /\ SoundNumbers(r)
SoundYear(r) == SoundParts(r) /\ (r.year.value = None => r.year.onSite = {})

\* A report at any time of its lookup.
SoundReport(r) ==
    /\ IsReport(r)
    /\ SoundFact(r.year) /\ SoundFact(r.staff)
    /\ r.year.value = None => r.year.onSite = {}
    /\ r.staff.value = None => r.staff.onSite = {}
    /\ SoundNumbers(r)

\* What the reports of two moments have in common if neither facts nor numbers changed.
Alike(r, s) ==
    /\ IsReport(s)
    /\ s.year = r.year /\ s.staff = r.staff /\ s.score = r.score /\ s.risk = r.risk
    /\ s.terms = r.terms /\ s.age = r.age /\ s.reviews = r.reviews /\ s.moved = r.moved
    /\ s.assessed = r.assessed

\* A report is sound if it agrees with a sound one in facts and numbers.
LEMMA AlikeSound == ASSUME NEW r, NEW s, SoundReport(r), Alike(r, s) PROVE SoundReport(s)
BY DEF SoundReport, Alike, SoundNumbers

\* Its parts may be sound, and a gap of its staff be left to fill.
LEMMA SoundIsParts ==
    ASSUME NEW r
    PROVE  SoundReport(r) <=> SoundYear(r) /\ (r.staff.value = None => r.staff.onSite = {})
BY DEF SoundReport, SoundYear, SoundParts

\* A year that was observed.
LEMMA YearFills ==
    ASSUME NEW r, SoundParts(r), NEW year, year # None, NEW c \in Confidences \ {"none"}
    PROVE  SoundYear(ObserveYear(r, year, c)) /\ ObserveYear(r, year, c).staff = r.staff
<1> DEFINE conflict == r.year.value # None /\ YearsConflict(r.year.value, year)
           fact == Observed(r.year, year, c, conflict)
<1>1. conflict \in BOOLEAN
  BY DEF YearsConflict
<1> HIDE DEF conflict
<1>2. SoundFact(fact) /\ fact.value # None
  BY <1>1, ObservedSound DEF SoundParts
<1> HIDE DEF fact
<1>3. ObserveYear(r, year, c) = [r EXCEPT !.year = fact]
  BY DEF ObserveYear, fact, conflict
<1> QED BY <1>2, <1>3 DEF SoundYear, SoundParts, IsReport, Fields, SoundNumbers

\* It may be known already, or not be told.
LEMMA YearSound ==
    ASSUME NEW r, SoundReport(r), NEW year, NEW c \in Confidences \ {"none"}
    PROVE  SoundReport(ObserveYear(r, year, c))
<1>1. CASE year = None
  BY <1>1 DEF ObserveYear
<1>2. CASE year # None
  BY <1>2, YearFills, SoundIsParts DEF SoundYear
<1> QED BY <1>1, <1>2

\* A number of employees that was observed.
LEMMA StaffFills ==
    ASSUME NEW r, SoundYear(r), NEW count, Plausible(count), NEW c \in Confidences \ {"none"}
    PROVE  SoundReport(ObserveStaff(r, count, c))
<1> DEFINE conflict == r.staff.value # None /\ CountsConflict(r.staff.value, count)
           fact == Observed(r.staff, count, c, conflict)
<1>1. conflict \in BOOLEAN
  BY DEF CountsConflict
<1> HIDE DEF conflict
<1>2. SoundFact(fact) /\ fact.value # None
  BY <1>1, ObservedSound DEF SoundYear, SoundParts, Plausible
<1> HIDE DEF fact
<1>3. ObserveStaff(r, count, c) = [r EXCEPT !.staff = fact]
  BY DEF ObserveStaff, fact, conflict
<1> QED BY <1>2, <1>3 DEF SoundYear, SoundParts, SoundReport, IsReport, Fields, SoundNumbers

\* It may be known already, or not be told.
LEMMA StaffSound ==
    ASSUME NEW r, SoundReport(r), NEW count, NEW c \in Confidences \ {"none"}
    PROVE  SoundReport(ObserveStaff(r, count, c))
<1>1. CASE ~Plausible(count)
  BY <1>1 DEF ObserveStaff
<1>2. CASE Plausible(count)
  BY <1>2, StaffFills, SoundIsParts
<1> QED BY <1>1, <1>2

\* The report a lookup begins with.
LEMMA NewSound == ASSUME NEW id PROVE SoundReport(NewReport(id))
<1> DEFINE empty == [year |-> NoFact, staff |-> NoFact, score |-> 50, confidence |-> "low",
                  public |-> None, ticker |-> id.ticker, flags |-> {}, sources |-> {},
                  terms |-> 0, news |-> 0, layoffs |-> {}, reviews |-> <<>>, stories |-> <<>>,
                  risk |-> 0, website |-> id.website, assessed |-> FALSE, moved |-> 0, age |-> 0]
<1>1. SoundReport(empty)
  <2>1. IsReport(empty)
    BY DEF IsReport, Fields
  <2>2. SoundNumbers(empty)
    BY DEF SoundNumbers, IsList
  <2> QED BY <2>1, <2>2, NoFactSound DEF SoundReport, NoFact
<1> HIDE DEF empty
<1>2. "medium" \in Confidences \ {"none"}
  BY DEF Confidences
<1>3. SoundReport(ObserveYear(empty, id.year, "medium"))
  BY <1>1, <1>2, YearSound
<1>4. SoundReport(ObserveStaff(ObserveYear(empty, id.year, "medium"), id.staff, "medium"))
  BY <1>3, <1>2, StaffSound
<1> QED BY <1>4 DEF NewReport, empty

\* Points for the score.
LEMMA ScoredSound ==
    ASSUME NEW r, SoundReport(r), NEW points \in Int PROVE SoundReport(Scored(r, points))
BY DEF SoundReport, Scored, IsReport, Fields, SoundNumbers

\* More confidence in a report.
LEMMA MediumSound == ASSUME NEW r, SoundReport(r) PROVE SoundReport(AtLeastMedium(r))
<1>1. Alike(r, AtLeastMedium(r))
  BY DEF SoundReport, AtLeastMedium, IsReport, Fields, Alike
<1> QED BY <1>1, AlikeSound

\* Also in one that lacks its staff.
LEMMA MediumYear ==
    ASSUME NEW r, SoundYear(r)
    PROVE  SoundYear(AtLeastMedium(r)) /\ AtLeastMedium(r).staff = r.staff
BY DEF SoundYear, SoundParts, AtLeastMedium, IsReport, Fields, SoundNumbers

\* A list is a function on its places.
LEMMA Listing ==
    ASSUME NEW s, IsList(s)
    PROVE  \E S : /\ s \in Seq(S) /\ Len(s) \in Nat /\ DOMAIN s = 1..Len(s)
                  /\ \A i \in 1..Len(s) : s[i] \in S
BY DEF IsList

\* Numbers added to a number.
LEMMA AddedType ==
    ASSUME NEW points, IsList(points), \A i \in DOMAIN points : points[i] \in Int, NEW base \in Int
    PROVE  Added(base, points) \in Int
<1> DEFINE N == Len(points)
           V == Int
           start == base
           step == [i \in 1..N |-> [v \in V |-> v + points[i]]]
           raw(g) == g = [s \in SUBSET (1..N) |->
                             IF s = {} THEN base ELSE g[s \ {Max(s)}] + points[Max(s)]]
           iter == CHOOSE g : raw(g)
<1>0. N \in Nat /\ DOMAIN points = 1..N /\ start \in V
  BY Listing
<1>1. step \in [1..N -> [V -> V]]
  BY <1>0
<1>2. Added(base, points) = iter[1..N]
  BY <1>0 DEF Added, FoldLeft, MapThenFoldSet
<1>3. \A s \in SUBSET (1..N) : s # {} => Max(s) \in 1..N /\ s \ {Max(s)} \in SUBSET (1..N)
  BY <1>0, GreatestNumber
<1>4. PICK g : Folds(g, N, V, start, step)
  <2> HIDE DEF step, N, V
  <2> QED BY <1>0, <1>1, FoldExists
<1>5. raw(g)
  <2>1. \A s \in SUBSET (1..N) :
           g[s] = IF s = {} THEN base ELSE g[s \ {Max(s)}] + points[Max(s)]
    BY <1>3, <1>4 DEF Folds
  <2> HIDE DEF N
  <2> QED BY <1>4, <2>1 DEF Folds
<1>6. raw(iter)
  <2> HIDE DEF raw
  <2> QED BY <1>5
<1>7. FoldSteps(iter, N, V, start, step)
  <2> HIDE DEF iter
  <2> QED BY <1>3, <1>6 DEF FoldSteps
<1>8. PICK h : Chain(h, N, V, start, step) /\ h[N] = iter[1..N]
  <2> HIDE DEF step, N, V, iter, start
  <2> QED BY <1>0, <1>1, <1>7, FoldChain
<1> HIDE DEF V
<1> QED BY <1>0, <1>2, <1>8 DEF Chain, V

\* The reviews of a site are added to the list.
LEMMA ReviewsList ==
    ASSUME NEW reviews, IsList(reviews), NEW profiles, IsList(profiles)
    PROVE  IsList(FoldLeft(LAMBDA s, p : IF p.review = None THEN s ELSE WithReview(s, p.review),
                           reviews, profiles))
<1> DEFINE N == Len(profiles)
           all == FoldLeft(LAMBDA s, p : IF p.review = None THEN s ELSE WithReview(s, p.review),
                           reviews, profiles)
<1>0. N \in Nat /\ DOMAIN profiles = 1..N
  BY Listing
<1>a. PICK S : reviews \in Seq(S)
  BY DEF IsList
<1> DEFINE V == Seq(S \cup {profiles[i].review : i \in 1..N})
           step == [i \in 1..N |-> [v \in V |-> IF profiles[i].review = None THEN v
                                                ELSE WithReview(v, profiles[i].review)]]
           raw(g) == g = [s \in SUBSET (1..N) |->
                             IF s = {} THEN reviews
                             ELSE IF profiles[Max(s)].review = None THEN g[s \ {Max(s)}]
                             ELSE WithReview(g[s \ {Max(s)}], profiles[Max(s)].review)]
           iter == CHOOSE g : raw(g)
<1>b. reviews \in V
  BY <1>a
<1>1. step \in [1..N -> [V -> V]]
  BY DEF WithReview
<1>2. all = iter[1..N]
  BY <1>0 DEF FoldLeft, MapThenFoldSet
<1>3. \A s \in SUBSET (1..N) : s # {} => Max(s) \in 1..N /\ s \ {Max(s)} \in SUBSET (1..N)
  BY <1>0, GreatestNumber
<1>4. PICK g : Folds(g, N, V, reviews, step)
  <2> HIDE DEF step, N, V
  <2> QED BY <1>0, <1>b, <1>1, FoldExists
<1>5. raw(g)
  <2>1. ASSUME NEW s \in SUBSET (1..N)
        PROVE  g[s] = IF s = {} THEN reviews
                      ELSE IF profiles[Max(s)].review = None THEN g[s \ {Max(s)}]
                      ELSE WithReview(g[s \ {Max(s)}], profiles[Max(s)].review)
    <3> HIDE DEF V
    <3> QED BY <1>3, <1>4 DEF Folds
  <2> HIDE DEF N
  <2> QED BY <1>4, <2>1 DEF Folds
<1>6. raw(iter)
  <2> HIDE DEF raw
  <2> QED BY <1>5
<1>7. FoldSteps(iter, N, V, reviews, step)
  <2> HIDE DEF iter, V
  <2> QED BY <1>3, <1>6 DEF FoldSteps
<1>8. PICK h : Chain(h, N, V, reviews, step) /\ h[N] = iter[1..N]
  <2> HIDE DEF step, N, V, iter
  <2> QED BY <1>0, <1>b, <1>1, <1>7, FoldChain
<1>9. all \in V
  <2> HIDE DEF V, all
  <2> QED BY <1>0, <1>2, <1>8 DEF Chain
<1> QED BY <1>9 DEF IsList

-----------------------------------------------------------------------------
(* The lookups: what each source does to a report.                         *)

\* What the sources say of their facts.
LEMMA SourceConfidences == \A c \in {"low", "medium", "high"} : c \in Confidences \ {"none"}
BY DEF Confidences

\* Every source leaves a report sound, whatever it answers: Wikipedia;
LEMMA WikipediaSound ==
    ASSUME NEW r, SoundReport(r), NEW page PROVE SoundReport(WithWikipedia(r, page))
<1> DEFINE text == ObserveStaff(ObserveYear(Scored(r, AgePoints(page.year)), page.year, "medium"),
                                page.staff, "medium")
           medium == [text EXCEPT !.confidence = "medium", !.sources = @ \cup {"wikipedia"}]
           dated == ObserveYear(medium, BestClaim(page.facts.years), "medium")
           told == ObserveStaff(dated, BestClaim(page.facts.staff), "medium")
           claimed == [told EXCEPT !.ticker = @ \/ BestClaim(page.facts.tickers) # None,
                                   !.sources = @ \cup {"wikidata"}]
<1>1. SoundReport(text)
  <2>1. AgePoints(page.year) \in Int
    BY DEF AgePoints
  <2> HIDE DEF text
  <2> QED BY <2>1, ScoredSound, YearSound, StaffSound, SourceConfidences DEF text
<1>2. SoundReport(medium)
  <2> HIDE DEF text
  <2>1. Alike(text, medium)
    BY <1>1 DEF SoundReport, IsReport, Fields, Alike
  <2> QED BY <1>1, <2>1, AlikeSound
<1>3. SoundReport(told)
  <2> HIDE DEF medium
  <2> QED BY <1>2, YearSound, StaffSound, SourceConfidences
<1>4. SoundReport(claimed)
  <2> HIDE DEF told
  <2>1. Alike(told, claimed)
    BY <1>3 DEF SoundReport, IsReport, Fields, Alike
  <2> QED BY <1>3, <2>1, AlikeSound
<1>5. WithWikipedia(r, page) = IF page.facts = None THEN medium ELSE claimed
  BY DEF WithWikipedia
<1> HIDE DEF medium, claimed
<1> QED BY <1>2, <1>4, <1>5

\* the age of the domain;
LEMMA DomainAgeSound ==
    ASSUME NEW r, SoundReport(r), NEW year PROVE SoundReport(WithDomainAge(r, year))
<1>1. \A p \in {0, 5} : SoundReport(Scored(r, p))
  BY ScoredSound
<1>2. \A p \in {0, 5} : SoundReport(ObserveYear(Scored(r, p), year, "low"))
  BY <1>1, YearSound, SourceConfidences
<1> QED BY <1>2 DEF WithDomainAge

\* the filings;
LEMMA SECSound ==
    ASSUME NEW r, SoundReport(r), NEW sec,
           \/ sec.answer \in {"unavailable", "unknown", "listed"}
           \/ sec.answer = "filed" /\ sec.terms \in Nat /\ sec.filings \in DOMAIN FilingPoints
    PROVE  SoundReport(WithSEC(r, sec))
<1>1. CASE sec.answer = "unavailable"
  BY <1>1 DEF WithSEC
<1>2. CASE sec.answer = "unknown"
  <2>1. Alike(r, WithSEC(r, sec))
    BY <1>2 DEF WithSEC, SoundReport, IsReport, Fields, Alike
  <2> QED BY <2>1, AlikeSound
<1>3. CASE sec.answer = "listed"
  <2>1. Alike(r, WithSEC(r, sec))
    BY <1>3 DEF WithSEC, SoundReport, IsReport, Fields, Alike
  <2> QED BY <2>1, AlikeSound
<1>4. CASE sec.answer = "filed" /\ sec.terms \in Nat /\ sec.filings \in DOMAIN FilingPoints
  <2> DEFINE s == ObserveStaff(r, sec.staff, "high")
             points == FilingPoints[sec.filings] + (IF sec.exchange THEN 3 ELSE 0)
                       - LeastOf(12, 4 * sec.terms)
             new == WithSEC(r, sec)
  <2>1. SoundReport(s)
    BY StaffSound, SourceConfidences
  <2>2. FilingPoints[sec.filings] \in Int /\ LeastOf(12, 4 * sec.terms) \in Int
    BY <1>4 DEF FilingPoints, LeastOf
  <2>4. new = [s EXCEPT !.public = "yes", !.ticker = TRUE, !.confidence = "high",
                        !.sources = @ \cup {"sec"}, !.terms = sec.terms,
                        !.flags = @ \cup (IF sec.terms > 0 THEN {"sec_risk"} ELSE {}),
                        !.score = @ + FilingPoints[sec.filings] + (IF sec.exchange THEN 3 ELSE 0)
                                    - LeastOf(12, 4 * sec.terms)]
    BY <1>4 DEF WithSEC
  <2>5. s.score \in Int /\ IsReport(s)
    BY <2>1 DEF SoundReport, SoundNumbers
  <2> HIDE DEF s, new
  <2>6. /\ IsReport(new) /\ new.score \in Int /\ new.terms = sec.terms
        /\ new.year = s.year /\ new.staff = s.staff /\ new.risk = s.risk /\ new.age = s.age
        /\ new.reviews = s.reviews /\ new.moved = s.moved /\ new.assessed = s.assessed
    <3>1. IsReport(new)
      BY <2>4, <2>5 DEF IsReport, Fields
    <3>2. new.score \in Int
      <4>1. new.score = s.score + FilingPoints[sec.filings] + (IF sec.exchange THEN 3 ELSE 0)
                                    - LeastOf(12, 4 * sec.terms)
        BY <2>4, <2>5 DEF IsReport, Fields
      <4> QED BY <4>1, <2>2, <2>5
    <3>3. /\ new.terms = sec.terms
          /\ new.year = s.year /\ new.staff = s.staff /\ new.risk = s.risk /\ new.age = s.age
          /\ new.reviews = s.reviews /\ new.moved = s.moved /\ new.assessed = s.assessed
      BY <2>4, <2>5 DEF IsReport, Fields
    <3> QED BY <3>1, <3>2, <3>3
  <2> QED BY <1>4, <2>1, <2>6 DEF SoundReport, SoundNumbers, new
<1> QED BY <1>1, <1>2, <1>3, <1>4

\* The first place of some in a list is one of them.
LEMMA FirstProfile ==
    ASSUME NEW profiles, IsList(profiles), NEW S \in SUBSET DOMAIN profiles, S # {}
    PROVE  First(S) \in S
<1>1. S \in SUBSET Nat
  BY DEF IsList
<1>2. PICK m \in S : \A n \in S : m <= n
  BY <1>1, LeastNumber
<1> QED BY <1>2 DEF First

\* profiles the site links to;
LEMMA FirstProfilesSound ==
    ASSUME NEW r, NEW profiles, IsList(profiles)
    PROVE  /\ SoundParts(r) /\ TellYear(profiles) # {} =>
                SoundYear(FirstYear(r, profiles)) /\ FirstYear(r, profiles).staff = r.staff
           /\ SoundYear(r) /\ TellStaff(profiles) # {} => SoundReport(FirstStaff(r, profiles))
<1>1. ASSUME SoundParts(r), TellYear(profiles) # {}
      PROVE  SoundYear(FirstYear(r, profiles)) /\ FirstYear(r, profiles).staff = r.staff
  <2> DEFINE i == First(TellYear(profiles))
  <2>1. i \in TellYear(profiles)
    <3>1. TellYear(profiles) \in SUBSET DOMAIN profiles
      BY DEF TellYear
    <3> QED BY <1>1, <3>1, FirstProfile
  <2> HIDE DEF i
  <2>2. profiles[i].year # None
    BY <2>1 DEF TellYear
  <2> QED BY <1>1, <2>2, YearFills, SourceConfidences DEF FirstYear, i
<1>2. ASSUME SoundYear(r), TellStaff(profiles) # {}
      PROVE  SoundReport(FirstStaff(r, profiles))
  <2> DEFINE i == First(TellStaff(profiles))
  <2>1. i \in TellStaff(profiles)
    <3>1. TellStaff(profiles) \in SUBSET DOMAIN profiles
      BY DEF TellStaff
    <3> QED BY <1>2, <3>1, FirstProfile
  <2> HIDE DEF i
  <2>2. Plausible(profiles[i].staff)
    BY <2>1 DEF TellStaff
  <2> QED BY <1>2, <2>2, StaffFills, SourceConfidences DEF FirstStaff, i
<1> QED BY <1>1, <1>2

\* the site;
LEMMA SiteSound ==
    ASSUME NEW r, SoundReport(r), NEW site, IsList(site.profiles)
    PROVE  SoundReport(WithSite(r, site))
<1> DEFINE reviews == FoldLeft(LAMBDA s, p : IF p.review = None THEN s ELSE WithReview(s, p.review),
                               r.reviews, site.profiles)
           sources == r.sources \cup {"company_site"}
                      \cup (IF site.profiles = <<>> THEN {} ELSE {"public_profiles"})
           reviewed == [r EXCEPT !.year.onSite = SiteYears(site), !.staff.onSite = SiteStaff(site),
                                 !.reviews = reviews, !.sources = sources]
           dated ==
               IF reviewed.year.value # None THEN reviewed
               ELSE IF site.year # None THEN AtLeastMedium(ObserveYear(reviewed, site.year, "medium"))
               ELSE IF site.registered # None
                    THEN AtLeastMedium(ObserveYear(reviewed, site.registered, "low"))
               ELSE FirstYear(reviewed, site.profiles)
<1>1. WithSite(r, site) = IF site = NoSite THEN r
                          ELSE IF dated.staff.value # None THEN dated
                          ELSE IF site.staff # None
                               THEN AtLeastMedium(ObserveStaff(dated, site.staff, "medium"))
                          ELSE FirstStaff(dated, site.profiles)
  BY DEF WithSite
<1>2. /\ SoundParts(reviewed)
      /\ reviewed.year.onSite = SiteYears(site) /\ reviewed.staff.onSite = SiteStaff(site)
  <2>1. IsList(reviews)
    BY ReviewsList DEF SoundReport, SoundNumbers
  <2>2. SiteYears(site) \subseteq Confidences /\ SiteStaff(site) \subseteq Confidences
    BY DEF SiteYears, SiteStaff, Confidences
  <2> DEFINE year == [r.year EXCEPT !.onSite = SiteYears(site)]
             staff == [r.staff EXCEPT !.onSite = SiteStaff(site)]
  <2>3. /\ SoundFact(year) /\ SoundFact(staff)
        /\ year.onSite = SiteYears(site) /\ staff.onSite = SiteStaff(site)
    BY <2>2 DEF SoundReport, SoundFact
  <2>4. reviewed = [r EXCEPT !.year = year, !.staff = staff, !.reviews = reviews, !.sources = sources]
    BY DEF SoundReport, IsReport, Fields
  <2> HIDE DEF reviews, sources, reviewed, year, staff
  <2> QED BY <2>1, <2>3, <2>4 DEF SoundReport, SoundParts, IsReport, Fields, SoundNumbers
<1>3. SoundYear(dated) /\ dated.staff = reviewed.staff
  <2> HIDE DEF reviewed
  <2>1. CASE reviewed.year.value # None
    BY <1>2, <2>1 DEF SoundYear
  <2>2. CASE reviewed.year.value = None /\ site.year # None
    BY <1>2, <2>2, YearFills, MediumYear, SourceConfidences
  <2>3. CASE reviewed.year.value = None /\ site.year = None /\ site.registered # None
    BY <1>2, <2>3, YearFills, MediumYear, SourceConfidences
  <2>4. CASE reviewed.year.value = None /\ site.year = None /\ site.registered = None
    <3>1. CASE TellYear(site.profiles) # {}
      BY <1>2, <2>4, <3>1, FirstProfilesSound
    <3>2. CASE TellYear(site.profiles) = {}
      BY <1>2, <2>4, <3>2 DEF FirstYear, SiteYears, SoundYear
    <3> QED BY <3>1, <3>2
  <2> QED BY <2>1, <2>2, <2>3, <2>4
<1>4. dated.staff.onSite = SiteStaff(site)
  BY <1>2, <1>3
<1> HIDE DEF dated, reviewed
<1>5. CASE dated.staff.value # None
  BY <1>1, <1>3, <1>5, SoundIsParts
<1>6. CASE dated.staff.value = None /\ site.staff # None
  <2>1. SoundReport(ObserveStaff(dated, site.staff, "medium"))
    <3>1. CASE Plausible(site.staff)
      BY <1>3, <3>1, StaffFills, SourceConfidences
    <3>2. CASE ~Plausible(site.staff)
      BY <1>3, <1>4, <1>6, <3>2, SoundIsParts DEF ObserveStaff, SiteStaff
    <3> QED BY <3>1, <3>2
  <2> QED BY <1>1, <1>6, <2>1, MediumSound
<1>7. CASE dated.staff.value = None /\ site.staff = None
  <2>1. SoundReport(FirstStaff(dated, site.profiles))
    <3>1. CASE TellStaff(site.profiles) # {}
      BY <1>3, <3>1, FirstProfilesSound
    <3>2. CASE TellStaff(site.profiles) = {}
      BY <1>3, <1>4, <1>7, <3>2, SoundIsParts DEF FirstStaff, SiteStaff, Plausible
    <3> QED BY <3>1, <3>2
  <2> QED BY <1>1, <1>7, <2>1
<1> QED BY <1>5, <1>6, <1>7

\* the bonus of a private company;
LEMMA BonusSound == ASSUME NEW r, SoundReport(r) PROVE SoundReport(WithPrivateBonus(r))
BY ScoredSound DEF WithPrivateBonus

\* discussions;
LEMMA HackerNewsSound ==
    ASSUME NEW r, SoundReport(r), NEW id, NEW items PROVE SoundReport(WithHackerNews(r, id, items))
<1> DEFINE own == Relevant(items, id)
           points == CASE BadTalk(own) >= 2 -> -8
                       [] BadTalk(own) = 0 /\ GoodTalk(own) >= 2 -> 5
                       [] OTHER -> 0
           s == Scored(r, points)
           bad == SelectSeq(own, LAMBDA i : i.bad)
           new == [s EXCEPT
                     !.flags = @ \cup (IF BadTalk(own) >= 2 THEN {"hn_negative"} ELSE {}),
                     !.sources = @ \cup {"hn"},
                     !.stories = AddStories(@, bad)]
<1>1. WithHackerNews(r, id, items) = IF own = <<>> THEN r ELSE new
  BY DEF WithHackerNews
<1>2. points \in Int
  OBVIOUS
<1>3. SoundReport(s)
  <2> HIDE DEF points
  <2> QED BY <1>2, ScoredSound
<1>4. SoundReport(new)
  <2> HIDE DEF own, s, bad
  <2>1. Alike(s, new)
    BY <1>3 DEF SoundReport, IsReport, Fields, Alike
  <2> HIDE DEF new
  <2> QED BY <1>3, <2>1, AlikeSound
<1> HIDE DEF new
<1> QED BY <1>1, <1>4

\* news;
LEMMA NewsSound ==
    ASSUME NEW r, SoundReport(r), NEW id, NEW news PROVE SoundReport(WithNews(r, id, news))
<1> DEFINE own == Relevant(news, id)
           neg == Hits({i.bad : i \in ToSet(own)})
           pos == Hits({i.good : i \in ToSet(own)})
           points == NewsPoints(neg, pos, Len(own))
           s == Scored(r, points)
           bad == SelectSeq(own, LAMBDA i : i.bad # {})
           new == [s EXCEPT
                     !.news = neg - pos,
                     !.sources = @ \cup {"news"},
                     !.flags = @ \cup (IF neg >= 3 /\ neg > pos THEN {"negative_news"} ELSE {}),
                     !.stories = AddStories(@, bad)]
<1>1. WithNews(r, id, news) = IF own = <<>> THEN new ELSE AtLeastMedium(new)
  BY DEF WithNews
<1>2. points \in Int
  BY DEF NewsPoints
<1>3. SoundReport(s)
  <2> HIDE DEF points
  <2> QED BY <1>2, ScoredSound
<1>4. SoundReport(new)
  <2> HIDE DEF own, s, bad, neg, pos
  <2>1. Alike(s, new)
    BY <1>3 DEF SoundReport, IsReport, Fields, Alike
  <2> HIDE DEF new
  <2> QED BY <1>3, <2>1, AlikeSound
<1> HIDE DEF new
<1> QED BY <1>1, <1>4, MediumSound

\* layoffs.
LEMMA LayoffsSound ==
    ASSUME NEW r, SoundReport(r), NEW id, NEW headlines, NEW listed
    PROVE  SoundReport(WithLayoffs(r, id, headlines, listed))
<1> DEFINE own == Relevant(listed, id)
           all == MergeLayoffs(Relevant(headlines, id), own)
           new == [r EXCEPT !.layoffs = ToSet(all),
                            !.flags = @ \cup {"layoff"},
                            !.sources = @ \cup (IF own # <<>> THEN {"layoffs_fyi"} ELSE {}),
                            !.stories = AddStories(@, all)]
<1>1. WithLayoffs(r, id, headlines, listed) = IF all = <<>> THEN r ELSE new
  BY DEF WithLayoffs
<1>2. SoundReport(new)
  <2> HIDE DEF own, all
  <2>1. Alike(r, new)
    BY DEF SoundReport, IsReport, Fields, Alike
  <2> HIDE DEF new
  <2> QED BY <2>1, AlikeSound
<1> HIDE DEF new
<1> QED BY <1>1, <1>2

-----------------------------------------------------------------------------
(* The lookups: the score and the risk that caps it.                       *)

\* A report that is complete: its score is in the range of its risk.
Weighed(r) == SoundReport(r) /\ r.score \in 0..RiskCap(r.risk)

\* A clamped score is in the range of its risk.
LEMMA ClampInRange ==
    ASSUME NEW score \in Int, NEW risk \in Int
    PROVE  Clamp(score, risk) \in 0..RiskCap(risk) /\ RiskCap(risk) \in Int
BY DEF Clamp, RiskCap, LargestOf, LeastOf

\* The risk of a report is a number.
LEMMA EmploymentRiskType ==
    ASSUME NEW r, SoundReport(r), NEW stock,
           stock # None => stock.drop \in Int /\ stock.change \in Int
    PROVE  EmploymentRisk(r, stock) \in Int
<1>1. LayoffRisk(r.layoffs, r.staff.value) \in Int
  <2>1. \A count : Scale(count, r.staff.value) \in Int
    BY DEF Scale
  <2>2. \A days : Recency(days) \in Int
    BY DEF Recency
  <2>3. \A scale, recency \in Int : LeastOf(75, (25 * scale * recency) \div 100) \in Int
    <3> TAKE scale, recency \in Int
    <3>1. 25 * scale * recency \in Int
      OBVIOUS
    <3>2. (25 * scale * recency) \div 100 \in Int
      BY <3>1
    <3> QED BY <3>2 DEF LeastOf
  <2> DEFINE counts == {l.count : l \in r.layoffs} \ {0}
             dates == {l.days : l \in r.layoffs} \ {None}
             scale == IF counts = {} THEN 10 ELSE Scale(Max(counts), r.staff.value)
             recency == Recency(IF dates = {} THEN None ELSE Min(dates))
  <2>4. scale \in Int /\ recency \in Int
    <3> HIDE DEF counts, dates
    <3> QED BY <2>1, <2>2
  <2>5. LayoffRisk(r.layoffs, r.staff.value) =
           IF r.layoffs = {} THEN 0 ELSE LeastOf(75, (25 * scale * recency) \div 100)
    BY DEF LayoffRisk
  <2> HIDE DEF scale, recency
  <2> QED BY <2>3, <2>4, <2>5
<1>2. StockRisk(stock) \in Int
  BY DEF StockRisk, LeastOf, LargestOf
<1>3. LeastOf(20, 5 * r.terms) \in Int
  BY DEF LeastOf, SoundReport, SoundNumbers
<1> QED BY <1>1, <1>2, <1>3 DEF EmploymentRisk, LeastOf

\* Reviews of the employer move score and risk by numbers.
LEMMA ReviewedSound == ASSUME NEW r, SoundReport(r) PROVE SoundReport(WithReviews(r))
<1> DEFINE points == [i \in DOMAIN r.reviews |-> ReviewPoints(r.reviews[i])]
           risks == [i \in DOMAIN r.reviews |-> ReviewRisk(r.reviews[i])]
           new == WithReviews(r)
<1>1. \A v : ReviewPoints(v) \in Int /\ ReviewRisk(v) \in Int
  BY DEF ReviewPoints, ReviewRisk
<1>2. IsList(points) /\ IsList(risks)
  <2>1. Len(r.reviews) \in Nat /\ DOMAIN r.reviews = 1..Len(r.reviews)
    BY Listing DEF SoundReport, SoundNumbers
  <2>2. points \in Seq(Int) /\ risks \in Seq(Int)
    BY <1>1, <2>1
  <2> QED BY <2>2 DEF IsList
<1>3. Added(r.score, points) \in Int /\ Added(r.risk, risks) \in Int
  <2>1. \A i \in DOMAIN points : points[i] \in Int
    BY <1>1
  <2>2. \A i \in DOMAIN risks : risks[i] \in Int
    BY <1>1
  <2> HIDE DEF points, risks
  <2> QED BY <1>2, <2>1, <2>2, AddedType DEF SoundReport, SoundNumbers
<1>4. new = [r EXCEPT !.score = Added(@, points), !.risk = LeastOf(100, Added(@, risks)),
                      !.flags = @ \cup (IF LowReviews(r.reviews) THEN {"low_reviews"} ELSE {})]
  BY DEF WithReviews
<1>5. LeastOf(100, Added(r.risk, risks)) \in Int
  BY <1>3 DEF LeastOf
<1> HIDE DEF points, risks, new
<1>6. /\ IsReport(new) /\ new.score \in Int /\ new.risk \in Int /\ new.terms = r.terms
      /\ new.year = r.year /\ new.staff = r.staff /\ new.age = r.age
      /\ new.reviews = r.reviews /\ new.moved = r.moved /\ new.assessed = r.assessed
  BY <1>3, <1>4, <1>5 DEF SoundReport, IsReport, Fields
<1> QED BY <1>6 DEF SoundReport, SoundNumbers, new

\* The score is capped once the risk is known.
LEMMA CappedWeighed == ASSUME NEW r, SoundReport(r) PROVE Weighed(Capped(r))
<1> DEFINE new == Capped(r)
           score == Clamp(r.score - RiskPenalty(r.risk), r.risk)
<1>1. RiskPenalty(r.risk) \in Int /\ r.score \in Int /\ r.risk \in Int
  BY DEF RiskPenalty, SoundReport, SoundNumbers
<1>2. score \in 0..RiskCap(r.risk) /\ RiskCap(r.risk) \in Int
  <2> DEFINE x == r.score - RiskPenalty(r.risk)
  <2>1. x \in Int
    BY <1>1
  <2> HIDE DEF x
  <2>2. Clamp(x, r.risk) \in 0..RiskCap(r.risk) /\ RiskCap(r.risk) \in Int
    BY <1>1, <2>1, ClampInRange
  <2> QED BY <2>2 DEF x
<1> HIDE DEF score
<1>3. new = [r EXCEPT !.score = score]
  BY DEF Capped, score
<1> HIDE DEF new
<1>4. /\ IsReport(new) /\ new.score = score /\ new.risk = r.risk /\ new.terms = r.terms
      /\ new.year = r.year /\ new.staff = r.staff /\ new.age = r.age
      /\ new.reviews = r.reviews /\ new.moved = r.moved /\ new.assessed = r.assessed
  BY <1>3 DEF SoundReport, IsReport, Fields
<1> QED BY <1>2, <1>4 DEF SoundReport, SoundNumbers, Weighed, new

\* The model moves the score of a report by ten at most, and not out of its range.
LEMMA ModifiedWeighed ==
    ASSUME NEW r, Weighed(r), ~r.assessed, NEW articles, NEW answer, answer.modifier \in Int
    PROVE  Weighed([Modified(r, articles, answer) EXCEPT !.assessed = TRUE])
<1> DEFINE delta == LargestOf(-10, LeastOf(10, answer.modifier))
           score == Clamp(r.score + delta, r.risk)
           moved == r.moved + score - r.score
           m == Modified(r, articles, answer)
           new == [m EXCEPT !.assessed = TRUE]
<1>1. delta \in -10..10
  BY DEF LargestOf, LeastOf
<1>2. r.score \in 0..RiskCap(r.risk) /\ r.risk \in Int /\ r.moved = 0
  BY DEF Weighed, SoundReport, SoundNumbers
<1>3. score \in 0..RiskCap(r.risk) /\ RiskCap(r.risk) \in Int
  <2> HIDE DEF delta
  <2> DEFINE x == r.score + delta
  <2>0. RiskCap(r.risk) \in Int
    BY <1>2 DEF RiskCap
  <2>1. x \in Int
    BY <1>1, <1>2, <2>0
  <2> HIDE DEF x
  <2>2. Clamp(x, r.risk) \in 0..RiskCap(r.risk)
    BY <1>2, <2>1, ClampInRange
  <2> QED BY <2>0, <2>2 DEF x
<1>4. moved \in -10..10
  <2> HIDE DEF delta
  <2> QED BY <1>1, <1>2 DEF Clamp, RiskCap, LargestOf, LeastOf
<1>5. m = [r EXCEPT !.score = score, !.moved = moved] \/ m = r
  BY DEF Modified
<1> HIDE DEF m, score, moved
<1>6. /\ IsReport(m) /\ m.risk = r.risk /\ m.terms = r.terms
      /\ m.year = r.year /\ m.staff = r.staff /\ m.age = r.age /\ m.reviews = r.reviews
      /\ m.score \in 0..RiskCap(r.risk) /\ m.moved \in -10..10
  <2>1. CASE m = r
    BY <2>1, <1>2 DEF Weighed, SoundReport
  <2>2. CASE m = [r EXCEPT !.score = score, !.moved = moved]
    <3>1. /\ IsReport(m) /\ m.risk = r.risk /\ m.terms = r.terms
          /\ m.year = r.year /\ m.staff = r.staff /\ m.age = r.age /\ m.reviews = r.reviews
          /\ m.score = score /\ m.moved = moved
      BY <2>2 DEF Weighed, SoundReport, IsReport, Fields
    <3> QED BY <3>1, <1>3, <1>4
  <2> QED BY <2>1, <2>2, <1>5
<1> HIDE DEF new
<1>7. /\ IsReport(new) /\ new.risk = r.risk /\ new.terms = r.terms
      /\ new.year = r.year /\ new.staff = r.staff /\ new.age = r.age /\ new.reviews = r.reviews
      /\ new.score = m.score /\ new.moved = m.moved /\ new.assessed = TRUE
  BY <1>6 DEF IsReport, Fields, new
<1> QED BY <1>3, <1>6, <1>7 DEF Weighed, SoundReport, SoundNumbers, new, m

-----------------------------------------------------------------------------
(* The lookups: the invariant.                                             *)

\* The fields of a lookup.
LookupFields == {"stage", "single", "force", "llm", "id", "key", "site", "report", "slot",
                 "cached", "articles"}
\* A record of these fields.
IsLookup(p) == p = [f \in LookupFields |-> p[f]]

\* The stages in which sources are asked.
Asking == {"wikipedia", "sec", "site", "talk", "news", "layoffs", "risk"}
\* The stages in which the model assesses a report.
Assessing == {"reviews", "articles", "assess"}

\* What is known of the report of a lookup, by its stage: none before the sources
\* are asked, a sound one while they are, then a weighed one, and only one that is
\* not assessed goes to the model.
SoundLookup(p) ==
    /\ IsLookup(p) /\ p.key \in Keys
    /\ p.stage \in {"off", "cache", "identity", "recheck", "profile"} => p.report = None
    /\ p.stage \in Asking => SoundReport(p.report)
    /\ p.stage \in Assessing => Weighed(p.report) /\ ~p.report.assessed
    /\ p.stage = "save" => Weighed(p.report)
    /\ p.stage = "answer" => p.report = None \/ Weighed(p.report)
    /\ p.site # None => IsList(p.site.profiles)

\* A stored report is complete, and at least as old as it says.
SoundEntry(e) ==
    /\ e = [report |-> e.report, age |-> e.age]
    /\ Weighed(e.report) /\ e.age \in Nat /\ e.age >= e.report.age

\* The inductive invariant of the lookups.
LookupInv ==
    /\ world \in Worlds
    /\ lookup = [l \in Everyone |-> lookup[l]] /\ \A l \in Everyone : SoundLookup(lookup[l])
    /\ stored = [k \in Keys |-> stored[k]]
    /\ \A k \in Keys : stored[k] # None => SoundEntry(stored[k])

\* It holds at the start.
LEMMA LookupInitInv == LookupInit => LookupInv
<1> SUFFICES ASSUME LookupInit PROVE LookupInv
  OBVIOUS
<1>1. SoundLookup(NoLookup)
  BY DEF SoundLookup, IsLookup, LookupFields, NoLookup, Asking, Assessing, Keys, KeyOf
<1>2. lookup = [l \in Everyone |-> lookup[l]] /\ \A l \in Everyone : lookup[l] = NoLookup
  BY DEF LookupInit
<1>3. stored = [k \in Keys |-> stored[k]] /\ \A k \in Keys : stored[k] = None
  BY DEF LookupInit
<1> QED BY <1>1, <1>2, <1>3 DEF LookupInit, LookupInv

\* A step of one lookup that leaves it sound and the stored reports alone.
LEMMA StepsSound ==
    ASSUME LookupInv, NEW l \in Everyone, NEW new, SoundLookup(new), Steps(l, new)
    PROVE  LookupInv'
<1>1. /\ lookup' = [lookup EXCEPT ![l] = new]
      /\ world' = world /\ stored' = stored
  BY DEF Steps, Becomes
<1>2. /\ lookup' = [m \in Everyone |-> lookup'[m]]
      /\ \A m \in Everyone : lookup'[m] = IF m = l THEN new ELSE lookup[m]
  BY <1>1 DEF LookupInv
<1> QED BY <1>1, <1>2 DEF LookupInv

\* What a lookup keeps when it goes on.
LEMMA ToFields ==
    ASSUME NEW p, IsLookup(p), NEW stage, NEW report
    PROVE  LET q == To(p, stage, report)
           IN  /\ IsLookup(q) /\ q.stage = stage /\ q.report = report
               /\ q.key = p.key /\ q.site = p.site /\ q.llm = p.llm /\ q.cached = p.cached
BY DEF To, IsLookup, LookupFields

\* A lookup that goes on to a stage with a report that this stage may have.
LEMMA ToSound ==
    ASSUME NEW p, IsLookup(p), p.key \in Keys, p.site # None => IsList(p.site.profiles), NEW report, NEW stage,
           \/ stage \in Asking /\ SoundReport(report)
           \/ stage \in Assessing /\ Weighed(report) /\ ~report.assessed
           \/ stage \in {"save", "answer"} /\ Weighed(report)
    PROVE  SoundLookup(To(p, stage, report))
<1> DEFINE q == To(p, stage, report)
<1>1. IsLookup(q) /\ q.stage = stage /\ q.report = report /\ q.site = p.site /\ q.key = p.key
  BY ToFields
<1> HIDE DEF q
<1> QED BY <1>1 DEF SoundLookup, Asking, Assessing, q

-----------------------------------------------------------------------------
(* The lookups: the steps of one.                                          *)

\* Up to its sources a lookup has no report.
LEMMA BeforeSourcesStep ==
    ASSUME LookupInv, NEW l \in Everyone,
           \/ \E one, force, llm \in BOOLEAN, id \in world.ids : Start(l, one, force, llm, id)
           \/ TakeSlot(l) \/ ReadStored(l) \/ Identify(l)
    PROVE  LookupInv'
<1> DEFINE p == lookup[l]
<1>0. SoundLookup(p) /\ IsLookup(p)
  BY DEF LookupInv, SoundLookup
<1>1. ASSUME NEW one \in BOOLEAN, NEW force \in BOOLEAN, NEW llm \in BOOLEAN,
             NEW id \in world.ids, Start(l, one, force, llm, id)
      PROVE  LookupInv'
  <2> DEFINE new == [NoLookup EXCEPT !.stage = IF one /\ ~force THEN "cache" ELSE "identity",
                             !.single = one, !.force = force, !.llm = llm, !.id = id,
                             !.key = KeyOf(id)]
  <2>1. SoundLookup(new)
    BY DEF SoundLookup, IsLookup, LookupFields, NoLookup, Asking, Assessing, Keys, KeyOf
  <2>2. lookup' = [lookup EXCEPT ![l] = new] /\ world' = world /\ stored' = stored
    BY <1>1 DEF Start
  <2> HIDE DEF new
  <2>3. /\ lookup' = [m \in Everyone |-> lookup'[m]]
        /\ \A m \in Everyone : lookup'[m] = IF m = l THEN new ELSE lookup[m]
    BY <2>2 DEF LookupInv
  <2> QED BY <2>1, <2>2, <2>3 DEF LookupInv
<1>2. CASE TakeSlot(l)
  <2>1. PICK slot : Steps(l, [p EXCEPT !.slot = slot])
    BY <1>2 DEF TakeSlot
  <2> DEFINE new == [p EXCEPT !.slot = slot]
  <2>2. /\ IsLookup(new) /\ new.stage = p.stage /\ new.report = p.report /\ new.site = p.site
        /\ new.key = p.key
    BY <1>0 DEF IsLookup, LookupFields
  <2> HIDE DEF new, p
  <2>3. SoundLookup(new)
    BY <1>0, <2>2 DEF SoundLookup
  <2> QED BY <2>1, <2>3, StepsSound DEF new
<1>3. CASE ReadStored(l)
  <2> DEFINE hit == [p EXCEPT !.report = stored[p.key].report, !.cached = TRUE]
             read == [hit EXCEPT !.stage = IF NeedsAssessment(hit) THEN "reviews" ELSE "answer"]
             next == [p EXCEPT !.stage = IF p.stage = "cache" THEN "identity" ELSE "profile"]
  <2>1. CASE Fresh(stored[p.key])
    <3>1. Steps(l, read)
      BY <1>3, <2>1 DEF ReadStored
    <3>2. Weighed(stored[p.key].report)
      BY <1>0, <2>1 DEF Fresh, LookupInv, SoundEntry, SoundLookup
    <3> HIDE DEF p
    <3>3. IsLookup(hit) /\ hit.report = stored[p.key].report /\ hit.site = p.site
          /\ hit.key = p.key
      BY <1>0 DEF IsLookup, LookupFields
    <3> HIDE DEF hit
    <3>4. /\ IsLookup(read) /\ read.report = hit.report /\ read.site = p.site
          /\ read.key = p.key
          /\ read.stage = IF NeedsAssessment(hit) THEN "reviews" ELSE "answer"
      BY <3>3 DEF IsLookup, LookupFields
    <3> HIDE DEF read
    <3>5. SoundLookup(read)
      BY <1>0, <3>2, <3>3, <3>4 DEF SoundLookup, NeedsAssessment, Asking, Assessing
    <3> QED BY <3>1, <3>5, StepsSound
  <2>2. CASE ~Fresh(stored[p.key])
    <3>1. Steps(l, next) /\ p.stage \in {"cache", "recheck"}
      BY <1>3, <2>2 DEF ReadStored
    <3> HIDE DEF p
    <3>2. /\ IsLookup(next) /\ next.report = p.report /\ next.site = p.site
          /\ next.key = p.key
          /\ next.stage \in {"identity", "profile"}
      BY <1>0 DEF IsLookup, LookupFields
    <3> HIDE DEF next
    <3>3. SoundLookup(next)
      BY <1>0, <3>1, <3>2 DEF SoundLookup, Asking, Assessing
    <3> QED BY <3>1, <3>3, StepsSound
  <2> QED BY <2>1, <2>2
<1>4. CASE Identify(l)
  <2> DEFINE next(id) ==
            [p EXCEPT !.id = id, !.key = KeyOf(id), !.slot = None,
                      !.stage = IF ~id.website THEN "answer"
                                ELSE IF p.single /\ ~p.force /\ KeyOf(id) # p.key THEN "recheck"
                                ELSE "profile"]
  <2>1. PICK id : Steps(l, next(id)) /\ p.stage = "identity"
    BY <1>4 DEF Identify
  <2> DEFINE new == next(id)
  <2> HIDE DEF p
  <2>2. /\ IsLookup(new) /\ new.report = p.report /\ new.site = p.site
        /\ new.key = KeyOf(id) /\ new.stage \in {"answer", "recheck", "profile"}
    BY <1>0 DEF IsLookup, LookupFields
  <2>3. Steps(l, new)
    BY <2>1
  <2> HIDE DEF new
  <2>4. SoundLookup(new)
    BY <1>0, <2>1, <2>2 DEF SoundLookup, Asking, Assessing, KeyOf, Keys
  <2> QED BY <2>3, <2>4, StepsSound
<1> QED BY <1>1, <1>2, <1>3, <1>4

\* The sources, up to the score.
LEMMA SourceStep ==
    ASSUME LookupInv, NEW l \in Everyone,
           \/ ReadProfile(l) \/ ReadWikipedia(l) \/ ReadSEC(l) \/ FetchSite(l) \/ ReadSite(l)
           \/ ReadHackerNews(l) \/ ReadNews(l) \/ ReadLayoffs(l) \/ Weigh(l)
    PROVE  LookupInv'
<1> DEFINE p == lookup[l]
<1>0. SoundLookup(p) /\ IsLookup(p) /\ p.key \in Keys /\ (p.site # None => IsList(p.site.profiles))
  BY DEF LookupInv, SoundLookup
<1>a. world \in Worlds
  BY DEF LookupInv
<1>b. \A site \in world.sites \cup {NoSite} : IsList(site.profiles)
  <2>1. NoSite.profiles \in Seq({})
    BY DEF NoSite
  <2> QED BY <1>a, <2>1, HealthWorldAssumption DEF IsList
<1>1. CASE ReadProfile(l)
  <2> DEFINE begin(q) == To(q, "wikipedia", NewReport(q.id))
             read(site) == [p EXCEPT !.site = site, !.id = WithSiteIdentity(@, site)]
             none == [p EXCEPT !.site = NoSite]
  <2>1. ASSUME NEW q, IsLookup(q), q.key \in Keys, q.site # None => IsList(q.site.profiles),
               Steps(l, begin(q))
        PROVE  LookupInv'
    <3>1. SoundLookup(begin(q))
      BY <2>1, NewSound, ToSound DEF Asking
    <3> HIDE DEF begin
    <3> QED BY <2>1, <3>1, StepsSound
  <2>2. CASE Steps(l, begin(p))
    BY <1>0, <2>1, <2>2
  <2>3. ASSUME NEW site \in world.sites, Steps(l, begin(read(site))) PROVE LookupInv'
    <3> DEFINE q == read(site)
    <3> HIDE DEF p
    <3>1. IsLookup(q) /\ q.key = p.key /\ q.site = site
      BY <1>0 DEF IsLookup, LookupFields
    <3>2. Steps(l, begin(q))
      BY <2>3
    <3> HIDE DEF q, begin
    <3> QED BY <1>0, <1>b, <2>1, <3>1, <3>2
  <2>4. CASE Steps(l, begin(none))
    <3> HIDE DEF p
    <3>1. IsLookup(none) /\ none.key = p.key /\ none.site = NoSite
      BY <1>0 DEF IsLookup, LookupFields
    <3> HIDE DEF none, begin
    <3> QED BY <1>0, <1>b, <2>1, <2>4, <3>1
  <2> QED BY <1>1, <2>2, <2>3, <2>4 DEF ReadProfile
<1>2. CASE ReadWikipedia(l)
  <2>1. p.stage = "wikipedia" /\ SoundReport(p.report)
    BY <1>0, <1>2 DEF ReadWikipedia, SoundLookup, Asking
  <2>2. \/ \E page : Steps(l, To(p, "sec", WithWikipedia(p.report, page)))
        \/ \E year : Steps(l, To(p, "sec", WithDomainAge(p.report, year)))
    BY <1>2 DEF ReadWikipedia
  <2>3. PICK report : SoundReport(report) /\ Steps(l, To(p, "sec", report))
    <3> HIDE DEF p
    <3> QED BY <2>1, <2>2, WikipediaSound, DomainAgeSound
  <2>4. SoundLookup(To(p, "sec", report))
    BY <1>0, <2>3, ToSound DEF Asking
  <2> QED BY <2>3, <2>4, StepsSound
<1>3. CASE ReadSEC(l)
  <2>1. p.stage = "sec" /\ SoundReport(p.report)
    BY <1>0, <1>3 DEF ReadSEC, At, SoundLookup, Asking
  <2>2. PICK sec \in world.filings : Steps(l, To(p, "site", WithSEC(p.report, sec)))
    BY <1>3 DEF ReadSEC
  <2>3. SoundReport(WithSEC(p.report, sec))
    <3>1. \/ sec.answer \in {"unavailable", "unknown", "listed"}
          \/ sec.answer = "filed" /\ sec.terms \in Nat /\ sec.filings \in DOMAIN FilingPoints
      BY <1>a, HealthWorldAssumption
    <3> QED BY <2>1, <3>1, SECSound
  <2>4. SoundLookup(To(p, "site", WithSEC(p.report, sec)))
    BY <1>0, <2>3, ToSound DEF Asking
  <2> QED BY <2>2, <2>4, StepsSound
<1>4. CASE FetchSite(l)
  <2>1. p.stage = "site" /\ SoundReport(p.report)
    BY <1>0, <1>4 DEF FetchSite, SoundLookup, Asking
  <2>2. PICK site \in world.sites \cup {NoSite} : Steps(l, [p EXCEPT !.site = site, !.slot = None])
    BY <1>4 DEF FetchSite
  <2> DEFINE new == [p EXCEPT !.site = site, !.slot = None]
  <2> HIDE DEF p
  <2>3. IsLookup(new) /\ new.stage = p.stage /\ new.report = p.report /\ new.site = site
        /\ new.key = p.key
    BY <1>0 DEF IsLookup, LookupFields
  <2>4. Steps(l, new)
    BY <2>2
  <2> HIDE DEF new
  <2>5. SoundLookup(new)
    BY <1>0, <1>b, <2>1, <2>3 DEF SoundLookup, Asking, Assessing
  <2> QED BY <2>4, <2>5, StepsSound
<1>5. CASE ReadSite(l)
  <2> DEFINE site == p.site
             wanted == ProfileWanted(p.report) /\ site # None
             filled == [WithSite(p.report, site) EXCEPT !.website = @ \/ site.website]
             report == IF wanted THEN filled ELSE p.report
             id == IF wanted THEN WithSiteIdentity(p.id, site) ELSE p.id
             q == [p EXCEPT !.id = id, !.site = None]
             new == To(q, "talk", WithPrivateBonus(report))
  <2>1. p.stage = "site" /\ SoundReport(p.report) /\ Steps(l, new)
    BY <1>0, <1>5 DEF ReadSite, SoundLookup, Asking
  <2>2. SoundReport(report)
    <3>1. ASSUME wanted PROVE SoundReport(filled)
      <4> DEFINE s == WithSite(p.report, site)
      <4>1. SoundReport(s)
        BY <1>0, <2>1, <3>1, SiteSound
      <4> HIDE DEF s
      <4>2. Alike(s, filled)
        <5> DEFINE told == s.website \/ site.website
        <5>1. filled = [s EXCEPT !.website = told]
          BY DEF s
        <5> HIDE DEF filled, told
        <5> QED BY <4>1, <5>1 DEF SoundReport, IsReport, Fields, Alike
      <4> HIDE DEF filled
      <4> QED BY <4>1, <4>2, AlikeSound
    <3> HIDE DEF filled, wanted
    <3> QED BY <2>1, <3>1
  <2>3. SoundReport(WithPrivateBonus(report))
    BY <2>2, BonusSound
  <2>4. IsLookup(q) /\ q.site = None /\ q.key = p.key
    <3> HIDE DEF p, id
    <3> QED BY <1>0 DEF IsLookup, LookupFields
  <2> HIDE DEF p, q, report
  <2>5. SoundLookup(new)
    BY <1>0, <2>3, <2>4, ToSound DEF Asking
  <2> HIDE DEF new
  <2> QED BY <2>1, <2>5, StepsSound
<1>6. CASE ReadHackerNews(l)
  <2>1. p.stage = "talk" /\ SoundReport(p.report)
    BY <1>0, <1>6 DEF ReadHackerNews, At, SoundLookup, Asking
  <2>2. PICK items : Steps(l, To(p, "news", WithHackerNews(p.report, p.id, items)))
    BY <1>6 DEF ReadHackerNews
  <2>3. SoundLookup(To(p, "news", WithHackerNews(p.report, p.id, items)))
    BY <1>0, <2>1, HackerNewsSound, ToSound DEF Asking
  <2> QED BY <2>2, <2>3, StepsSound
<1>7. CASE ReadNews(l)
  <2>1. p.stage = "news" /\ SoundReport(p.report)
    BY <1>0, <1>7 DEF ReadNews, SoundLookup, Asking
  <2>2. PICK news : Steps(l, To(p, "layoffs", IF news = None THEN p.report
                                              ELSE WithNews(p.report, p.id, news)))
    BY <1>7 DEF ReadNews
  <2> DEFINE report == IF news = None THEN p.report ELSE WithNews(p.report, p.id, news)
  <2>3. SoundReport(report)
    BY <2>1, NewsSound
  <2> HIDE DEF report
  <2>4. SoundLookup(To(p, "layoffs", report))
    BY <1>0, <2>3, ToSound DEF Asking
  <2> QED BY <2>2, <2>4, StepsSound DEF report
<1>8. CASE ReadLayoffs(l)
  <2>1. p.stage = "layoffs" /\ SoundReport(p.report)
    BY <1>0, <1>8 DEF ReadLayoffs, SoundLookup, Asking
  <2>2. PICK headlines, listed :
             Steps(l, To(p, "risk", WithLayoffs(p.report, p.id, headlines, listed)))
    BY <1>8 DEF ReadLayoffs
  <2>3. SoundLookup(To(p, "risk", WithLayoffs(p.report, p.id, headlines, listed)))
    BY <1>0, <2>1, LayoffsSound, ToSound DEF Asking
  <2> QED BY <2>2, <2>3, StepsSound
<1>9. CASE Weigh(l)
  <2> DEFINE known(stock) == IF p.report.ticker /\ stock # None
                             THEN [p.report EXCEPT !.sources = @ \cup {"stock"}] ELSE p.report
             risky(stock) == [known(stock) EXCEPT
                                 !.risk = EmploymentRisk(p.report, stock), !.terms = 0, !.news = 0]
             done(stock) == Capped(WithReviews(risky(stock)))
             to(stock) == To(p, "reviews", done(stock))
  <2>1. p.stage = "risk" /\ SoundReport(p.report)
    BY <1>0, <1>9 DEF Weigh, SoundLookup, Asking
  <2>2. PICK stock : /\ stock # None => stock.drop \in Int /\ stock.change \in Int
                     /\ Steps(l, [to(stock) EXCEPT !.stage =
                                     IF NeedsAssessment(to(stock)) THEN "reviews" ELSE "save"])
    <3>1. PICK stock \in IF p.report.ticker THEN world.stocks ELSE {None} :
             Steps(l, [to(stock) EXCEPT !.stage =
                                     IF NeedsAssessment(to(stock)) THEN "reviews" ELSE "save"])
      BY <1>9 DEF Weigh
    <3>2. stock # None => stock \in world.stocks \ {None}
      BY <3>1
    <3>3. stock # None => stock.drop \in Int /\ stock.change \in Int
      BY <1>a, <3>2, HealthWorldAssumption
    <3> QED BY <3>1, <3>3
  <2> DEFINE report == done(stock)
             q == To(p, "reviews", report)
             new == [q EXCEPT !.stage = IF NeedsAssessment(q) THEN "reviews" ELSE "save"]
  <2>3. Weighed(report)
    <3>1. SoundReport(known(stock))
      <4> DEFINE more == [p.report EXCEPT !.sources = @ \cup {"stock"}]
      <4>1. Alike(p.report, more)
        BY <2>1 DEF SoundReport, IsReport, Fields, Alike
      <4> HIDE DEF more
      <4>2. SoundReport(more)
        BY <2>1, <4>1, AlikeSound
      <4> QED BY <2>1, <4>2 DEF more
    <3>2. EmploymentRisk(p.report, stock) \in Int
      BY <2>1, <2>2, EmploymentRiskType
    <3>3. SoundReport(risky(stock))
      <4> DEFINE k == known(stock)
                 risk == EmploymentRisk(p.report, stock)
                 s == [k EXCEPT !.risk = risk, !.terms = 0, !.news = 0]
      <4>1. risky(stock) = s
        OBVIOUS
      <4> HIDE DEF k, risk
      <4>2. /\ IsReport(s) /\ s.risk = risk /\ s.terms = 0 /\ s.score = k.score
            /\ s.year = k.year /\ s.staff = k.staff /\ s.age = k.age
            /\ s.reviews = k.reviews /\ s.moved = k.moved /\ s.assessed = k.assessed
        BY <3>1 DEF SoundReport, IsReport, Fields, k
      <4> HIDE DEF s
      <4>3. SoundReport(s)
        BY <3>1, <3>2, <4>2 DEF SoundReport, SoundNumbers, k, risk
      <4> QED BY <4>1, <4>3
    <3> HIDE DEF risky
    <3> QED BY <3>3, ReviewedSound, CappedWeighed
  <2>4. Steps(l, new)
    BY <2>2
  <2> HIDE DEF p, report
  <2>5. IsLookup(q) /\ q.report = report /\ q.site = p.site /\ q.key = p.key
    BY <1>0, ToFields
  <2> HIDE DEF q
  <2>6. /\ IsLookup(new) /\ new.report = report /\ new.site = p.site /\ new.key = p.key
        /\ new.stage = IF NeedsAssessment(q) THEN "reviews" ELSE "save"
    BY <2>5 DEF IsLookup, LookupFields
  <2> HIDE DEF new
  <2>7. SoundLookup(new)
    BY <1>0, <2>3, <2>5, <2>6 DEF SoundLookup, NeedsAssessment, Asking, Assessing
  <2> QED BY <2>4, <2>7, StepsSound
<1> QED BY <1>1, <1>2, <1>3, <1>4, <1>5, <1>6, <1>7, <1>8, <1>9

\* The assessment by the model.
LEMMA AssessmentStep ==
    ASSUME LookupInv, NEW l \in Everyone, ReadReviews(l) \/ ReadArticles(l) \/ Assess(l)
    PROVE  LookupInv'
<1> DEFINE p == lookup[l]
<1>0. SoundLookup(p) /\ IsLookup(p) /\ p.key \in Keys /\ (p.site # None => IsList(p.site.profiles))
  BY DEF LookupInv, SoundLookup
<1>a. world \in Worlds
  BY DEF LookupInv
<1>b. Weighed(p.report) /\ ~p.report.assessed
  BY <1>0 DEF ReadReviews, ReadArticles, Assess, SoundLookup, Assessing
<1>c. SoundLookup(To(p, Unassessed(p), p.report))
  BY <1>0, <1>b, ToSound DEF Unassessed
<1>1. CASE ReadReviews(l)
  <2> DEFINE reviewed(reviews) ==
                [p.report EXCEPT !.reviews = reviews,
                                 !.sources = @ \cup (IF reviews = <<>> THEN {}
                                                     ELSE {"employer_reviews"})]
  <2>1. ASSUME NEW reviews \in world.reviews, Steps(l, To(p, "articles", reviewed(reviews)))
        PROVE  LookupInv'
    <3> DEFINE r == p.report
               s == reviewed(reviews)
    <3>1. IsList(reviews)
      BY <1>a, HealthWorldAssumption DEF IsList
    <3>2. /\ IsReport(s) /\ s.risk = r.risk /\ s.terms = r.terms /\ s.score = r.score
          /\ s.year = r.year /\ s.staff = r.staff /\ s.age = r.age
          /\ s.reviews = reviews /\ s.moved = r.moved /\ s.assessed = r.assessed
      <4> HIDE DEF p
      <4> QED BY <1>b DEF Weighed, SoundReport, IsReport, Fields
    <3> HIDE DEF s
    <3>3. Weighed(s) /\ ~s.assessed
      BY <1>b, <3>1, <3>2 DEF Weighed, SoundReport, SoundNumbers
    <3>4. SoundLookup(To(p, "articles", s))
      BY <1>0, <3>3, ToSound DEF Assessing
    <3> QED BY <2>1, <3>4, StepsSound DEF s
  <2>2. CASE Steps(l, To(p, "articles", p.report))
    <3>1. SoundLookup(To(p, "articles", p.report))
      BY <1>0, <1>b, ToSound DEF Assessing
    <3> QED BY <2>2, <3>1, StepsSound
  <2>3. CASE Steps(l, To(p, Unassessed(p), p.report))
    BY <1>c, <2>3, StepsSound
  <2> QED BY <1>1, <2>1, <2>2, <2>3 DEF ReadReviews
<1>2. CASE ReadArticles(l)
  <2> DEFINE q == To(p, "assess", p.report)
  <2>1. PICK articles : Steps(l, [q EXCEPT !.articles = articles])
    BY <1>2 DEF ReadArticles
  <2> DEFINE new == [q EXCEPT !.articles = articles]
  <2>2. IsLookup(q) /\ q.stage = "assess" /\ q.report = p.report /\ q.site = p.site /\ q.key = p.key
    BY <1>0, ToFields
  <2> HIDE DEF q, p
  <2>3. /\ IsLookup(new) /\ new.stage = "assess" /\ new.report = p.report /\ new.site = p.site
        /\ new.key = p.key
    BY <2>2 DEF IsLookup, LookupFields
  <2>4. Steps(l, new)
    BY <2>1
  <2> HIDE DEF new
  <2>5. SoundLookup(new)
    BY <1>0, <1>b, <2>3 DEF SoundLookup, Asking, Assessing
  <2> QED BY <2>4, <2>5, StepsSound
<1>3. CASE Assess(l)
  <2>1. ASSUME NEW answer \in world.models,
               Steps(l, To(p, "save", [Modified(p.report, p.articles, answer) EXCEPT !.assessed = TRUE]))
        PROVE  LookupInv'
    <3> DEFINE report == [Modified(p.report, p.articles, answer) EXCEPT !.assessed = TRUE]
    <3>1. answer.modifier \in Int
      BY <1>a, HealthWorldAssumption
    <3>2. Weighed(report)
      BY <1>b, <3>1, ModifiedWeighed
    <3> HIDE DEF report
    <3>3. SoundLookup(To(p, "save", report))
      BY <1>0, <3>2, ToSound
    <3> QED BY <2>1, <3>3, StepsSound DEF report
  <2>2. CASE Steps(l, To(p, Unassessed(p), p.report))
    BY <1>c, <2>2, StepsSound
  <2> QED BY <1>3, <2>1, <2>2 DEF Assess
<1> QED BY <1>1, <1>2, <1>3

\* A report is stored, under an age of its own, and answered.
LEMMA AnswerStep ==
    ASSUME LookupInv, NEW l \in Everyone, Save(l) \/ SaveFails(l) \/ Handled(l)
    PROVE  LookupInv'
<1> DEFINE p == lookup[l]
           new == [p EXCEPT !.stage = "answer"]
<1>0. SoundLookup(p)
  BY DEF LookupInv
<1>1. ASSUME p.stage = "save" PROVE SoundLookup(new) /\ Weighed(p.report)
  <2> HIDE DEF p
  <2>1. /\ IsLookup(new) /\ new.stage = "answer" /\ new.report = p.report /\ new.site = p.site
        /\ new.key = p.key
    BY <1>0 DEF SoundLookup, IsLookup, LookupFields
  <2> HIDE DEF new
  <2> QED BY <1>0, <1>1, <2>1 DEF SoundLookup, Asking, Assessing
<1>2. CASE Save(l)
  <2> DEFINE entry == [report |-> p.report, age |-> p.report.age]
             key == IF p.single THEN p.key ELSE KeyOf(p.report)
  <2>1. /\ stored' = [stored EXCEPT ![key] = entry] /\ Becomes(l, new) /\ p.stage = "save"
    BY <1>2 DEF Save, StoredAge
  <2>2. SoundEntry(entry)
    <3> HIDE DEF p
    <3> QED BY <1>1, <2>1 DEF SoundEntry, Weighed, SoundReport, SoundNumbers
  <2> HIDE DEF entry, key
  <2>3. /\ stored' = [k \in Keys |-> stored'[k]]
        /\ \A k \in Keys : stored'[k] = stored[k] \/ stored'[k] = entry
    BY <2>1 DEF LookupInv
  <2>4. SoundLookup(new)
    BY <1>1, <2>1
  <2> HIDE DEF new
  <2>5. /\ lookup' = [m \in Everyone |-> lookup'[m]] /\ world' = world
        /\ \A m \in Everyone : lookup'[m] = IF m = l THEN new ELSE lookup[m]
    BY <2>1 DEF LookupInv, Becomes
  <2> QED BY <2>2, <2>3, <2>4, <2>5 DEF LookupInv
<1>3. CASE SaveFails(l)
  BY <1>1, <1>3, StepsSound DEF SaveFails, At
<1>4. CASE Handled(l)
  <2>1. SoundLookup(NoLookup)
    BY DEF SoundLookup, IsLookup, LookupFields, NoLookup, Asking, Assessing, Keys
  <2> QED BY <1>4, <2>1, StepsSound DEF Handled
<1> QED BY <1>2, <1>3, <1>4

\* A day passes for the stored report and for what it says.
LEMMA DayStep == ASSUME LookupInv, Day PROVE LookupInv'
<1>1. ASSUME NEW k \in Keys, stored'[k] # None PROVE SoundEntry(stored'[k])
  <2> DEFINE e == stored[k]
             r == e.report
             new == [e EXCEPT !.age = @ + 1, !.report.age = @ + 1]
             report == [r EXCEPT !.age = @ + 1]
  <2>1. stored'[k] = IF e = None \/ r.age >= MaxAge THEN e ELSE new
    BY DEF Day
  <2>2. CASE e = None \/ r.age >= MaxAge
    BY <1>1, <2>1, <2>2 DEF LookupInv
  <2>3. CASE ~(e = None \/ r.age >= MaxAge)
    <3>1. SoundEntry(e)
      BY <2>3 DEF LookupInv
    <3>2. new.report = report /\ new.age = e.age + 1 /\ new = [report |-> new.report, age |-> new.age]
      <4> DEFINE a == e.age
                 older == [e EXCEPT !.age = a + 1]
      <4>1. e = [report |-> r, age |-> a]
        BY <3>1 DEF SoundEntry
      <4> HIDE DEF e, r, a
      <4>2. older = [report |-> r, age |-> a + 1]
        BY <4>1
      <4>3. new = [older EXCEPT !.report = report]
        BY <4>1, <4>2
      <4> HIDE DEF older, report
      <4>4. new = [report |-> report, age |-> a + 1]
        BY <4>2, <4>3
      <4> HIDE DEF new
      <4> QED BY <4>4 DEF a
    <3>3. /\ IsReport(report) /\ report.risk = r.risk /\ report.terms = r.terms
          /\ report.score = r.score /\ report.year = r.year /\ report.staff = r.staff
          /\ report.age = r.age + 1 /\ report.reviews = r.reviews /\ report.moved = r.moved
          /\ report.assessed = r.assessed
      <4> HIDE DEF e
      <4> QED BY <3>1 DEF SoundEntry, Weighed, SoundReport, IsReport, Fields
    <3> HIDE DEF e, new, report
    <3>4. Weighed(report) /\ r.age \in Nat
      BY <3>1, <3>3 DEF SoundEntry, Weighed, SoundReport, SoundNumbers
    <3>5. SoundEntry(new)
      BY <3>1, <3>2, <3>3, <3>4 DEF SoundEntry
    <3> QED BY <2>1, <2>3, <3>5
  <2> QED BY <2>2, <2>3
<1>2. stored' = [k \in Keys |-> stored'[k]]
  BY DEF Day
<1> QED BY <1>1, <1>2 DEF LookupInv, Day

\* A report that is complete is weighed.
LEMMA CompleteWeighed == ASSUME LookupInv, NEW r \in Complete PROVE Weighed(r)
<1>1. CASE \E k \in Keys : stored[k] # None /\ r = stored[k].report
  BY <1>1 DEF LookupInv, SoundEntry
<1>2. CASE \E l \in Everyone : r = lookup[l].report /\ r # None
              /\ lookup[l].stage \in {"reviews", "articles", "assess", "save", "answer"}
  BY <1>2 DEF LookupInv, SoundLookup, Assessing
<1> QED BY <1>1, <1>2 DEF Complete

\* Every step keeps the invariant.
LEMMA LookupNextInv == LookupInv /\ [LookupNext]_lookupVars => LookupInv'
<1> SUFFICES ASSUME LookupInv, [LookupNext]_lookupVars PROVE LookupInv'
  OBVIOUS
<1>1. CASE UNCHANGED lookupVars
  BY <1>1 DEF lookupVars, LookupInv
<1>2. CASE LookupNext
  BY <1>2, DayStep, BeforeSourcesStep, SourceStep, AssessmentStep, AnswerStep DEF LookupNext
<1> QED BY <1>1, <1>2

-----------------------------------------------------------------------------
(* The lookups: the theorems.                                              *)

\* The invariant holds of every lookup (LoadCompanyHealth, RefreshCompanyHealth), for
\* any number of them, any slots and whatever the sources answer.
THEOREM LookupInvariance == LookupSpec => []LookupInv
<1>1. QED
  BY LookupInitInv, LookupNextInv, PTL DEF LookupSpec

\* A score stays in the range of its risk, the model moves it once and by ten at most,
\* and a stored report does not look newer than it is, however often it is stored,
\* read again and assessed.
THEOREM ReportsAreSoundTheorem == LookupSpec => []ReportsAreSound
<1>1. LookupInv => ReportsAreSound
  <2> SUFFICES ASSUME LookupInv PROVE ReportsAreSound
    OBVIOUS
  <2>1. ASSUME NEW r \in Complete PROVE Weighed(r)
    BY CompleteWeighed
  <2>2. ASSUME NEW k \in Keys, stored[k] # None PROVE stored[k].age >= stored[k].report.age
    BY <2>2 DEF LookupInv, SoundEntry
  <2> QED BY <2>1, <2>2 DEF ReportsAreSound, Weighed, SoundReport, SoundNumbers
<1>2. QED
  BY <1>1, LookupInvariance, PTL

\* A fact in a complete report is the best of what was observed (observeFoundedYear,
\* observeEmployeeCount), in whatever order and with whatever conflicts, and the year is
\* missing only if the company's site does not tell it either (ApplyCompanySiteProfile).
THEOREM FactsAreTheBestTheorem == LookupSpec => []FactsAreTheBest
<1>1. LookupInv => FactsAreTheBest
  BY CompleteWeighed DEF FactsAreTheBest, Weighed, SoundReport, SoundFact
<1>2. QED
  BY <1>1, LookupInvariance, PTL

-----------------------------------------------------------------------------
(* The composition.                                                        *)

\* What the runs check, the commands, the lookups and the uses of the model together
\* (updateHealth, RefreshCompanyHealth, initLLM), is a behaviour of each of the three.
THEOREM RefreshImplementsParts == RefreshSpec => FairSpec /\ LookupSpec /\ AccessSpec
<1>1. RefreshInit => Init /\ LookupInit /\ AccessInit
  BY DEF RefreshInit
<1>2. [CommandSteps \/ LookupSteps \/ AccessSteps]_vars
      => [Next]_bulkVars /\ [LookupNext]_lookupVars /\ [AccessNext]_accessVars
  BY DEF CommandSteps, LookupSteps, AccessSteps, vars
<1>3. QED
  BY <1>1, <1>2, PTL DEF RefreshSpec, FairSpec, Spec, LookupSpec, AccessSpec

=============================================================================
