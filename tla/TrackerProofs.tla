---------------------------- MODULE TrackerProofs ----------------------------
(***************************************************************************)
(* Proofs about the rows of the list and their table, for any jobs, any    *)
(* lists and any number of tasks.                                          *)
(*                                                                         *)
(* The merges are folds: what they do is told by the chain of lists they go*)
(* through (module Induction).                                             *)
(***************************************************************************)
EXTENDS Tracker, SlotOwnershipProofs, Induction, TLAPS

\* One row merged into rows leaves rows.
LEMMA MergeOneType ==
    ASSUME NEW acc \in Seq(Row), NEW row \in Row
    PROVE  MergeOne(acc, row) \in Seq(Row)
<1>1. ASSUME NEW i \in DOMAIN acc PROVE [acc[i] EXCEPT !.info = "full"] \in Row
  <2>1. acc[i] \in Row
    BY <1>1
  <2>2. QED
    BY <2>1 DEF Row
<1>2. CASE row.key \in KeysOf(acc)
  <2> DEFINE f == [i \in 1..Len(acc) |->
                     IF /\ acc[i].key = row.key
                        /\ \A h \in DOMAIN acc : acc[h].key = row.key => h <= i
                        /\ row.info = "full"
                     THEN [acc[i] EXCEPT !.info = "full"] ELSE acc[i]]
  <2>1. MergeOne(acc, row) = f
    BY <1>2 DEF MergeOne
  <2>2. \A i \in 1..Len(acc) : f[i] \in Row
    BY <1>1
  <2> HIDE DEF f
  <2>3. QED
    BY <2>1, <2>2 DEF f
<1>3. CASE row.key \notin KeysOf(acc)
  BY <1>3 DEF MergeOne
<1> QED
  BY <1>2, <1>3

\* Merge goes through the new rows one after the other: its fold is a chain of
\* lists of which each is the one before with a row merged into it.
LEMMA MergeSteps ==
    ASSUME NEW rows \in Seq(Row), NEW new \in Seq(Row)
    PROVE  \E h \in [0..Len(new) -> Seq(Row)] :
              /\ h[0] = rows
              /\ \A k \in 1..Len(new) : h[k] = MergeOne(h[k - 1], new[k])
              /\ Merge(rows, new) = h[Len(new)]
<1> DEFINE N == Len(new)
           V == Seq(Row)
           step == [i \in 1..N |-> [v \in V |-> MergeOne(v, new[i])]]
           raw(g) == g = [s \in SUBSET (1..N) |->
                             IF s = {} THEN rows ELSE MergeOne(g[s \ {Max(s)}], new[Max(s)])]
           iter == CHOOSE g : raw(g)
           h == [k \in 0..N |-> iter[1..k]]
<1>0. N \in Nat /\ DOMAIN new = 1..N /\ \A i \in 1..N : new[i] \in Row
  OBVIOUS
<1>1. step \in [1..N -> [V -> V]]
  BY MergeOneType, <1>0
<1>2. PICK g : Folds(g, N, V, rows, step)
  <2>1. rows \in V
    OBVIOUS
  <2> HIDE DEF step, N, V, raw
  <2> QED BY <1>0, <1>1, <2>1, FoldExists
<1>3. raw(g)
  <2>1. ASSUME NEW s \in SUBSET (1..N), s # {}
        PROVE  g[s] = MergeOne(g[s \ {Max(s)}], new[Max(s)])
    <3>1. Max(s) \in 1..N /\ s \ {Max(s)} \in SUBSET (1..N)
      BY <2>1, <1>0, GreatestNumber
    <3>2. QED
      BY <2>1, <1>2, <3>1 DEF Folds
  <2> HIDE DEF N
  <2>2. QED
    BY <2>1, <1>2 DEF Folds
<1>4. Merge(rows, new) = iter[1..N]
  BY <1>0 DEF Merge, FoldLeft, MapThenFoldSet
<1>5. raw(iter)
  <2> HIDE DEF raw
  <2> QED BY <1>3
<1>6. h[0] = rows /\ h[N] = iter[1..N]
  <2>1. 1..0 = {} /\ {} \in SUBSET (1..N)
    OBVIOUS
  <2>2. iter[{}] = rows
    <3> HIDE DEF iter
    <3> QED BY <1>5, <2>1
  <2> HIDE DEF iter
  <2>3. QED
    BY <2>1, <2>2, <1>0
<1>7. ASSUME NEW k \in 1..N
      PROVE  h[k] = MergeOne(h[k - 1], new[k])
  <2>1. Max(1..k) = k /\ (1..k) \ {k} = 1..(k - 1)
    BY MaxOfInterval
  <2>2. 1..k \in SUBSET (1..N) /\ 1..k # {} /\ k \in 0..N /\ k - 1 \in 0..N
    <3>1. k \in Nat /\ 1 <= k /\ k <= N
      BY <1>0
    <3>2. k \in 1..k /\ \A j \in 1..k : j \in 1..N
      BY <1>0, <3>1
    <3>3. k \in 0..N /\ k - 1 \in 0..N
      BY <1>0, <3>1
    <3> HIDE DEF N
    <3> QED BY <3>2, <3>3
  <2>3. iter[1..k] = MergeOne(iter[(1..k) \ {Max(1..k)}], new[Max(1..k)])
    <3> HIDE DEF iter
    <3> QED BY <1>5, <2>2
  <2> HIDE DEF iter
  <2>4. QED
    BY <2>1, <2>2, <2>3
<1>8. 0..N \subseteq {k \in 0..N : h[k] \in V}
  <2> DEFINE S == {k \in 0..N : h[k] \in V}
  <2>1. 0 \in S
    BY <1>0, <1>6
  <2>2. ASSUME NEW k \in 0..N, k \in S, k < N
        PROVE  k + 1 \in S
    <3>1. k + 1 \in 1..N /\ k + 1 \in 0..N /\ (k + 1) - 1 = k
      BY <1>0, <2>2
    <3>2. h[k + 1] = MergeOne(h[k], new[k + 1])
      BY <1>7, <3>1
    <3>4. h[k] \in Seq(Row) /\ new[k + 1] \in Row
      BY <2>2, <3>1, <1>0
    <3> HIDE DEF h, N
    <3>5. MergeOne(h[k], new[k + 1]) \in Seq(Row)
      BY <3>4, MergeOneType
    <3>3. QED
      BY <3>1, <3>2, <3>5
  <2> HIDE DEF S
  <2>3. 0..N \subseteq S
    BY <1>0, <2>1, <2>2, CountingUp
  <2>4. QED
    BY <2>3 DEF S
<1>9. QED
  <2>1. h \in [0..N -> V]
    BY <1>8
  <2> HIDE DEF h
  <2>2. QED
    BY <1>4, <1>6, <1>7, <2>1

\* Rows picked from rows are rows.
LEMMA RowsAtType ==
    ASSUME NEW rows \in Seq(Row), NEW S
    PROVE  RowsAt(rows, S) \in Seq(Row)
<1> DEFINE N == Len(rows)
           P(v, i) == IF i \in S THEN Append(v, rows[i]) ELSE v
           idx == [i \in DOMAIN rows |-> i]
           V == Seq(Row)
           step == [i \in 1..N |-> [v \in V |-> P(v, i)]]
           raw(g) == g = [s \in SUBSET (1..N) |->
                             IF s = {} THEN <<>> ELSE P(g[s \ {Max(s)}], idx[Max(s)])]
           iter == CHOOSE g : raw(g)
           h == [k \in 0..N |-> iter[1..k]]
<1>0. N \in Nat /\ DOMAIN rows = 1..N /\ DOMAIN idx = 1..N /\ \A i \in 1..N : idx[i] = i
  OBVIOUS
<1>p. ASSUME NEW v \in V, NEW i \in 1..N PROVE P(v, i) \in V
  <2>1. rows[i] \in Row
    BY <1>p
  <2>2. QED
    BY <2>1
<1>1. step \in [1..N -> [V -> V]]
  <2> HIDE DEF P, V, N
  <2> QED BY <1>p
<1>2. PICK g : Folds(g, N, V, <<>>, step)
  <2>1. <<>> \in V
    OBVIOUS
  <2> HIDE DEF step, N, V, raw, P
  <2> QED BY <1>0, <1>1, <2>1, FoldExists
<1>3. raw(g)
  <2>1. ASSUME NEW s \in SUBSET (1..N), s # {}
        PROVE  g[s] = P(g[s \ {Max(s)}], idx[Max(s)])
    <3>1. Max(s) \in 1..N /\ s \ {Max(s)} \in SUBSET (1..N)
      BY <2>1, <1>0, GreatestNumber
    <3>2. QED
      <4>1. g[s \ {Max(s)}] \in V
        BY <1>2, <3>1 DEF Folds
      <4> HIDE DEF P, V, N
      <4>2. QED
        BY <2>1, <1>0, <1>2, <3>1, <4>1 DEF Folds
  <2> HIDE DEF N, P
  <2>2. QED
    BY <2>1, <1>2 DEF Folds
<1>4. RowsAt(rows, S) = iter[1..N]
  BY <1>0 DEF RowsAt, FoldLeftDomain, FoldLeft, MapThenFoldSet
<1>5. raw(iter)
  <2> HIDE DEF raw
  <2> QED BY <1>3
<1>6. h[0] = <<>> /\ h[N] = iter[1..N]
  <2>1. 1..0 = {} /\ {} \in SUBSET (1..N)
    OBVIOUS
  <2>2. iter[{}] = <<>>
    <3> HIDE DEF iter
    <3> QED BY <1>5, <2>1
  <2> HIDE DEF iter
  <2>3. QED
    BY <2>1, <2>2, <1>0
<1>7. ASSUME NEW k \in 1..N
      PROVE  h[k] = P(h[k - 1], k)
  <2>1. Max(1..k) = k /\ (1..k) \ {k} = 1..(k - 1)
    BY MaxOfInterval
  <2>2. 1..k \in SUBSET (1..N) /\ 1..k # {} /\ k \in 0..N /\ k - 1 \in 0..N
    <3>1. k \in Nat /\ 1 <= k /\ k <= N
      BY <1>0
    <3>2. k \in 1..k /\ \A j \in 1..k : j \in 1..N
      BY <1>0, <3>1
    <3>3. k \in 0..N /\ k - 1 \in 0..N
      BY <1>0, <3>1
    <3> HIDE DEF N
    <3> QED BY <3>2, <3>3
  <2>3. iter[1..k] = P(iter[(1..k) \ {Max(1..k)}], idx[Max(1..k)])
    <3> HIDE DEF iter, P
    <3> QED BY <1>5, <2>2
  <2> HIDE DEF iter, P, idx
  <2>4. QED
    BY <2>1, <2>2, <2>3, <1>0
<1>8. 0..N \subseteq {k \in 0..N : h[k] \in V}
  <2> DEFINE T == {k \in 0..N : h[k] \in V}
  <2>1. 0 \in T
    <3>1. <<>> \in V
      OBVIOUS
    <3> HIDE DEF h, V, N
    <3>2. QED
      BY <1>0, <1>6, <3>1
  <2>2. ASSUME NEW k \in 0..N, k \in T, k < N
        PROVE  k + 1 \in T
    <3>1. k + 1 \in 1..N /\ k + 1 \in 0..N /\ (k + 1) - 1 = k
      BY <1>0, <2>2
    <3>2. h[k + 1] = P(h[k], k + 1)
      <4> HIDE DEF h, P, N
      <4> QED BY <1>7, <3>1
    <3>3. h[k] \in V
      BY <2>2
    <3> HIDE DEF h, N, P, V
    <3>4. QED
      BY <3>1, <3>2, <3>3, <1>p
  <2> HIDE DEF T
  <2>3. 0..N \subseteq T
    BY <1>0, <2>1, <2>2, CountingUp
  <2>4. QED
    BY <2>3 DEF T
<1>9. h[N] \in V
  <2> HIDE DEF h, V
  <2> QED BY <1>8, <1>0
<1>10. QED
  BY <1>4, <1>6, <1>9

\* A list has all rows of another at their places, with their jobs and statuses.
Extends(rows, longer) ==
    \A i \in DOMAIN rows :
        /\ i \in DOMAIN longer
        /\ longer[i].key = rows[i].key
        /\ longer[i].status = rows[i].status

\* One merged row moves and changes no other, and lets no second row of a job in.
LEMMA MergeOneExtends ==
    ASSUME NEW acc \in Seq(Row), NEW row \in Row
    PROVE  /\ Extends(acc, MergeOne(acc, row))
           /\ Unique(acc) => Unique(MergeOne(acc, row))
<1>0. \A i \in DOMAIN acc : acc[i] \in Row
  OBVIOUS
<1>1. CASE row.key \in KeysOf(acc)
  <2> DEFINE m == MergeOne(acc, row)
  <2>1. DOMAIN m = DOMAIN acc
    BY <1>1 DEF MergeOne
  <2>2. ASSUME NEW i \in DOMAIN acc
        PROVE  m[i].key = acc[i].key /\ m[i].status = acc[i].status
    <3>1. m[i] = acc[i] \/ m[i] = [acc[i] EXCEPT !.info = "full"]
      BY <1>1 DEF MergeOne
    <3>2. QED
      BY <1>0, <3>1 DEF Row
  <2>3. Extends(acc, m) /\ (Unique(acc) => Unique(m))
    <3> HIDE DEF m
    <3> QED BY <2>1, <2>2 DEF Extends, Unique
  <2>4. QED
    BY <2>3
<1>2. CASE row.key \notin KeysOf(acc)
  <2>1. MergeOne(acc, row) = Append(acc, row)
    BY <1>2 DEF MergeOne
  <2>2. \A i \in DOMAIN acc : Append(acc, row)[i] = acc[i] /\ acc[i].key # row.key
    BY <1>2 DEF KeysOf
  <2>3. DOMAIN Append(acc, row) = 1..(Len(acc) + 1) /\ Append(acc, row)[Len(acc) + 1] = row
    OBVIOUS
  <2>4. \A i \in 1..(Len(acc) + 1) : i \in DOMAIN acc \/ i = Len(acc) + 1
    OBVIOUS
  <2>5. Extends(acc, Append(acc, row))
    BY <2>2, <2>3 DEF Extends
  <2>6. Unique(acc) => Unique(Append(acc, row))
    BY <2>2, <2>3, <2>4 DEF Unique
  <2>7. QED
    BY <2>1, <2>5, <2>6
<1> QED
  BY <1>1, <1>2

\* Nor does a merge of any number of rows, by its steps.
LEMMA MergeExtends ==
    ASSUME NEW rows \in Seq(Row), NEW new \in Seq(Row)
    PROVE  /\ Merge(rows, new) \in Seq(Row)
           /\ Extends(rows, Merge(rows, new))
           /\ Unique(rows) => Unique(Merge(rows, new))
           /\ KeysOf(rows) \subseteq KeysOf(Merge(rows, new))
<1> DEFINE N == Len(new)
<1>0. N \in Nat
  OBVIOUS
<1>1. PICK h \in [0..N -> Seq(Row)] :
         /\ h[0] = rows
         /\ \A k \in 1..N : h[k] = MergeOne(h[k - 1], new[k])
         /\ Merge(rows, new) = h[N]
  BY MergeSteps
<1> DEFINE S == {k \in 0..N : Extends(rows, h[k]) /\ (Unique(rows) => Unique(h[k]))}
<1>2. 0 \in S
  BY <1>0, <1>1 DEF Extends
<1>3. ASSUME NEW k \in 0..N, k \in S, k < N
      PROVE  k + 1 \in S
  <2>1. k + 1 \in 1..N /\ k + 1 \in 0..N /\ (k + 1) - 1 = k
    BY <1>0, <1>3
  <2>2. h[k + 1] = MergeOne(h[k], new[k + 1]) /\ h[k] \in Seq(Row)
    BY <1>1, <2>1
  <2>3. new[k + 1] \in Row
    BY <2>1
  <2>4. Extends(h[k], h[k + 1]) /\ (Unique(h[k]) => Unique(h[k + 1]))
    BY <2>2, <2>3, MergeOneExtends
  <2>5. Extends(rows, h[k]) /\ (Unique(rows) => Unique(h[k]))
    BY <1>3
  <2>6. Extends(rows, h[k + 1])
    BY <2>4, <2>5 DEF Extends
  <2>7. QED
    BY <2>1, <2>4, <2>5, <2>6
<1>4. Extends(rows, h[N]) /\ (Unique(rows) => Unique(h[N])) /\ h[N] \in Seq(Row)
  <2> HIDE DEF S, N
  <2>1. 0..N \subseteq S
    BY <1>0, <1>2, <1>3, CountingUp
  <2>2. N \in 0..N
    BY <1>0
  <2>3. QED
    BY <1>1, <2>1, <2>2 DEF S
<1>5. KeysOf(rows) \subseteq KeysOf(h[N])
  BY <1>4 DEF Extends, KeysOf
<1> QED
  BY <1>1, <1>4, <1>5

\* A list the program starts with.
LEMMA BoardsAreRows ==
    ASSUME NEW b \in Boards
    PROVE  b \in Seq(Row) /\ Unique(b)
<1>1. Cardinality(Keys) \in Nat
  BY TrackerAssumption, FS_CardinalityType
<1>2. PICK m \in 0..Cardinality(Keys) : b \in [1..m -> Row]
  BY DEF Boards, BoundedSeq, SeqOf
<1>3. m \in Nat
  BY <1>1
<1>4. QED
  BY <1>2, <1>3 DEF Boards

\* The place of a job that is in the list.
LEMMA AtFinds ==
    ASSUME board \in Seq(Row), NEW k \in KeysOf(board)
    PROVE  At(k) \in DOMAIN board /\ board[At(k)].key = k
<1> DEFINE T == {i \in DOMAIN board : board[i].key = k}
<1>1. T \in SUBSET Nat /\ T # {}
  BY DEF KeysOf
<1>2. PICK m \in T : \A n \in T : m <= n
  BY <1>1, LeastNumber
<1>3. \E i \in DOMAIN board :
         board[i].key = k /\ \A h \in DOMAIN board : board[h].key = k => i <= h
  BY <1>2
<1>4. QED
  BY <1>3 DEF At

\* The bounds of a behaviour, as numbers and sets.
LEMMA ScopeType ==
    ASSUME scope \in Scopes
    PROVE  scope.keys \subseteq Keys /\ scope.incidents \in Nat
BY TrackerAssumption

\* What a save leaves in the table.
LEMMA SaveType ==
    ASSUME NEW rows, SaveOrNot(rows)
    PROVE  store' = rows \/ store' = store
BY DEF SaveOrNot, Saved, NotSaved

\* List and table stay lists of rows.
LEMMA RowsStep ==
    ASSUME TypeOK, Next
    PROVE  board' \in Seq(Row) /\ store' \in Seq(Row)
<1> USE DEF TypeOK
<1>0. \A i \in DOMAIN board : board[i] \in Row
  OBVIOUS
<1>1. ASSUME NEW k \in Keys, NEW s \in Statuses, SetStatus(k, s)
      PROVE  board' \in Seq(Row) /\ store' \in Seq(Row)
  <2>1. At(k) \in DOMAIN board
    BY <1>1, AtFinds DEF SetStatus
  <2>2. board' = [board EXCEPT ![At(k)].status = s]
    BY <1>1 DEF SetStatus
  <2>3. [board[At(k)] EXCEPT !.status = s] \in Row
    BY <1>0, <2>1 DEF Row
  <2>4. board' \in Seq(Row)
    BY <2>1, <2>2, <2>3
  <2>5. QED
    BY <1>1, <2>4, SaveType DEF SetStatus
<1>2. ASSUME NEW k \in Keys, Delete(k)
      PROVE  board' \in Seq(Row) /\ store' \in Seq(Row)
  <2>1. At(k) \in 1..Len(board)
    BY <1>2, AtFinds DEF Delete
  <2> DEFINE shorter == RemoveAt(board, At(k))
  <2>2. shorter \in Seq(Row) /\ Last(board) \in Row
    BY <2>1 DEF RemoveAt, Last
  <2>3. \/ Saved(shorter) /\ board' = shorter
        \/ NotSaved(shorter) /\ board' = Append(shorter, Last(board))
    BY <1>2 DEF Delete
  <2> HIDE DEF shorter
  <2>4. store' = shorter \/ store' = store
    BY <2>3 DEF Saved, NotSaved
  <2>5. board' = shorter \/ board' = Append(shorter, Last(board))
    BY <2>3
  <2>6. Append(shorter, Last(board)) \in Seq(Row)
    BY <2>2
  <2>7. QED
    BY <2>2, <2>4, <2>5, <2>6
<1>3. ASSUME NEW k \in Keys, NEW row \in Edited, JobEdited(k, row)
      PROVE  board' \in Seq(Row) /\ store' \in Seq(Row)
  <2>1. At(k) \in DOMAIN board
    BY <1>3, AtFinds DEF JobEdited
  <2>2. row \in Row
    BY TrackerAssumption DEF Row
  <2>3. board' \in Seq(Row)
    BY <1>3, <2>1, <2>2 DEF JobEdited
  <2>4. SaveOrNot(board')
    BY <1>3 DEF JobEdited
  <2>5. store' = board' \/ store' = store
    BY <2>4, SaveType
  <2>6. QED
    BY <2>3, <2>5
<1>4. ASSUME NEW new \in Reviews, AcceptReview(new)
      PROVE  board' \in Seq(Row) /\ store' \in Seq(Row)
  <2>1. Merge(board, new) \in Seq(Row)
    BY BoardsAreRows, MergeExtends DEF Reviews
  <2>2. QED
    BY <1>4, <2>1 DEF AcceptReview, Saved, NotSaved
<1>5. ASSUME NEW t \in TaskIds, JobEnriched(t)
      PROVE  board' \in Seq(Row) /\ store' \in Seq(Row)
  <2>1. Head(work[t].mail) \in Row
    BY <1>5 DEF JobEnriched, Task
  <2>2. Updated(Head(work[t].mail)) \in Seq(Row)
    BY <2>1, AtFinds DEF Updated
  <2>3. QED
    BY <1>5, <2>2 DEF JobEnriched
<1>6. ASSUME NEW t \in TaskIds, EnrichmentDone(t)
      PROVE  board' \in Seq(Row) /\ store' \in Seq(Row)
  <2>1. Merge(board, work[t].copy) \in Seq(Row)
    BY MergeExtends DEF Task
  <2>2. QED
    BY <1>6, <2>1 DEF EnrichmentDone, Saved, NotSaved
<1>7. ASSUME NEW t \in TaskIds, PostingsDone(t)
      PROVE  board' \in Seq(Row) /\ store' \in Seq(Row)
  <2>1. \A i \in DOMAIN board : MarkExpired(board[i]) \in Row
    BY <1>0, TrackerAssumption DEF MarkExpired, Row
  <2>2. board' \in Seq(Row)
    BY <1>0, <1>7, <2>1 DEF PostingsDone
  <2>3. QED
    BY <1>7, <2>2, SaveType DEF PostingsDone
<1>8. CASE UNCHANGED <<board, store>>
  BY <1>8
<1>9. scope.keys \subseteq Keys
  BY ScopeType
<1> QED
  <2>1. CASE User
    BY <2>1, <1>1, <1>2, <1>3, <1>4, <1>8, <1>9
       DEF User, FetchAnswered, DismissReview,
           OpenEditor, EditLost, UpdateDetails, UpdateAll, CheckPostings, StartTask
  <2>2. CASE \E t \in TaskIds : Goroutine(t) \/ Handlers(t)
    <3>1. PICK t \in TaskIds : Goroutine(t) \/ Handlers(t)
      BY <2>2
    <3>2. CASE Goroutine(t)
      BY <3>2, <1>8 DEF Goroutine, EnrichJob, SkipJob, VerifyJob, Return
    <3>3. CASE FinalDropped(t)
      BY <3>3, <1>8 DEF FinalDropped
    <3>4. QED
      BY <3>1, <3>2, <3>3, <1>5, <1>6, <1>7 DEF Handlers
  <2>3. CASE BulkRefresh
    BY <2>3, <1>8 DEF BulkRefresh
  <2>4. QED
    BY <2>1, <2>2, <2>3 DEF Next

\* A function on 1..n is a sequence.
LEMMA FunctionIsSeq ==
    ASSUME NEW R, NEW n \in Nat, NEW f \in [1..n -> R]
    PROVE  f \in Seq(R)
OBVIOUS

\* A task that starts is a task.
LEMMA StartedType ==
    ASSUME NEW kind \in {"enrich", "validate"}, NEW rows \in Seq(Row)
    PROVE  Started(kind, rows) \in Task
<1>1. KeysOf(rows) \subseteq Keys
  <2>1. \A i \in DOMAIN rows : rows[i] \in Row
    OBVIOUS
  <2>2. QED
    BY <2>1 DEF KeysOf, Row
<1>2. <<>> \in Seq(Row) /\ {} \in SUBSET Keys
  OBVIOUS
<1>3. QED
  BY <1>1, <1>2 DEF Started, Task

\* Tasks stay tasks.
LEMMA WorkStep ==
    ASSUME TypeOK, Next
    PROVE  work' \in [TaskIds -> Task]
<1> USE DEF TypeOK
<1>0. /\ scope.keys \subseteq Keys
      /\ scope.tasks \in 0..MaxTasks
      /\ issued + 1 \in TaskIds \/ issued = MaxTasks
  BY TrackerAssumption, MaxTasksAssumption DEF OwnershipTypeOK, TaskIds
<1>n. <<>> \in Seq(Row) /\ {} \in SUBSET Keys
  OBVIOUS
<1>1. ASSUME NEW kind \in {"enrich", "validate"}, NEW rows \in Seq(Row),
             work' = [work EXCEPT ![issued + 1] = Started(kind, rows)]
      PROVE  work' \in [TaskIds -> Task]
  BY <1>1, StartedType
<1>2. ASSUME NEW new \in Reviews, AcceptReview(new)
      PROVE  work' \in [TaskIds -> Task]
  <2>1. new \in Seq(Row)
    BY BoardsAreRows DEF Reviews
  <2>2. QED
    BY <1>1, <1>2, <2>1 DEF AcceptReview
<1>3. ASSUME NEW kind \in {"enrich", "validate"}, NEW rows \in Seq(Row), StartTask(kind, rows)
      PROVE  work' \in [TaskIds -> Task]
  BY <1>1, <1>3 DEF StartTask
<1>4. ASSUME NEW k \in Keys, UpdateDetails(k)
      PROVE  work' \in [TaskIds -> Task]
  <2>1. <<board[At(k)]>> \in Seq(Row)
    BY <1>4, AtFinds DEF UpdateDetails
  <2>2. QED
    BY <1>3, <1>4, <2>1 DEF UpdateDetails
<1>5. ASSUME UpdateAll \/ CheckPostings
      PROVE  work' \in [TaskIds -> Task]
  <2>1. \A S : FirstRows(S) \in Seq(Row)
    BY RowsAtType DEF FirstRows
  <2>2. QED
    BY <1>3, <1>5, <2>1
       DEF UpdateAll, CheckPostings, JobsNeedingEnrichment, PostingValidationTargets
<1>6. CASE User
  BY <1>0, <1>2, <1>4, <1>5, <1>6
     DEF User, FetchAnswered, DismissReview, SetStatus, Delete, JobEdited, OpenEditor, EditLost
<1>7. ASSUME NEW t \in TaskIds, Goroutine(t)
      PROVE  work' \in [TaskIds -> Task]
  <2>0. work[t] \in Task /\ \A i \in DOMAIN work[t].copy : work[t].copy[i] \in Row
    BY DEF Task
  <2>1. ASSUME NEW i \in DOMAIN work[t].copy, NEW info \in {"missing", "full"},
               EnrichJob(t, i, info)
        PROVE  work' \in [TaskIds -> Task]
    <3> DEFINE row == [work[t].copy[i] EXCEPT !.info = info]
    <3>1. row \in Row
      BY <2>0 DEF Row
    <3>2. Append(work[t].mail, row) \in Seq(Row) /\ [work[t].copy EXCEPT ![i] = row] \in Seq(Row)
      BY <2>0, <3>1 DEF Task
    <3>3. work' = [work EXCEPT ![t].copy[i] = row,
                               ![t].todo = @ \ {row.key},
                               ![t].mail = IF work[t].heard THEN Append(@, row) ELSE @]
      BY <2>1 DEF EnrichJob
    <3> HIDE DEF row
    <3>4. QED
      BY <2>0, <3>2, <3>3 DEF Task
  <2>2. ASSUME NEW i \in DOMAIN work[t].copy, SkipJob(t, i)
        PROVE  work' \in [TaskIds -> Task]
    BY <2>0, <2>2 DEF SkipJob, Task
  <2>3. ASSUME NEW i \in DOMAIN work[t].copy, NEW inactive \in BOOLEAN, VerifyJob(t, i, inactive)
        PROVE  work' \in [TaskIds -> Task]
    <3>1. work[t].copy[i].key \in Keys
      BY <2>0 DEF Row
    <3>2. QED
      BY <2>0, <2>3, <3>1 DEF VerifyJob, Task
  <2>4. ASSUME NEW S \in SUBSET DOMAIN work[t].copy, Return(t, S)
        PROVE  work' \in [TaskIds -> Task]
    <3> DEFINE filled == [i \in DOMAIN work[t].copy |->
                            IF i \in S THEN [work[t].copy[i] EXCEPT !.info = "full"]
                            ELSE work[t].copy[i]]
    <3>1. \A i \in DOMAIN work[t].copy : [work[t].copy[i] EXCEPT !.info = "full"] \in Row
      BY <2>0 DEF Row
    <3>2. filled \in Seq(Row)
      <4>1. work[t].copy \in Seq(Row)
        BY <2>0 DEF Task
      <4>2. DOMAIN work[t].copy = 1..Len(work[t].copy) /\ Len(work[t].copy) \in Nat
        BY <4>1
      <4>3. \A i \in DOMAIN work[t].copy : filled[i] \in Row
        BY <2>0, <3>1
      <4>4. filled = [i \in DOMAIN work[t].copy |-> filled[i]]
        OBVIOUS
      <4> HIDE DEF filled
      <4>5. filled \in [1..Len(work[t].copy) -> Row]
        BY <4>2, <4>3, <4>4
      <4>6. QED
        BY <4>2, <4>5, FunctionIsSeq
    <3>3. work' = [work EXCEPT ![t].copy = filled,
                               ![t].returned = TRUE,
                               ![t].mail = IF work[t].heard THEN @ \o RowsAt(filled, S) ELSE @]
      BY <2>4 DEF Return
    <3> HIDE DEF filled
    <3>4. work[t].mail \o RowsAt(filled, S) \in Seq(Row)
      BY <2>0, <3>2, RowsAtType DEF Task
    <3>5. QED
      BY <2>0, <3>2, <3>3, <3>4 DEF Task
  <2> QED
    BY <1>7, <2>1, <2>2, <2>3, <2>4 DEF Goroutine
<1>8. ASSUME NEW t \in TaskIds, Handlers(t)
      PROVE  work' \in [TaskIds -> Task]
  <2>0. work[t] \in Task
    OBVIOUS
  <2>1. CASE JobEnriched(t)
    <3>1. Tail(work[t].mail) \in Seq(Row)
      BY <2>0, <2>1 DEF JobEnriched, Task
    <3>2. \/ work' = [work EXCEPT ![t].mail = Tail(@)]
          \/ work' = [work EXCEPT ![t].mail = <<>>, ![t].heard = FALSE]
      BY <2>1 DEF JobEnriched
    <3>3. [work[t] EXCEPT !.mail = Tail(@)] \in Task
      BY <2>0, <3>1 DEF Task
    <3>4. [work[t] EXCEPT !.mail = <<>>, !.heard = FALSE] \in Task
      BY <1>n, <2>0 DEF Task
    <3>5. QED
      BY <3>2, <3>3, <3>4
  <2>2. ASSUME Final(t)
        PROVE  work' \in [TaskIds -> Task]
    <3>1. [work[t] EXCEPT !.copy = <<>>, !.inactive = {}] \in Task
      BY <1>n, <2>0 DEF Task
    <3>2. QED
      BY <2>2, <3>1 DEF Final
  <2> QED
    BY <1>8, <2>1, <2>2 DEF Handlers, EnrichmentDone, PostingsDone, FinalDropped
<1>9. CASE BulkRefresh
  BY <1>9 DEF BulkRefresh
<1> QED
  BY <1>6, <1>7, <1>8, <1>9 DEF Next

\* Each step of the tracker is a step of the abstract slot, or leaves it alone.
LEMMA SlotStep ==
    ASSUME Next
    PROVE  [OwnershipNext]_ownershipVars
<1>1. CASE User
  BY <1>1 DEF User, FetchAnswered, DismissReview,
              SetStatus, Delete, JobEdited, OpenEditor, EditLost, AcceptReview, StartTask,
              UpdateDetails, UpdateAll, CheckPostings, OwnershipNext
<1>2. ASSUME NEW t \in TaskIds, Goroutine(t)
      PROVE  UNCHANGED ownershipVars
  BY <1>2 DEF Goroutine, EnrichJob, SkipJob, VerifyJob, Return
<1>3. ASSUME NEW t \in TaskIds, Handlers(t)
      PROVE  UNCHANGED ownershipVars \/ Settle(t) \/ Discard(t)
  BY <1>3 DEF Handlers, JobEnriched, EnrichmentDone, PostingsDone, FinalDropped
<1>4. CASE BulkRefresh
  BY <1>4 DEF BulkRefresh, OwnershipNext
<1> QED
  BY <1>1, <1>2, <1>3, <1>4 DEF Next, OwnershipNext

\* Types of the slot at the start.
LEMMA OwnershipInitType ==
    ASSUME OwnershipInit
    PROVE  OwnershipTypeOK
<1>1. 0 \in 0..MaxTasks
  BY MaxTasksAssumption
<1>2. QED
  BY <1>1 DEF OwnershipInit, OwnershipTypeOK

\* A step of the slot keeps its types.
LEMMA OwnershipTypeStep ==
    ASSUME OwnershipTypeOK, [OwnershipNext]_ownershipVars
    PROVE  OwnershipTypeOK'
<1> USE MaxTasksAssumption DEF OwnershipTypeOK, TaskIds
<1>1. CASE Take
  BY <1>1 DEF Take
<1>2. ASSUME NEW t \in TaskIds, Settle(t) \/ Discard(t)
      PROVE  OwnershipTypeOK'
  BY <1>2 DEF Settle, Discard
<1>3. CASE BulkStart
  BY <1>3 DEF BulkStart
<1>4. CASE BulkStep
  BY <1>4 DEF BulkStep
<1>5. CASE BulkFinish
  BY <1>5 DEF BulkFinish
<1>6. CASE UNCHANGED ownershipVars
  BY <1>6 DEF ownershipVars
<1> QED
  BY <1>1, <1>2, <1>3, <1>4, <1>5, <1>6 DEF OwnershipNext

\* Only an incident opens the editor.
LEMMA EditorStep ==
    ASSUME Next
    PROVE  \/ UNCHANGED editor
           \/ editor' = FALSE
           \/ editor' = TRUE /\ Incident
<1>1. CASE User
  BY <1>1 DEF User, FetchAnswered, DismissReview,
              SetStatus, Delete, JobEdited, OpenEditor, EditLost, AcceptReview, StartTask,
              UpdateDetails, UpdateAll, CheckPostings
<1>2. ASSUME NEW t \in TaskIds, Goroutine(t)
      PROVE  UNCHANGED editor
  BY <1>2 DEF Goroutine, EnrichJob, SkipJob, VerifyJob, Return
<1>3. ASSUME NEW t \in TaskIds, Handlers(t)
      PROVE  UNCHANGED editor
  BY <1>3 DEF Handlers, JobEnriched, EnrichmentDone, PostingsDone, FinalDropped
<1>4. CASE BulkRefresh
  BY <1>4 DEF BulkRefresh
<1> QED
  BY <1>1, <1>2, <1>3, <1>4 DEF Next

\* A review never holds anything but jobs.
LEMMA ReviewStep ==
    ASSUME TypeOK, Next
    PROVE  review' \subseteq Keys
<1>1. scope.keys \subseteq Keys /\ review \subseteq Keys
  BY ScopeType DEF TypeOK
<1>2. ASSUME User
      PROVE  review' \subseteq Keys
  BY <1>1, <1>2 DEF User, FetchAnswered, DismissReview, SetStatus, Delete, JobEdited, OpenEditor,
                    EditLost, AcceptReview, StartTask, UpdateDetails, UpdateAll, CheckPostings
<1>3. ASSUME NEW t \in TaskIds, Goroutine(t)
      PROVE  review' = review
  BY <1>3 DEF Goroutine, EnrichJob, SkipJob, VerifyJob, Return
<1>4. ASSUME NEW t \in TaskIds, Handlers(t)
      PROVE  review' = review
  BY <1>4 DEF Handlers, JobEnriched, EnrichmentDone, PostingsDone, FinalDropped
<1>5. ASSUME BulkRefresh
      PROVE  review' = review
  BY <1>5 DEF BulkRefresh
<1> QED
  BY <1>1, <1>2, <1>3, <1>4, <1>5 DEF Next

\* Incidents are counted by nothing else.
LEMMA IncidentStep ==
    ASSUME Next
    PROVE  UNCHANGED incidents \/ Incident
<1> USE DEF Saved, NotSaved, SaveOrNot
<1>1. CASE User
  BY <1>1 DEF User, FetchAnswered, DismissReview,
              SetStatus, Delete, JobEdited, OpenEditor, EditLost, AcceptReview, StartTask,
              UpdateDetails, UpdateAll, CheckPostings
<1>2. ASSUME NEW t \in TaskIds, Goroutine(t) \/ Handlers(t)
      PROVE  UNCHANGED incidents \/ Incident
  <2>1. CASE Goroutine(t)
    BY <2>1 DEF Goroutine, EnrichJob, SkipJob, VerifyJob, Return
  <2>2. CASE JobEnriched(t) \/ EnrichmentDone(t) \/ FinalDropped(t)
    BY <2>2 DEF JobEnriched, EnrichmentDone, FinalDropped
  <2>3. CASE PostingsDone(t)
    BY <2>3 DEF PostingsDone
  <2>4. QED
    BY <1>2, <2>1, <2>2, <2>3 DEF Handlers
<1>3. CASE BulkRefresh
  BY <1>3 DEF BulkRefresh
<1> QED
  BY <1>1, <1>2, <1>3 DEF Next

\* The types of the tracker's variables (allJobs, the jobs table, the tasks' copies
\* and messages, update_keys.go and background_task.go) hold in every behaviour.
THEOREM TrackerTypeCorrectness == Spec => []TypeOK
<1>1. Init => TypeOK
  <2> SUFFICES ASSUME Init
               PROVE  TypeOK
    OBVIOUS
  <2>1. OwnershipTypeOK
    BY OwnershipInitType DEF Init
  <2>2. store \in Seq(Row) /\ board \in Seq(Row)
    <3>1. store \in Seq(Row) /\ <<>> \in Seq(Row)
      BY BoardsAreRows DEF Init
    <3>2. QED
      BY <3>1 DEF Init
  <2>3. NoWork \in Task
    <3>1. <<>> \in Seq(Row) /\ {} \in SUBSET Keys
      OBVIOUS
    <3>2. QED
      BY <3>1 DEF NoWork, Task
  <2>4. scope.incidents \in Nat
    BY ScopeType DEF Init
  <2>5. incidents \in 0..scope.incidents
    BY <2>4 DEF Init
  <2>6. work \in [TaskIds -> Task] /\ editor \in BOOLEAN /\ scope \in Scopes /\ review \subseteq Keys
    BY <2>3 DEF Init
  <2>7. QED
    BY <2>1, <2>2, <2>5, <2>6 DEF TypeOK
<1>2. TypeOK /\ [Next]_trackerVars => TypeOK'
  <2> SUFFICES ASSUME TypeOK, [Next]_trackerVars
               PROVE  TypeOK'
    OBVIOUS
  <2>1. CASE Next
    <3>1. OwnershipTypeOK'
      BY <2>1, SlotStep, OwnershipTypeStep DEF TypeOK
    <3>2. scope' = scope
      BY <2>1 DEF Next
    <3>3. incidents' \in 0..scope.incidents
      BY <2>1, IncidentStep, ScopeType DEF TypeOK, Incident
    <3>4. editor' \in BOOLEAN
      BY <2>1, EditorStep DEF TypeOK
    <3>5. QED
      BY <2>1, <3>1, <3>2, <3>3, <3>4, RowsStep, WorkStep, ReviewStep DEF TypeOK
  <2>2. CASE UNCHANGED trackerVars
    BY <2>2 DEF trackerVars, ownershipVars, TypeOK, OwnershipTypeOK
  <2>3. QED
    BY <2>1, <2>2
<1> QED
  BY <1>1, <1>2, PTL DEF Spec

\* As long as the database answers and no row was edited by hand: the list has each
\* job once, no editor is open, and every stored job is in the list.
JobsKept ==
    incidents = 0 =>
        /\ Unique(board)
        /\ ~editor
        /\ KeysOf(store) \subseteq KeysOf(board)

\* The inductive invariant.
TrackerInv == TypeOK /\ JobsKept

\* Two lists of the same jobs at the same places.
SameJobs(rows, other) ==
    /\ DOMAIN other = DOMAIN rows
    /\ \A i \in DOMAIN rows : other[i].key = rows[i].key

\* Lists of the same jobs have the same keys, and are unique together.
LEMMA SameJobsSameKeys ==
    ASSUME NEW rows, NEW other, SameJobs(rows, other)
    PROVE  KeysOf(other) = KeysOf(rows) /\ (Unique(rows) => Unique(other))
BY DEF SameJobs, KeysOf, Unique

\* A row taken out shortens the list by one and lets no second row of a job in.
LEMMA RemoveAtShortens ==
    ASSUME NEW rows \in Seq(Row), NEW i \in DOMAIN rows
    PROVE  /\ Len(RemoveAt(rows, i)) = Len(rows) - 1
           /\ Unique(rows) => Unique(RemoveAt(rows, i))
<1>1. Len(rows) \in Nat /\ i \in 1..Len(rows)
  OBVIOUS
<1> DEFINE shorter == RemoveAt(rows, i)
       before == SubSeq(rows, 1, i - 1)
       after == SubSeq(rows, i + 1, Len(rows))
<1>b. /\ before \in Seq(Row) /\ Len(before) = i - 1
      /\ \A j \in 1..(i - 1) : before[j] = rows[j]
  BY <1>1
<1>a. /\ after \in Seq(Row) /\ Len(after) = Len(rows) - i
      /\ \A j \in 1..(Len(rows) - i) : after[j] = rows[j + i]
  BY <1>1
<1>s. shorter = before \o after
  BY DEF RemoveAt
<1> HIDE DEF before, after, shorter
<1>2. DOMAIN shorter = 1..(Len(rows) - 1) /\ Len(shorter) = Len(rows) - 1
  <2>1. Len(before \o after) = Len(rows) - 1 /\ before \o after \in Seq(Row)
    BY <1>1, <1>b, <1>a
  <2>2. QED
    BY <2>1, <1>s
<1>3. \A j \in 1..(Len(rows) - 1) : shorter[j] = rows[IF j < i THEN j ELSE j + 1]
  BY <1>1, <1>b, <1>a, <1>s
<1>4. ASSUME Unique(rows), NEW h \in DOMAIN shorter, NEW j \in DOMAIN shorter,
             shorter[h].key = shorter[j].key
      PROVE  h = j
  <2>1. /\ (IF h < i THEN h ELSE h + 1) \in DOMAIN rows
        /\ (IF j < i THEN j ELSE j + 1) \in DOMAIN rows
    BY <1>1, <1>2, <1>4
  <2>2. (IF h < i THEN h ELSE h + 1) = (IF j < i THEN j ELSE j + 1)
    BY <1>2, <1>3, <1>4, <2>1 DEF Unique
  <2>3. QED
    BY <1>1, <1>2, <1>4, <2>2
<1>5. Unique(rows) => Unique(shorter)
  BY <1>4 DEF Unique
<1>6. QED
  BY <1>2, <1>5 DEF shorter

\* A save of a list with each job once is not refused.
LEMMA SaveSucceeds ==
    ASSUME TypeOK, incidents' = 0, NEW rows, Unique(rows)
    PROVE  ~NotSaved(rows)
<1>1. incidents \in Nat
  BY ScopeType DEF TypeOK
<1>2. QED
  BY <1>1 DEF NotSaved, Incident

\* What the keys of the user that change the list do to it.
LEMMA StatusKeepsJobs ==
    ASSUME TypeOK, NEW k \in Keys, NEW s \in Statuses, SetStatus(k, s)
    PROVE  SameJobs(board, board')
<1>1. At(k) \in DOMAIN board /\ board' = [board EXCEPT ![At(k)].status = s]
  BY AtFinds DEF SetStatus, TypeOK
<1>2. board[At(k)] \in Row
  BY <1>1 DEF TypeOK
<1>3. QED
  BY <1>1, <1>2 DEF SameJobs, TypeOK, Row

\* A job that was enriched takes the place of its row.
LEMMA UpdateKeepsJobs ==
    ASSUME TypeOK, NEW row \in Row
    PROVE  SameJobs(board, Updated(row))
<1>1. CASE row.key \in KeysOf(board)
  <2>1. At(row.key) \in DOMAIN board /\ board[At(row.key)].key = row.key
    BY <1>1, AtFinds DEF TypeOK
  <2>2. QED
    BY <1>1, <2>1 DEF Updated, SameJobs, TypeOK
<1>2. CASE row.key \notin KeysOf(board)
  BY <1>2 DEF Updated, SameJobs
<1> QED
  BY <1>1, <1>2

\* A posting check expires rows that it checked, and does nothing else.
LEMMA ExpiryKeepsJobs ==
    ASSUME TypeOK, NEW t \in TaskIds, PostingsDone(t)
    PROVE  /\ SameJobs(board, board')
           /\ \A i \in DOMAIN board :
                 \/ board'[i].status = board[i].status
                 \/ board[i].status \in Checked /\ board'[i].status = "Expired"
<1>1. \A i \in DOMAIN board : board[i] \in Row
  BY DEF TypeOK
<1>2. \A i \in DOMAIN board : MarkExpired(board[i]).key = board[i].key
                              /\ MarkExpired(board[i]).status = "Expired"
  BY <1>1 DEF MarkExpired, Row
<1>3. board' = [i \in DOMAIN board |->
                  IF board[i].key \in work[t].inactive /\ NeedsCheck(board[i])
                  THEN MarkExpired(board[i]) ELSE board[i]]
  BY DEF PostingsDone
<1>4. QED
  BY <1>2, <1>3 DEF SameJobs, NeedsCheck

\* A step without incidents keeps each job in the list once, and every saved one in
\* it.
LEMMA JobsKeptStep ==
    ASSUME TrackerInv, Next
    PROVE  JobsKept'
<1> SUFFICES ASSUME incidents' = 0
             PROVE  /\ Unique(board')
                    /\ ~editor'
                    /\ KeysOf(store') \subseteq KeysOf(board')
  BY DEF JobsKept
<1> USE DEF TrackerInv
<1>0. /\ incidents = 0 /\ ~Incident
      /\ Unique(board) /\ ~editor /\ KeysOf(store) \subseteq KeysOf(board)
  BY IncidentStep, ScopeType DEF TypeOK, JobsKept, Incident
<1>1. ~editor'
  BY <1>0, EditorStep
<1>2. ASSUME SameJobs(board, board'), store' = store \/ store' = board'
      PROVE  Unique(board') /\ KeysOf(store') \subseteq KeysOf(board')
  BY <1>0, <1>2, SameJobsSameKeys
<1>3. ASSUME NEW k \in Keys, NEW s \in Statuses, SetStatus(k, s)
      PROVE  Unique(board') /\ KeysOf(store') \subseteq KeysOf(board')
  <2>1. store' = board' \/ store' = store
    BY <1>3, SaveType DEF SetStatus
  <2>2. QED
    BY <1>2, <1>3, <2>1, StatusKeepsJobs
<1>4. ASSUME NEW k \in Keys, Delete(k)
      PROVE  Unique(board') /\ KeysOf(store') \subseteq KeysOf(board')
  <2> DEFINE shorter == RemoveAt(board, At(k))
  <2>1. At(k) \in DOMAIN board
    BY <1>4, AtFinds DEF Delete, TypeOK
  <2>2. Unique(shorter)
    BY <1>0, <2>1, RemoveAtShortens DEF TypeOK
  <2>3. \/ Saved(shorter) /\ board' = shorter
        \/ NotSaved(shorter) /\ board' = Append(shorter, Last(board))
    BY <1>4 DEF Delete
  <2> HIDE DEF shorter
  <2>4. store' = shorter /\ board' = shorter
    BY <2>2, <2>3, SaveSucceeds DEF Saved
  <2>5. QED
    BY <2>2, <2>4
<1>5. ASSUME NEW k \in Keys, NEW row \in Edited, JobEdited(k, row)
      PROVE  FALSE
  BY <1>0, <1>5 DEF JobEdited
<1>6. ASSUME NEW new \in Seq(Row),
             \/ Saved(Merge(board, new)) /\ board' = Merge(board, new)
             \/ NotSaved(Merge(board, new)) /\ UNCHANGED board
      PROVE  Unique(board') /\ KeysOf(store') \subseteq KeysOf(board')
  <2>1. Unique(Merge(board, new))
    BY <1>0, MergeExtends DEF TypeOK
  <2>2. board' = Merge(board, new) /\ store' = board'
    BY <1>6, <2>1, SaveSucceeds DEF Saved
  <2>3. QED
    BY <2>1, <2>2
<1>7. ASSUME NEW new \in Reviews, AcceptReview(new)
      PROVE  Unique(board') /\ KeysOf(store') \subseteq KeysOf(board')
  <2>1. new \in Seq(Row)
    BY BoardsAreRows DEF Reviews
  <2>2. QED
    BY <1>6, <1>7, <2>1 DEF AcceptReview
<1>8. ASSUME NEW t \in TaskIds, JobEnriched(t)
      PROVE  Unique(board') /\ KeysOf(store') \subseteq KeysOf(board')
  <2>1. Head(work[t].mail) \in Row
    BY <1>8 DEF JobEnriched, TypeOK, Task
  <2>2. SameJobs(board, board')
    <3>1. SameJobs(board, board)
      BY DEF SameJobs
    <3>2. QED
      BY <1>8, <2>1, <3>1, UpdateKeepsJobs DEF JobEnriched
  <2>3. QED
    BY <1>2, <1>8, <2>2 DEF JobEnriched
<1>9. ASSUME NEW t \in TaskIds, EnrichmentDone(t)
      PROVE  Unique(board') /\ KeysOf(store') \subseteq KeysOf(board')
  <2>1. work[t].copy \in Seq(Row)
    BY DEF TypeOK, Task
  <2>2. QED
    BY <1>6, <1>9, <2>1 DEF EnrichmentDone
<1>10. ASSUME NEW t \in TaskIds, PostingsDone(t)
       PROVE  Unique(board') /\ KeysOf(store') \subseteq KeysOf(board')
  <2>1. store' = board' \/ store' = store
    BY <1>10, SaveType DEF PostingsDone
  <2>2. QED
    BY <1>2, <1>10, <2>1, ExpiryKeepsJobs
<1>11. CASE UNCHANGED <<board, store>>
  BY <1>0, <1>1, <1>11
<1>12. CASE User
  <2>1. scope.keys \subseteq Keys
    BY ScopeType DEF TypeOK
  <2>2. QED
    BY <1>1, <1>12, <2>1, <1>3, <1>4, <1>5, <1>7, <1>11
       DEF User, FetchAnswered, DismissReview,
           OpenEditor, EditLost, UpdateDetails, UpdateAll, CheckPostings, StartTask
<1>13. ASSUME NEW t \in TaskIds, Goroutine(t) \/ Handlers(t)
       PROVE  Unique(board') /\ KeysOf(store') \subseteq KeysOf(board')
  <2>1. CASE Goroutine(t)
    BY <2>1, <1>11 DEF Goroutine, EnrichJob, SkipJob, VerifyJob, Return
  <2>2. CASE FinalDropped(t)
    BY <2>2, <1>11 DEF FinalDropped
  <2>3. QED
    BY <1>13, <2>1, <2>2, <1>8, <1>9, <1>10 DEF Handlers
<1>14. CASE BulkRefresh
  BY <1>11, <1>14 DEF BulkRefresh
<1> QED
  BY <1>1, <1>12, <1>13, <1>14 DEF Next

\* The inductive invariant of the list and the table.
THEOREM TrackerInvariance == Spec => []TrackerInv
<1>1. Init => JobsKept
  BY BoardsAreRows DEF Init, JobsKept
<1>2. TypeOK /\ JobsKept /\ [Next]_trackerVars => JobsKept'
  <2>1. ASSUME TypeOK, JobsKept, UNCHANGED trackerVars PROVE JobsKept'
    BY <2>1 DEF trackerVars, JobsKept
  <2>2. QED
    BY <2>1, JobsKeptStep DEF TrackerInv
<1> QED
  BY <1>1, <1>2, TrackerTypeCorrectness, PTL DEF Spec, TrackerInv

\* A job is in the list once, as long as the database answers and nothing was
\* edited by hand (MergeJobs looks jobs up, the handlers replace rows in place).
THEOREM UniqueRowsTheorem == Spec => []UniqueRows
<1>1. TrackerInv => UniqueRows
  BY DEF TrackerInv, JobsKept, UniqueRows
<1> QED
  BY <1>1, TrackerInvariance, PTL

\* A job that was saved leaves the table only by "D" or an edit, as long as the
\* database answers (no task saves a list taken before the job was added).
THEOREM NoJobVanishesTheorem == Spec => NoJobVanishes
<1>1. ASSUME TrackerInv, [Next]_trackerVars, incidents' = 0, KeysOf(store) \ KeysOf(store') # {}
      PROVE  Len(board') = Len(board) - 1
  <2>0. /\ store' # store
        /\ incidents = 0 /\ KeysOf(store) \subseteq KeysOf(board) /\ Next
        /\ Unique(board) /\ ~editor
    <3>1. Next
      BY <1>1 DEF trackerVars
    <3>2. QED
      BY <1>1, <3>1, IncidentStep, ScopeType DEF TrackerInv, TypeOK, JobsKept, Incident
  <2>1. ASSUME SameJobs(board, board'), store' = store \/ store' = board'
        PROVE  FALSE
    BY <1>1, <2>0, <2>1, SameJobsSameKeys
  <2>2. ASSUME NEW new \in Seq(Row),
               \/ Saved(Merge(board, new)) /\ board' = Merge(board, new)
               \/ NotSaved(Merge(board, new))
        PROVE  FALSE
    <3>1. KeysOf(board) \subseteq KeysOf(Merge(board, new))
      BY <1>1, <2>2, MergeExtends DEF TrackerInv, TypeOK
    <3>2. store' = Merge(board, new)
      BY <2>0, <2>2 DEF Saved, NotSaved
    <3>3. QED
      BY <1>1, <2>0, <3>1, <3>2
  <2>3. ASSUME NEW k \in Keys, NEW s \in Statuses, SetStatus(k, s)
        PROVE  FALSE
    <3>1. store' = board' \/ store' = store
      BY <2>3, SaveType DEF SetStatus
    <3>2. QED
      BY <1>1, <2>1, <2>3, <3>1, StatusKeepsJobs DEF TrackerInv
  <2>4. ASSUME NEW k \in Keys, Delete(k)
        PROVE  Len(board') = Len(board) - 1
    <3> DEFINE shorter == RemoveAt(board, At(k))
    <3>1. At(k) \in DOMAIN board /\ board \in Seq(Row)
      BY <1>1, <2>4, AtFinds DEF Delete, TrackerInv, TypeOK
    <3>2. Len(shorter) = Len(board) - 1
      BY <3>1, RemoveAtShortens
    <3>3. board' = shorter
      BY <2>0, <2>4 DEF Delete, NotSaved
    <3> HIDE DEF shorter
    <3>4. QED
      BY <3>2, <3>3
  <2>5. ASSUME NEW new \in Reviews, AcceptReview(new)
        PROVE  FALSE
    <3>1. new \in Seq(Row)
      BY BoardsAreRows DEF Reviews
    <3>2. QED
      BY <2>2, <2>5, <3>1 DEF AcceptReview
  <2>6. ASSUME NEW t \in TaskIds, EnrichmentDone(t)
        PROVE  FALSE
    <3>1. work[t].copy \in Seq(Row)
      BY <1>1 DEF TrackerInv, TypeOK, Task
    <3>2. QED
      BY <2>2, <2>6, <3>1 DEF EnrichmentDone
  <2>7. ASSUME NEW t \in TaskIds, PostingsDone(t)
        PROVE  FALSE
    <3>1. store' = board' \/ store' = store
      BY <2>7, SaveType DEF PostingsDone
    <3>2. QED
      BY <1>1, <2>1, <2>7, <3>1, ExpiryKeepsJobs DEF TrackerInv
  <2>8. CASE User
    <3>1. scope.keys \subseteq Keys
      BY <1>1, ScopeType DEF TrackerInv, TypeOK
    <3>2. QED
      BY <2>0, <2>8, <2>3, <2>4, <2>5, <3>1
         DEF User, FetchAnswered, DismissReview,
             JobEdited, OpenEditor, EditLost, UpdateDetails, UpdateAll, CheckPostings, StartTask
  <2>9. ASSUME NEW t \in TaskIds, Goroutine(t) \/ Handlers(t)
        PROVE  FALSE
    <3>1. CASE Goroutine(t)
      BY <2>0, <3>1 DEF Goroutine, EnrichJob, SkipJob, VerifyJob, Return
    <3>2. CASE JobEnriched(t) \/ FinalDropped(t)
      BY <2>0, <3>2 DEF JobEnriched, FinalDropped
    <3>3. QED
      BY <2>9, <3>1, <3>2, <2>6, <2>7 DEF Handlers
  <2>10. CASE BulkRefresh
    BY <2>0, <2>10 DEF BulkRefresh
  <2> QED
    BY <2>0, <2>8, <2>9, <2>10 DEF Next
<1>2. TrackerInv /\ [Next]_trackerVars
        => [incidents' = 0 /\ KeysOf(store) \ KeysOf(store') # {} =>
               Len(board') = Len(board) - 1]_trackerVars
  BY <1>1
<1> QED
  BY <1>2, TrackerInvariance, PTL DEF Spec, NoJobVanishes

\* The end of a task never undoes a status the user gave meanwhile, in whatever
\* state the tasks and the list are (MergeJobs fills rows, and
\* handlePostingValidationCompleteMsg expires only postings that are checked).
THEOREM FinishedTaskKeepsStatusTheorem == Spec => FinishedTaskKeepsStatus
<1> DEFINE Kept(i) == /\ i \in DOMAIN board' /\ board'[i].key = board[i].key
                      /\ \/ board'[i].status = board[i].status
                         \/ board[i].status \in Checked /\ board'[i].status = "Expired"
<1>1. ASSUME TypeOK, [Next]_trackerVars, stage' # stage
      PROVE  \A i \in DOMAIN board : Kept(i)
  <2>0. Next
    BY <1>1 DEF trackerVars, ownershipVars
  <2>1. ASSUME NEW new \in Seq(Row), board' = Merge(board, new) \/ UNCHANGED board
        PROVE  \A i \in DOMAIN board : Kept(i)
    <3>1. Extends(board, Merge(board, new))
      BY <1>1, <2>1, MergeExtends DEF TypeOK
    <3>2. QED
      BY <2>1, <3>1 DEF Extends
  <2>2. CASE User
    <3>1. ASSUME NEW new \in Reviews, AcceptReview(new)
          PROVE  \A i \in DOMAIN board : Kept(i)
      <4>1. new \in Seq(Row)
        BY BoardsAreRows DEF Reviews
      <4>2. QED
        BY <2>1, <3>1, <4>1 DEF AcceptReview
    <3>2. CASE UNCHANGED board
      BY <3>2
    <3> HIDE DEF Kept
    <3>3. QED
      BY <1>1, <2>2, <3>1, <3>2
         DEF User, FetchAnswered, DismissReview,
             SetStatus, Delete, JobEdited, OpenEditor, EditLost, UpdateDetails, UpdateAll,
             CheckPostings, StartTask, ownershipVars
  <2>3. ASSUME NEW t \in TaskIds, Goroutine(t)
        PROVE  FALSE
    BY <1>1, <2>3 DEF Goroutine, EnrichJob, SkipJob, VerifyJob, Return, ownershipVars
  <2>4. ASSUME NEW t \in TaskIds, Handlers(t)
        PROVE  \A i \in DOMAIN board : Kept(i)
    <3>1. CASE EnrichmentDone(t)
      <4>1. work[t].copy \in Seq(Row)
        BY <1>1 DEF TypeOK, Task
      <4>2. QED
        BY <2>1, <3>1, <4>1 DEF EnrichmentDone
    <3>2. CASE PostingsDone(t)
      BY <1>1, <3>2, ExpiryKeepsJobs DEF SameJobs
    <3>3. CASE JobEnriched(t)
      BY <1>1, <3>3 DEF JobEnriched, ownershipVars
    <3>4. CASE FinalDropped(t)
      BY <3>4 DEF FinalDropped
    <3>5. QED
      BY <2>4, <3>1, <3>2, <3>3, <3>4 DEF Handlers
  <2>5. CASE BulkRefresh
    BY <2>5 DEF BulkRefresh
  <2> QED
    BY <2>0, <2>2, <2>3, <2>4, <2>5 DEF Next
<1>2. TypeOK /\ [Next]_trackerVars
        => [stage' # stage => \A i \in DOMAIN board : Kept(i)]_trackerVars
  BY <1>1
<1> QED
  BY <1>2, TrackerTypeCorrectness, PTL DEF Spec, FinishedTaskKeepsStatus

\* As long as the database answers, the end of an enrichment leaves the table and
\* the list alike (handleAcceptedFetchEnrichedMsg saves the merged list).
THEOREM FinishedTaskIsSavedTheorem == Spec => FinishedTaskIsSaved
<1> DEFINE Ended(t) == /\ stage[t] = "working" /\ stage'[t] = "settled"
                       /\ work[t].kind = "enrich" /\ incidents' = 0
<1>1. ASSUME TrackerInv, [Next]_trackerVars, NEW t \in TaskIds, Ended(t)
      PROVE  store' = board'
  <2>0. Next
    BY <1>1 DEF trackerVars, ownershipVars
  <2>1. incidents = 0 /\ Unique(board)
    BY <1>1, <2>0, IncidentStep, ScopeType DEF TrackerInv, TypeOK, JobsKept, Incident
  <2>2. CASE EnrichmentDone(t)
    <3>1. work[t].copy \in Seq(Row)
      BY <1>1 DEF TrackerInv, TypeOK, Task
    <3>2. Unique(Merge(board, work[t].copy))
      BY <1>1, <2>1, <3>1, MergeExtends DEF TrackerInv, TypeOK
    <3>3. ~NotSaved(Merge(board, work[t].copy))
      BY <1>1, <3>2, SaveSucceeds DEF TrackerInv
    <3>4. QED
      BY <2>2, <3>3 DEF EnrichmentDone, Saved
  <2>3. ASSUME ~EnrichmentDone(t)
        PROVE  FALSE
    <3>1. stage \in [TaskIds -> {"none", "working", "settled", "discarded"}]
      BY <1>1 DEF TrackerInv, TypeOK, OwnershipTypeOK
    <3>2. CASE User
      BY <1>1, <3>1, <3>2
         DEF User, FetchAnswered, DismissReview,
             SetStatus, Delete, JobEdited, OpenEditor, EditLost, UpdateDetails, UpdateAll,
             CheckPostings, StartTask, AcceptReview, Take, ownershipVars, TaskIds
    <3>3. ASSUME NEW u \in TaskIds, Goroutine(u)
          PROVE  FALSE
      BY <1>1, <3>3 DEF Goroutine, EnrichJob, SkipJob, VerifyJob, Return, ownershipVars
    <3>4. ASSUME NEW u \in TaskIds, Handlers(u)
          PROVE  FALSE
      <4>1. CASE u = t
        BY <1>1, <2>3, <3>1, <3>4, <4>1
           DEF Handlers, JobEnriched, PostingsDone, FinalDropped, Discard, ownershipVars
      <4>2. CASE u # t
        BY <1>1, <3>1, <3>4, <4>2
           DEF Handlers, JobEnriched, EnrichmentDone, PostingsDone, FinalDropped, Settle, Discard,
               ownershipVars
      <4> QED
        BY <4>1, <4>2
    <3>5. CASE BulkRefresh
      BY <1>1, <3>5 DEF BulkRefresh, BulkStart, BulkStep, BulkFinish
    <3> QED
      BY <2>0, <3>2, <3>3, <3>4, <3>5 DEF Next
  <2> QED
    BY <2>2, <2>3
<1>2. TrackerInv /\ [Next]_trackerVars
        => [\A t \in TaskIds : Ended(t) => store' = board']_trackerVars
  BY <1>1
<1> QED
  BY <1>2, TrackerInvariance, PTL DEF Spec, FinishedTaskIsSaved

\* Every behaviour of the tracker is one of the slot: the jobs' part never touches
\* who owns the slot, and a task starts and ends by the slot's rules.
THEOREM TrackerKeepsSlotRules == Spec => OwnershipSpec
<1>1. Init => OwnershipInit
  BY DEF Init
<1>2. [Next]_trackerVars => [OwnershipNext]_ownershipVars
  BY SlotStep DEF trackerVars, ownershipVars
<1> QED
  BY <1>1, <1>2, PTL DEF Spec, OwnershipSpec

=============================================================================
