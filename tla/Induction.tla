------------------------------ MODULE Induction ------------------------------
(***************************************************************************)
(* Induction over natural numbers as a fact about sets, and what a fold    *)
(* over a sequence computes.  The induction theorems of the library take   *)
(* the formula as a parameter; these take the set of the numbers it holds  *)
(* of, and follow from the well-foundedness of the finite sets.            *)
(***************************************************************************)
EXTENDS Naturals, Sequences, SequencesExt, FiniteSetTheorems, TLAPS

\* A set of numbers has a least one.
LEMMA LeastNumber ==
  ASSUME NEW T \in SUBSET Nat, T # {}
  PROVE  \E m \in T : \A n \in T : m <= n
<1> DEFINE R == StrictSubsetOrdering(Nat)
           U == {1..n : n \in T}
<1>1. IsWellFoundedOn(R, FiniteSubsetsOf(Nat))
  BY FS_StrictSubsetOrderingWellFounded
<1>2. \A n \in Nat : 1..n \subseteq Nat /\ IsFiniteSet(1..n)
  BY FS_Interval
<1>3. U \subseteq FiniteSubsetsOf(Nat) /\ U # {}
  BY <1>2 DEF FiniteSubsetsOf
<1>4. \E x \in U : \A y \in U : <<y, x>> \notin R
  <2> HIDE DEF R, U
  <2> QED BY <1>1, <1>3, WFMin
<1>5. PICK m \in T : \A n \in T : <<1..n, 1..m>> \notin R
  BY <1>4
<1>6. ASSUME NEW n \in T, n < m PROVE FALSE
  <2>1. 1..n \subseteq 1..m /\ m \in 1..m /\ m \notin 1..n
    BY <1>6
  <2>2. <<1..n, 1..m>> \in R
    BY <2>1, <1>2 DEF StrictSubsetOrdering
  <2>3. QED
    BY <2>2, <1>5
<1>7. QED
  BY <1>6

\* A set with 0 that has the successors of its numbers below N has all up to N.
LEMMA CountingUp ==
  ASSUME NEW N \in Nat, NEW S, 0 \in S, \A n \in 0..N : n \in S /\ n < N => n + 1 \in S
  PROVE  0..N \subseteq S
<1> DEFINE T == {n \in 0..N : n \notin S}
<1> SUFFICES ASSUME T # {} PROVE FALSE
  OBVIOUS
<1>1. T \in SUBSET Nat
  OBVIOUS
<1>2. PICK m \in T : \A n \in T : m <= n
  BY <1>1, LeastNumber
<1>3. m # 0 /\ m - 1 \in 0..N /\ m - 1 \notin T
  BY <1>2
<1>4. (m - 1) + 1 \in S
  BY <1>3
<1>5. QED
  BY <1>2, <1>4

\* A set of numbers up to N has a greatest one, which Max finds.
LEMMA GreatestNumber ==
  ASSUME NEW N \in Nat, NEW s \in SUBSET (1..N), s # {}
  PROVE  Max(s) \in s /\ \A n \in s : n <= Max(s)
<1> DEFINE T == {N - n : n \in s}
<1>0. \A n \in s : n \in Nat /\ N - n \in Nat
  OBVIOUS
<1>1. T \subseteq Nat /\ T # {}
  BY <1>0
<1>2. PICK m \in T : \A n \in T : m <= n
  BY <1>1, LeastNumber
<1>3. PICK x \in s : m = N - x
  BY <1>2
<1>4. \A y \in s : x >= y
  <2> TAKE y \in s
  <2>1. m <= N - y
    BY <1>2
  <2>2. QED
    BY <1>0, <1>3, <2>1
<1>5. QED
  BY <1>4 DEF Max

\* The greatest of the first N numbers, and what is left without it.
LEMMA MaxOfInterval == ASSUME NEW N \in Nat, N > 0 PROVE Max(1..N) = N /\ (1..N) \ {N} = 1..(N - 1)
<1>1. 1..N \in SUBSET (1..N) /\ 1..N # {} /\ N \in 1..N
  OBVIOUS
<1>2. Max(1..N) \in 1..N /\ N <= Max(1..N)
  BY <1>1, GreatestNumber
<1>3. QED
  BY <1>2

\* The function over the sets of numbers up to N by which FoldLeft is defined: the
\* greatest number's step is taken last.
Folds(g, N, V, base, step) ==
  /\ g \in [SUBSET (1..N) -> V]
  /\ \A s \in SUBSET (1..N) :
       g[s] = IF s = {} THEN base ELSE step[Max(s)][g[s \ {Max(s)}]]

\* It exists.
LEMMA FoldExists ==
  ASSUME NEW N \in Nat, NEW V, NEW base \in V, NEW step \in [1..N -> [V -> V]]
  PROVE  \E g : Folds(g, N, V, base, step)
<1> DEFINE S == {n \in 0..N : \E g : Folds(g, n, V, base, step)}
<1>1. 0 \in S
  <2>1. \A s \in SUBSET (1..0) : s = {}
    OBVIOUS
  <2>2. Folds([s \in SUBSET (1..0) |-> base], 0, V, base, step)
    BY <2>1 DEF Folds
  <2>3. QED
    BY <2>2
<1>2. ASSUME NEW n \in 0..N, n \in S, n < N
      PROVE  n + 1 \in S
  <2>1. PICK g : Folds(g, n, V, base, step)
    BY <1>2
  <2> DEFINE h == [s \in SUBSET (1..(n + 1)) |->
                     IF s = {} THEN base ELSE step[Max(s)][g[s \ {Max(s)}]]]
  <2>2. ASSUME NEW s \in SUBSET (1..(n + 1)), s # {}
        PROVE  Max(s) \in 1..N /\ s \ {Max(s)} \in SUBSET (1..n)
    <3>1. n + 1 \in Nat /\ n + 1 <= N
      BY <1>2
    <3>2. Max(s) \in s /\ \A m \in s : m <= Max(s)
      BY <2>2, <3>1, GreatestNumber
    <3>3. Max(s) \in 1..N
      <4>1. Max(s) \in 1..(n + 1)
        BY <3>2
      <4>2. QED
        BY <3>1, <4>1
    <3>4. ASSUME NEW m \in s, m # Max(s) PROVE m \in 1..n
      <4>1. m \in 1..(n + 1) /\ Max(s) \in 1..(n + 1) /\ m <= Max(s)
        BY <3>2
      <4>2. QED
        BY <4>1, <3>4, <3>1
    <3>5. QED
      BY <3>3, <3>4
  <2>3. h \in [SUBSET (1..(n + 1)) -> V]
    <3>1. ASSUME NEW s \in SUBSET (1..(n + 1)), s # {}
          PROVE  step[Max(s)][g[s \ {Max(s)}]] \in V
      <4>1. g[s \ {Max(s)}] \in V /\ step[Max(s)] \in [V -> V]
        BY <2>1, <2>2, <3>1 DEF Folds
      <4>2. QED
        BY <4>1
    <3>2. QED
      BY <3>1
  <2>4. ASSUME NEW s \in SUBSET (1..n)
        PROVE  h[s] = g[s]
    <3>1. s \in SUBSET (1..(n + 1))
      OBVIOUS
    <3>2. QED
      BY <2>1, <3>1 DEF Folds
  <2>5. ASSUME NEW s \in SUBSET (1..(n + 1))
        PROVE  h[s] = IF s = {} THEN base ELSE step[Max(s)][h[s \ {Max(s)}]]
    BY <2>2, <2>4
  <2>6. Folds(h, n + 1, V, base, step)
    <3> HIDE DEF h
    <3> QED BY <2>3, <2>5 DEF Folds
  <2>7. QED
    BY <2>6, <1>2
<1>3. N \in S
  <2> HIDE DEF S
  <2>1. 0..N \subseteq S
    BY <1>1, <1>2, CountingUp
  <2>2. QED
    BY <2>1
<1>4. QED
  BY <1>3

\* A function over sets of numbers that takes these steps wherever it has a value of V.
FoldSteps(iter, N, V, base, step) ==
  /\ iter[{}] = base
  /\ \A s \in SUBSET (1..N) :
       s # {} /\ iter[s \ {Max(s)}] \in V => iter[s] = step[Max(s)][iter[s \ {Max(s)}]]

\* The values of a fold, one after the other.
Chain(h, N, V, base, step) ==
  /\ h \in [0..N -> V]
  /\ h[0] = base
  /\ \A k \in 1..N : h[k] = step[k][h[k - 1]]

\* The sets 1..k are those at which such a function is evaluated in the end.
LEMMA FoldChain ==
  ASSUME NEW N \in Nat, NEW V, NEW base \in V, NEW step \in [1..N -> [V -> V]],
         NEW iter, FoldSteps(iter, N, V, base, step)
  PROVE  \E h : Chain(h, N, V, base, step) /\ h[N] = iter[1..N]
<1> DEFINE h == [k \in 0..N |-> iter[1..k]]
           S == {k \in 0..N : h[k] \in V}
<1>1. 0 \in 0..N /\ N \in 0..N /\ 1..0 = {}
  OBVIOUS
<1>2. h[0] = base /\ h[N] = iter[1..N]
  BY <1>1 DEF FoldSteps
<1>3. ASSUME NEW k \in 1..N, h[k - 1] \in V
      PROVE  h[k] = step[k][h[k - 1]]
  <2>1. k \in Nat /\ k > 0 /\ k \in 0..N /\ k - 1 \in 0..N
    BY <1>3
  <2>2. Max(1..k) = k /\ (1..k) \ {k} = 1..(k - 1)
    BY <2>1, MaxOfInterval
  <2>3. 1..k \in SUBSET (1..N) /\ 1..k # {}
    <3>1. k \in 1..k /\ \A j \in 1..k : j \in 1..N
      BY <1>3, <2>1
    <3> QED BY <3>1
  <2>4. h[k] = iter[1..k] /\ h[k - 1] = iter[1..(k - 1)]
    BY <2>1
  <2> HIDE DEF h
  <2>5. iter[(1..k) \ {Max(1..k)}] \in V
    BY <1>3, <2>2, <2>4
  <2>6. iter[1..k] = step[Max(1..k)][iter[(1..k) \ {Max(1..k)}]]
    BY <2>3, <2>5 DEF FoldSteps
  <2> QED BY <2>2, <2>4, <2>6
<1>4. 0 \in S
  BY <1>1, <1>2
<1>5. ASSUME NEW k \in 0..N, k \in S, k < N
      PROVE  k + 1 \in S
  <2>1. k + 1 \in 1..N /\ k + 1 \in 0..N /\ (k + 1) - 1 = k
    BY <1>5
  <2>2. h[k + 1] = step[k + 1][h[k]] /\ h[k] \in V
    <3> HIDE DEF h
    <3> QED BY <1>3, <1>5, <2>1
  <2>3. step[k + 1] \in [V -> V]
    BY <2>1
  <2> HIDE DEF h
  <2> QED BY <2>1, <2>2, <2>3
<1>6. 0..N \subseteq S
  <2> HIDE DEF S, h
  <2> QED BY <1>4, <1>5, CountingUp
<1>7. h \in [0..N -> V] /\ \A k \in 1..N : h[k - 1] \in V
  <2>1. \A k \in 1..N : k - 1 \in 0..N
    OBVIOUS
  <2>2. \A k \in 0..N : h[k] \in V
    <3> HIDE DEF h
    <3> QED BY <1>6
  <2> QED BY <2>1, <2>2
<1> HIDE DEF h
<1> QED
  BY <1>2, <1>3, <1>7 DEF Chain

\* Sets that grow by a[k] with each step end as the union of all a[k].
Growth(c, a, N) == c[0] = {} /\ \A k \in 1..N : c[k] = c[k - 1] \cup a[k]

\* Such sets are the union of what was added.
LEMMA UnionOfSteps ==
  ASSUME NEW N \in Nat, NEW c, NEW a, Growth(c, a, N)
  PROVE  c[N] = UNION {a[k] : k \in 1..N}
<1> USE DEF Growth
<1> DEFINE S == {k \in 0..N : c[k] = UNION {a[i] : i \in 1..k}}
<1>1. 0 \in S
  <2>1. 0 \in 0..N /\ 1..0 = {}
    OBVIOUS
  <2> QED BY <2>1
<1>2. ASSUME NEW k \in 0..N, k \in S, k < N
      PROVE  k + 1 \in S
  <2>1. k + 1 \in 1..N /\ k + 1 \in 0..N /\ (k + 1) - 1 = k
    BY <1>2
  <2>2. 1..(k + 1) = (1..k) \cup {k + 1}
    BY <1>2
  <2>3. c[k + 1] = c[k] \cup a[k + 1]
    BY <2>1
  <2>4. UNION {a[i] : i \in 1..(k + 1)} = (UNION {a[i] : i \in 1..k}) \cup a[k + 1]
    <3> DEFINE T == 1..k
    <3>1. 1..(k + 1) = T \cup {k + 1}
      BY <2>2
    <3> HIDE DEF T
    <3> QED BY <3>1
  <2> QED BY <1>2, <2>1, <2>3, <2>4
<1>3. N \in S
  <2> HIDE DEF S
  <2>1. 0..N \subseteq S
    BY <1>1, <1>2, CountingUp
  <2> QED BY <2>1
<1> QED BY <1>3
=============================================================================
