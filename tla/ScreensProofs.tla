---------------------------- MODULE ScreensProofs ----------------------------
(***************************************************************************)
(* Proofs about the terminal UI, for any jobs, statuses, searches, lines   *)
(* and forms: the list shows the rows as they are, no cursor leaves its    *)
(* list, and a completion of a command that runs makes one that runs.      *)
(***************************************************************************)
EXTENDS Screens, Induction, TLAPS

-----------------------------------------------------------------------------
(* What the list shows.                                                    *)

\* The place of each element of a set in an order of pairs.
PlaceIn(H, R) == [i \in H |-> Cardinality({j \in H : <<j, i>> \in R}) + 1]

\* In a strict order of a finite set every place is taken, by one element.
LEMMA PlacesAreTaken ==
    ASSUME NEW H, IsFiniteSet(H), NEW R,
           \A i, j \in H : i = j \/ <<i, j>> \in R \/ <<j, i>> \in R,
           \A i \in H : <<i, i>> \notin R,
           \A i, j, k \in H : <<i, j>> \in R /\ <<j, k>> \in R => <<i, k>> \in R
    PROVE  /\ PlaceIn(H, R) \in [H -> 1..Cardinality(H)]
           /\ \A i, j \in H : PlaceIn(H, R)[i] = PlaceIn(H, R)[j] => i = j
           /\ \A n \in 1..Cardinality(H) : \E i \in H : PlaceIn(H, R)[i] = n
<1> DEFINE B(i) == {j \in H : <<j, i>> \in R}
           place == [i \in H |-> Cardinality(B(i)) + 1]
           N == Cardinality(H)
<1>1. N \in Nat
  BY FS_CardinalityType
<1>2. ASSUME NEW i \in H
      PROVE  IsFiniteSet(B(i)) /\ Cardinality(B(i)) \in Nat /\ Cardinality(B(i)) < N
  <2>1. B(i) \in SUBSET H /\ B(i) # H
    OBVIOUS
  <2> HIDE DEF B
  <2>2. IsFiniteSet(B(i)) /\ Cardinality(B(i)) \in Nat
    BY <2>1, FS_Subset, FS_CardinalityType
  <2>3. Cardinality(B(i)) <= N /\ Cardinality(B(i)) # N
    BY <2>1, FS_Subset
  <2> QED BY <2>2, <2>3, <1>1
<1>3. ASSUME NEW i \in H, NEW j \in H, <<i, j>> \in R
      PROVE  Cardinality(B(i)) < Cardinality(B(j))
  <2>1. B(i) \in SUBSET B(j) /\ i \in B(j) /\ i \notin B(i)
    BY <1>3
  <2> HIDE DEF B
  <2>2. Cardinality(B(i)) <= Cardinality(B(j)) /\ Cardinality(B(i)) # Cardinality(B(j))
    BY <2>1, <1>2, FS_Subset
  <2> QED BY <2>2, <1>2
<1>4. place \in Injection(H, 1..N)
  <2>1. \A i \in H : place[i] \in 1..N
    <3> HIDE DEF B
    <3> QED BY <1>1, <1>2
  <2>2. ASSUME NEW i \in H, NEW j \in H, place[i] = place[j] PROVE i = j
    <3> HIDE DEF B
    <3>1. Cardinality(B(i)) \in Nat /\ Cardinality(B(j)) \in Nat
      BY <1>2
    <3>2. Cardinality(B(i)) = Cardinality(B(j))
      BY <2>2, <3>1
    <3>3. <<i, j>> \notin R /\ <<j, i>> \notin R
      BY <1>3, <3>1, <3>2
    <3> QED BY <3>3
  <2> HIDE DEF place
  <2>3. place \in [H -> 1..N]
    BY <2>1 DEF place
  <2> QED BY <2>2, <2>3 DEF Injection, IsInjective
<1>5. IsFiniteSet(1..N) /\ Cardinality(1..N) = N
  <2>1. N - 1 + 1 = N
    BY <1>1
  <2> QED BY <1>1, <2>1, FS_Interval
<1>6. place \in Surjection(H, 1..N)
  <2> HIDE DEF place, N
  <2> QED BY <1>4, <1>5, FS_Injection DEF N
<1> HIDE DEF place
<1>7. place = PlaceIn(H, R)
  BY DEF place, PlaceIn
<1>8. \A n \in 1..N : \E i \in H : place[i] = n
  BY <1>6 DEF Surjection
<1>9. place \in [H -> 1..N] /\ \A i, j \in H : place[i] = place[j] => i = j
  BY <1>4 DEF Injection, IsInjective
<1> QED BY <1>7, <1>8, <1>9

\* Rows are sorted by numbers.
LEMMA KeyIsNumber ==
    ASSUME NEW by \in SortKeys, NEW row \in Row, NEW scores \in [Jobs -> Nat]
    PROVE  KeyOf(by, row, scores) \in Int
<1>0. row.job \in Jobs /\ row.status \in Range(Statuses)
  BY DEF Row
<1>1. CASE by = "health"
  BY <1>0, <1>1 DEF KeyOf
<1>2. CASE by = "status"
  <2>1. \E i \in DOMAIN Statuses : Statuses[i] = row.status
    BY <1>0 DEF Range
  <2>2. (CHOOSE i \in DOMAIN Statuses : Statuses[i] = row.status) \in DOMAIN Statuses
    BY <2>1
  <2>3. DOMAIN Statuses \subseteq Int
    BY JobListAssumption
  <2> QED BY <1>2, <2>2, <2>3 DEF KeyOf
<1>3. CASE by \notin {"health", "status"}
  BY <1>0, <1>3, JobListAssumption DEF KeyOf
<1> QED BY <1>1, <1>2, <1>3

\* The list shows the rows that match and no other.
LEMMA SortedShowsMatches ==
    ASSUME NEW l, l.rows \in Seq(Row), l.by \in SortKeys, NEW scores \in [Jobs -> Nat]
    PROVE  /\ Sorted(l, scores) \in Seq(Row)
           /\ Range(Sorted(l, scores)) = {row \in Range(l.rows) : Matches(l, row)}
           /\ Len(Sorted(l, scores)) <= Len(l.rows)
<1> DEFINE hits == {i \in DOMAIN l.rows : Matches(l, l.rows[i])}
           key(i) == KeyOf(l.by, l.rows[i], scores)
           before(i, j) == \/ IF l.desc THEN key(i) > key(j) ELSE key(i) < key(j)
                           \/ key(i) = key(j) /\ i < j
           place(i) == Cardinality({j \in hits : before(j, i)}) + 1
           at(n) == CHOOSE i \in hits : place(i) = n
           N == Cardinality(hits)
           s == [n \in 1..N |-> l.rows[at(n)]]
<1>0. Sorted(l, scores) = s
  BY DEF Sorted
<1>1. DOMAIN l.rows = 1..Len(l.rows) /\ Len(l.rows) \in Nat /\ \A i \in DOMAIN l.rows : l.rows[i] \in Row
  OBVIOUS
<1>2. IsFiniteSet(hits) /\ N \in Nat /\ N <= Len(l.rows)
  <2>1. IsFiniteSet(1..Len(l.rows)) /\ Cardinality(1..Len(l.rows)) = Len(l.rows)
    <3>1. Len(l.rows) - 1 + 1 = Len(l.rows)
      BY <1>1
    <3> QED BY <1>1, <3>1, FS_Interval
  <2>2. hits \in SUBSET (1..Len(l.rows))
    BY <1>1
  <2> HIDE DEF hits
  <2> QED BY <2>1, <2>2, FS_Subset, FS_CardinalityType
<1>3. \A i \in hits : key(i) \in Int /\ i \in Int
  <2>1. \A i \in hits : l.rows[i] \in Row /\ i \in Int
    BY <1>1
  <2> HIDE DEF hits
  <2> QED BY <2>1, KeyIsNumber
<1>4. /\ \A i \in hits : place(i) \in 1..N
      /\ \A i, j \in hits : place(i) = place(j) => i = j
      /\ \A n \in 1..N : \E i \in hits : place(i) = n
  <2> DEFINE R == {p \in hits \X hits : before(p[1], p[2])}
  <2>1. \A i, j \in hits : <<i, j>> \in R <=> before(i, j)
    <3> HIDE DEF hits, before
    <3> QED OBVIOUS
  <2>2. \A i, j \in hits : i = j \/ before(i, j) \/ before(j, i)
    <3> HIDE DEF hits, key
    <3> QED BY <1>3
  <2>3. \A i \in hits : ~before(i, i)
    <3> HIDE DEF hits, key
    <3> QED BY <1>3
  <2>4. \A i, j, k \in hits : before(i, j) /\ before(j, k) => before(i, k)
    <3> HIDE DEF hits, key
    <3> QED BY <1>3
  <2> HIDE DEF hits, before, R
  <2>5. /\ \A i, j \in hits : i = j \/ <<i, j>> \in R \/ <<j, i>> \in R
        /\ \A i \in hits : <<i, i>> \notin R
        /\ \A i, j, k \in hits : <<i, j>> \in R /\ <<j, k>> \in R => <<i, k>> \in R
    BY <2>1, <2>2, <2>3, <2>4
  <2>6. /\ PlaceIn(hits, R) \in [hits -> 1..Cardinality(hits)]
        /\ \A i, j \in hits : PlaceIn(hits, R)[i] = PlaceIn(hits, R)[j] => i = j
        /\ \A n \in 1..Cardinality(hits) : \E i \in hits : PlaceIn(hits, R)[i] = n
    BY <1>2, <2>5, PlacesAreTaken
  <2>7. \A i \in hits : {j \in hits : <<j, i>> \in R} = {j \in hits : before(j, i)}
    BY <2>1
  <2>8. \A i \in hits : PlaceIn(hits, R)[i] = place(i)
    BY <2>7 DEF PlaceIn
  <2> HIDE DEF place
  <2> QED BY <2>6, <2>8
<1>6. \A n \in 1..N : at(n) \in hits /\ place(at(n)) = n
  <2> HIDE DEF hits, place, N
  <2> QED BY <1>4
<1>7. ASSUME NEW i \in hits PROVE \E n \in 1..N : s[n] = l.rows[i]
  <2>1. place(i) \in 1..N
    BY <1>4
  <2>2. at(place(i)) = i
    <3> HIDE DEF hits, place, at
    <3> QED BY <1>4, <1>6, <2>1
  <2>3. s[place(i)] = l.rows[i]
    <3> HIDE DEF hits, place, at, N
    <3> QED BY <2>1, <2>2
  <2> HIDE DEF hits, place, s
  <2> QED BY <2>1, <2>3
<1>8. s \in Seq(Row)
  <2>1. \A n \in 1..N : l.rows[at(n)] \in Row
    <3>1. hits \subseteq DOMAIN l.rows
      OBVIOUS
    <3> HIDE DEF hits, at, N
    <3> QED BY <1>1, <1>6, <3>1
  <2> HIDE DEF at, N
  <2> QED BY <1>2, <2>1
<1>9. Len(s) = N /\ DOMAIN s = 1..N
  BY <1>2
<1>10. Range(s) = {row \in Range(l.rows) : Matches(l, row)}
  <2>1. ASSUME NEW n \in 1..N
        PROVE  s[n] \in Range(l.rows) /\ Matches(l, s[n])
    <3>1. s[n] = l.rows[at(n)]
      OBVIOUS
    <3>2. at(n) \in hits
      BY <1>6
    <3>3. at(n) \in DOMAIN l.rows /\ Matches(l, l.rows[at(n)])
      <4> HIDE DEF at
      <4> QED BY <3>2
    <3> HIDE DEF at, s
    <3> QED BY <3>1, <3>3 DEF Range
  <2>2. ASSUME NEW row \in Range(l.rows), Matches(l, row)
        PROVE  row \in Range(s)
    <3>1. PICK i \in DOMAIN l.rows : row = l.rows[i]
      BY DEF Range
    <3>2. i \in hits
      BY <2>2, <3>1
    <3>3. \E n \in 1..N : s[n] = l.rows[i]
      BY <3>2, <1>7
    <3> HIDE DEF s, N
    <3> QED BY <3>1, <3>3, <1>9 DEF Range
  <2>3. \A row \in Range(s) : \E n \in 1..N : row = s[n]
    <3> HIDE DEF s, N
    <3> QED BY <1>9 DEF Range
  <2> HIDE DEF s, N
  <2> QED BY <2>1, <2>2, <2>3
<1> HIDE DEF s, N
<1> QED BY <1>0, <1>2, <1>8, <1>9, <1>10

-----------------------------------------------------------------------------
(* Lists.                                                                  *)

\* What m.allJobs, m.filteredJobs and the rest of a list may be.
Lists == [rows: Seq(Row), shown: Seq(Row), cursor: -1..Cardinality(Jobs), by: SortKeys,
          desc: BOOLEAN, filters: SUBSET Range(Statuses), query: SUBSET Searches,
          menu: SUBSET Range(Statuses)]

\* The rows are of different jobs.
OneEach(rows) == \A i, j \in DOMAIN rows : rows[i].job = rows[j].job => i = j

\* A list whose rows are in order, whatever it shows.
GoodRows(l) == l \in Lists /\ OneEach(l.rows)

\* A list that shows its rows as they are.
GoodList(l) ==
    /\ GoodRows(l)
    /\ Range(l.shown) = {row \in Range(l.rows) : Matches(l, row)}
    /\ Len(l.shown) <= Len(l.rows)

\* There are no more rows than jobs.
LEMMA RowsFit ==
    ASSUME NEW l, GoodRows(l)
    PROVE  Len(l.rows) \in Nat /\ Cardinality(Jobs) \in Nat /\ Len(l.rows) <= Cardinality(Jobs)
<1> DEFINE N == Len(l.rows)
           f == [i \in 1..N |-> l.rows[i].job]
<1>1. N \in Nat /\ DOMAIN l.rows = 1..N /\ \A i \in 1..N : l.rows[i] \in Row
  BY DEF GoodRows, Lists
<1>2. \A i \in 1..N : l.rows[i].job \in Jobs
  BY <1>1 DEF Row
<1>3. f \in [1..N -> Jobs] /\ \A i, j \in 1..N : f[i] = f[j] => i = j
  BY <1>1, <1>2 DEF GoodRows, OneEach
<1>4. f \in Injection(1..N, Jobs)
  <2> HIDE DEF f
  <2> QED BY <1>3 DEF Injection, IsInjective
<1>5. Cardinality(1..N) = N
  <2>1. N - 1 + 1 = N
    BY <1>1
  <2> QED BY <1>1, <2>1, FS_Interval
<1>6. Cardinality(Jobs) \in Nat
  BY FS_CardinalityType, JobListAssumption
<1> HIDE DEF f, N
<1>7. N <= Cardinality(Jobs)
  BY <1>4, <1>5, FS_Injection, JobListAssumption
<1> QED BY <1>1, <1>6, <1>7 DEF N

\* A list that is made anew shows its rows as they are.
LEMMA AppliedIsGood ==
    ASSUME NEW l, GoodRows(l), NEW scores \in [Jobs -> Nat]
    PROVE  GoodList(AppliedWith(l, scores))
<1> DEFINE s == Sorted(l, scores)
           n == AppliedWith(l, scores)
<1>0. l \in Lists /\ l.rows \in Seq(Row) /\ l.by \in SortKeys /\ l.cursor \in -1..Cardinality(Jobs)
  BY DEF GoodRows, Lists
<1>1. /\ s \in Seq(Row)
      /\ Range(s) = {row \in Range(l.rows) : Matches(l, row)}
      /\ Len(s) <= Len(l.rows)
  BY <1>0, SortedShowsMatches
<1>2. Len(s) \in Nat /\ Cardinality(Jobs) \in Nat /\ Len(s) <= Cardinality(Jobs)
  <2> HIDE DEF s
  <2> QED BY <1>1, RowsFit
<1>3. n = [l EXCEPT !.shown = s, !.cursor = Bounded(l.cursor, Len(s))]
  BY <1>0 DEF AppliedWith, Lists
<1> HIDE DEF s, n
<1>4. Bounded(l.cursor, Len(s)) \in -1..Cardinality(Jobs)
  BY <1>0, <1>2 DEF Bounded
<1>5. /\ n \in Lists
      /\ n.rows = l.rows /\ n.shown = s /\ n.filters = l.filters /\ n.query = l.query
  BY <1>0, <1>1, <1>3, <1>4 DEF Lists
<1>6. \A row : Matches(n, row) <=> Matches(l, row)
  BY <1>5 DEF Matches
<1>7. {row \in Range(n.rows) : Matches(n, row)} = {row \in Range(l.rows) : Matches(l, row)}
  BY <1>5, <1>6
<1>8. GoodRows(n) /\ Range(n.shown) = Range(s) /\ Len(n.shown) = Len(s) /\ Len(n.rows) = Len(l.rows)
  BY <1>5 DEF GoodRows
<1> QED BY <1>1, <1>7, <1>8 DEF GoodList, n

\* Neither the cursor nor the menu changes what a list shows.
LEMMA CursorMoves ==
    ASSUME NEW l, GoodList(l), NEW c \in -1..Cardinality(Jobs), NEW m \in SUBSET Range(Statuses)
    PROVE  GoodList([l EXCEPT !.cursor = c]) /\ GoodList([l EXCEPT !.menu = m])
<1>1. l \in Lists
  BY DEF GoodList, GoodRows
<1>2. ASSUME NEW n \in Lists, n.rows = l.rows, n.shown = l.shown, n.filters = l.filters,
             n.query = l.query
      PROVE  GoodList(n)
  <2>1. \A row : Matches(n, row) <=> Matches(l, row)
    BY <1>2 DEF Matches
  <2>2. {row \in Range(n.rows) : Matches(n, row)} = {row \in Range(l.rows) : Matches(l, row)}
    BY <1>2, <2>1
  <2> QED BY <1>2, <2>2 DEF GoodList, GoodRows
<1>3. [l EXCEPT !.cursor = c] \in Lists /\ [l EXCEPT !.menu = m] \in Lists
  BY <1>1 DEF Lists
<1>4. \A n \in {[l EXCEPT !.cursor = c], [l EXCEPT !.menu = m]} :
         n.rows = l.rows /\ n.shown = l.shown /\ n.filters = l.filters /\ n.query = l.query
  BY <1>1 DEF Lists
<1> QED BY <1>2, <1>3, <1>4

\* Other rows of different jobs.
LEMMA OtherRows ==
    ASSUME NEW l, GoodRows(l), NEW rows \in Seq(Row), OneEach(rows)
    PROVE  GoodRows([l EXCEPT !.rows = rows])
BY DEF GoodRows, Lists

\* A row taken out.
LEMMA RemoveAtRows ==
    ASSUME NEW rows \in Seq(Row), OneEach(rows), NEW i \in DOMAIN rows
    PROVE  RemoveAt(rows, i) \in Seq(Row) /\ OneEach(RemoveAt(rows, i))
<1>1. Len(rows) \in Nat /\ i \in 1..Len(rows)
  OBVIOUS
<1> DEFINE before == SubSeq(rows, 1, i - 1)
           after == SubSeq(rows, i + 1, Len(rows))
           shorter == RemoveAt(rows, i)
<1>2. /\ before \in Seq(Row) /\ Len(before) = i - 1
      /\ \A j \in 1..(i - 1) : before[j] = rows[j]
  BY <1>1
<1>3. /\ after \in Seq(Row) /\ Len(after) = Len(rows) - i
      /\ \A j \in 1..(Len(rows) - i) : after[j] = rows[j + i]
  BY <1>1
<1>4. shorter = before \o after
  BY DEF RemoveAt
<1> HIDE DEF before, after, shorter
<1>5. DOMAIN shorter = 1..(Len(rows) - 1) /\ shorter \in Seq(Row)
  <2>1. Len(before \o after) = Len(rows) - 1 /\ before \o after \in Seq(Row)
    BY <1>1, <1>2, <1>3
  <2> QED BY <2>1, <1>4
<1>6. \A j \in 1..(Len(rows) - 1) : shorter[j] = rows[IF j < i THEN j ELSE j + 1]
  <2>1. \A j \in 1..(Len(rows) - 1) : shorter[j] = IF j < i THEN before[j] ELSE after[j - (i - 1)]
    BY <1>1, <1>2, <1>3, <1>4
  <2>2. \A j \in 1..(Len(rows) - 1) : j < i => j \in 1..(i - 1)
    BY <1>1
  <2>3. \A j \in 1..(Len(rows) - 1) : ~(j < i) =>
           j - (i - 1) \in 1..(Len(rows) - i) /\ (j - (i - 1)) + i = j + 1
    BY <1>1
  <2> QED BY <2>1, <2>2, <2>3, <1>2, <1>3
<1>7. ASSUME NEW h \in DOMAIN shorter, NEW j \in DOMAIN shorter, shorter[h].job = shorter[j].job
      PROVE  h = j
  <2>1. /\ (IF h < i THEN h ELSE h + 1) \in DOMAIN rows
        /\ (IF j < i THEN j ELSE j + 1) \in DOMAIN rows
    BY <1>1, <1>5, <1>7
  <2>2. (IF h < i THEN h ELSE h + 1) = (IF j < i THEN j ELSE j + 1)
    BY <1>5, <1>6, <1>7, <2>1 DEF OneEach
  <2> QED BY <1>1, <1>5, <1>7, <2>2
<1>8. OneEach(shorter)
  BY <1>7 DEF OneEach
<1> QED BY <1>5, <1>8 DEF shorter

\* Rows of the same jobs at the same places.
LEMMA SamePlaces ==
    ASSUME NEW rows \in Seq(Row), OneEach(rows), NEW f \in [DOMAIN rows -> Row],
           \A i \in DOMAIN rows : f[i].job = rows[i].job
    PROVE  f \in Seq(Row) /\ OneEach(f)
<1>1. DOMAIN rows = 1..Len(rows) /\ Len(rows) \in Nat
  OBVIOUS
<1>2. f \in Seq(Row)
  BY <1>1
<1>3. OneEach(f)
  BY DEF OneEach
<1> QED BY <1>2, <1>3

-----------------------------------------------------------------------------
(* The keys and messages of the list.                                      *)

\* The variables beside the list, by their types.
WindowTypes ==
    /\ scope \subseteq {"wizard", "rows", "health", "commands", "calls", "fetch"}
    /\ mode \in {"keys", "search", "command"}
    /\ health \in [Jobs -> 0..MaxScore]
    /\ window \in [loading: BOOLEAN, minimized: BOOLEAN, report: SUBSET Jobs,
                   refresh: SUBSET Jobs]
    /\ tasks \in [DOMAIN tasks -> {"foreground", "background"}] /\ DOMAIN tasks \subseteq Jobs
    /\ panel \in [expanded: BOOLEAN, animating: BOOLEAN]
    /\ lookups \subseteq Jobs

\* The inductive invariant of the list.
ListInv == WindowTypes /\ GoodList(list)

\* A list that is made anew with the scores at hand shows its rows as they are.
LEMMA AppliedNow ==
    ASSUME WindowTypes, NEW l, GoodRows(l)
    PROVE  GoodList(Applied(l))
<1>1. health \in [Jobs -> Nat]
  BY JobListAssumption DEF WindowTypes
<1> QED BY <1>1, AppliedIsGood DEF Applied

\* What is known of a good list.
LEMMA GoodListFacts ==
    ASSUME NEW l, GoodList(l)
    PROVE  /\ GoodRows(l) /\ l \in Lists
           /\ l.rows \in Seq(Row) /\ OneEach(l.rows) /\ l.shown \in Seq(Row)
           /\ l.cursor \in -1..Cardinality(Jobs) /\ l.cursor \in Int
           /\ Len(l.shown) \in Nat /\ Cardinality(Jobs) \in Nat /\ Len(l.shown) <= Cardinality(Jobs)
<1>1. GoodRows(l) /\ l \in Lists
  BY DEF GoodList, GoodRows
<1>2. l.rows \in Seq(Row) /\ l.shown \in Seq(Row) /\ l.cursor \in -1..Cardinality(Jobs)
  BY <1>1 DEF Lists
<1>3. OneEach(l.rows)
  BY <1>1 DEF GoodRows
<1>4. Len(l.rows) \in Nat /\ Cardinality(Jobs) \in Nat /\ Len(l.rows) <= Cardinality(Jobs)
  BY <1>1, RowsFit
<1>5. Len(l.shown) \in Nat /\ Len(l.shown) <= Len(l.rows)
  BY <1>2 DEF GoodList
<1> QED BY <1>1, <1>2, <1>3, <1>4, <1>5

\* Keys that move the cursor only.
LEMMA MovingKeys ==
    ASSUME GoodList(list), Move \/ Wheel \/ NextDetails \/ OpenFilterMenu \/ CloseOverlay
    PROVE  GoodList(list')
<1> DEFINE C == -1..Cardinality(Jobs)
<1>0. /\ list.cursor \in C /\ list.cursor \in Int /\ Len(list.shown) \in Nat
      /\ Cardinality(Jobs) \in Nat /\ Len(list.shown) <= Cardinality(Jobs) /\ list \in Lists
  BY GoodListFacts
<1>1. ASSUME NEW c \in C, list' = [list EXCEPT !.cursor = c] PROVE GoodList(list')
  <2>1. {} \in SUBSET Range(Statuses)
    OBVIOUS
  <2> QED BY <1>1, <2>1, CursorMoves
<1>2. ASSUME NEW m \in SUBSET Range(Statuses), list' = [list EXCEPT !.menu = m] PROVE GoodList(list')
  BY <1>0, <1>2, CursorMoves
<1>3. \A c \in Int : Bounded(IF c < 0 THEN 0 ELSE c, Len(list.shown)) \in C
  BY <1>0 DEF Bounded
<1>4. CASE Move
  <2>1. PICK c \in {IF list.cursor > 0 THEN list.cursor - 1 ELSE list.cursor,
                    IF list.cursor < Len(list.shown) - 1 THEN list.cursor + 1 ELSE list.cursor,
                    0, Len(list.shown) - 1} : list' = [list EXCEPT !.cursor = c]
    BY <1>4 DEF Move
  <2>2. c \in C
    BY <1>0, <2>1
  <2> QED BY <1>1, <2>1, <2>2
<1>5. CASE Wheel
  <2>1. PICK c \in {list.cursor - 1, list.cursor + 1} :
           list' = [list EXCEPT !.cursor = Bounded(IF c < 0 THEN 0 ELSE c, Len(list.shown))]
    BY <1>5 DEF Wheel
  <2>2. c \in Int
    BY <1>0, <2>1
  <2> QED BY <1>1, <1>3, <2>1, <2>2
<1>6. CASE NextDetails
  <2>1. CASE list.cursor > 0 /\ list' = [list EXCEPT !.cursor = Bounded(@ - 1, Len(list.shown))]
    <3>1. Bounded(list.cursor - 1, Len(list.shown)) \in C
      BY <1>0, <2>1 DEF Bounded
    <3>2. list' = [list EXCEPT !.cursor = Bounded(list.cursor - 1, Len(list.shown))]
      BY <2>1
    <3> QED BY <1>1, <3>1, <3>2
  <2>2. CASE list.cursor < Len(list.shown) - 1 /\ list' = [list EXCEPT !.cursor = @ + 1]
    <3>1. list.cursor + 1 \in C
      BY <1>0, <2>2
    <3>2. list' = [list EXCEPT !.cursor = list.cursor + 1]
      BY <2>2
    <3> QED BY <1>1, <3>1, <3>2
  <2> QED BY <1>6, <2>1, <2>2 DEF NextDetails
<1>7. CASE OpenFilterMenu
  <2>1. list.filters \in SUBSET Range(Statuses)
    BY <1>0 DEF Lists
  <2> QED BY <1>2, <1>7, <2>1 DEF OpenFilterMenu
<1>8. CASE CloseOverlay
  BY <1>2, <1>8 DEF CloseOverlay
<1> QED BY <1>4, <1>5, <1>6, <1>7, <1>8

\* Keys that change what is shown, not the rows.
LEMMA ShowingKeys ==
    ASSUME WindowTypes, GoodList(list), Sort \/ ToggleFilter \/ Search \/ EndSearch
    PROVE  GoodList(list')
<1>0. list \in Lists /\ OneEach(list.rows)
  BY GoodListFacts
<1>1. ASSUME NEW l \in Lists, l.rows = list.rows PROVE GoodList(Applied(l))
  BY <1>0, <1>1, AppliedNow DEF GoodRows
<1>2. CASE Sort
  <2>1. PICK by \in SortKeys :
           list' = Applied([list EXCEPT !.by = by, !.desc = IF by = list.by THEN ~@
                                                            ELSE by \in {"health", "date"}])
    BY <1>2 DEF Sort
  <2> DEFINE down == IF by = list.by THEN ~list.desc ELSE by \in {"health", "date"}
             l == [list EXCEPT !.by = by, !.desc = down]
  <2>3. down \in BOOLEAN
    <3>1. CASE by = list.by
      <4>1. down = ~list.desc
        BY <3>1
      <4> QED BY <4>1
    <3>2. CASE by # list.by
      <4>1. by \in {"health", "date"} => down = TRUE
        BY <3>2
      <4>2. by \notin {"health", "date"} => down = FALSE
        BY <3>2
      <4> HIDE DEF down
      <4> QED BY <4>1, <4>2
    <3> QED BY <3>1, <3>2
  <2>4. list' = Applied(l)
    BY <2>1
  <2>2. l \in Lists /\ l.rows = list.rows
    <3> HIDE DEF down
    <3> QED BY <1>0, <2>3 DEF Lists
  <2> HIDE DEF l
  <2> QED BY <1>1, <2>2, <2>4
<1>3. CASE ToggleFilter
  <2>1. PICK status \in Range(Statuses) :
           LET values == Switched(list.menu, status)
           IN  list' = [Applied([list EXCEPT !.menu = values, !.filters = values]) EXCEPT !.cursor = 0]
    BY <1>3 DEF ToggleFilter
  <2> DEFINE values == Switched(list.menu, status)
             l == [list EXCEPT !.menu = values, !.filters = values]
  <2>2. values \in SUBSET Range(Statuses)
    BY <1>0, <2>1 DEF Lists, Switched
  <2>3. l \in Lists /\ l.rows = list.rows
    <3> HIDE DEF values
    <3> QED BY <1>0, <2>2 DEF Lists
  <2>4. list' = [Applied(l) EXCEPT !.cursor = 0]
    BY <2>1
  <2> HIDE DEF l
  <2>5. GoodList(Applied(l))
    BY <1>1, <2>3
  <2>6. 0 \in -1..Cardinality(Jobs)
    BY <2>5, GoodListFacts
  <2> QED BY <2>2, <2>4, <2>5, <2>6, CursorMoves
<1>4. ASSUME NEW q \in SUBSET Searches, list' = Applied([list EXCEPT !.query = q]) PROVE GoodList(list')
  <2> DEFINE l == [list EXCEPT !.query = q]
  <2>1. l \in Lists /\ l.rows = list.rows
    BY <1>0 DEF Lists
  <2> HIDE DEF l
  <2> QED BY <1>1, <1>4, <2>1 DEF l
<1>5. CASE Search
  BY <1>4, <1>5 DEF Search
<1>6. CASE EndSearch
  <2>1. list.query \in SUBSET Searches
    BY <1>0 DEF Lists
  <2> QED BY <1>4, <1>6, <2>1 DEF EndSearch
<1> QED BY <1>2, <1>3, <1>5, <1>6

\* A list with another status in some rows.
LEMMA StatusRows ==
    ASSUME NEW l, GoodRows(l), NEW status \in Range(Statuses), NEW S
    PROVE  GoodRows([l EXCEPT !.rows = [i \in DOMAIN l.rows |->
                        IF i \in S THEN [l.rows[i] EXCEPT !.status = status] ELSE l.rows[i]]])
<1> DEFINE f == [i \in DOMAIN l.rows |->
                    IF i \in S THEN [l.rows[i] EXCEPT !.status = status] ELSE l.rows[i]]
<1>1. l.rows \in Seq(Row) /\ OneEach(l.rows)
  BY DEF GoodRows, Lists
<1>2. \A i \in DOMAIN l.rows : l.rows[i] \in Row
  BY <1>1
<1>3. f \in [DOMAIN l.rows -> Row] /\ \A i \in DOMAIN l.rows : f[i].job = l.rows[i].job
  BY <1>2 DEF Row
<1> HIDE DEF f
<1>4. f \in Seq(Row) /\ OneEach(f)
  BY <1>1, <1>3, SamePlaces
<1>5. GoodRows([l EXCEPT !.rows = f])
  BY <1>4, OtherRows
<1> QED BY <1>5 DEF f

\* So does the status of a job.
LEMMA SetStatusRows ==
    ASSUME NEW l, GoodRows(l), NEW job, NEW status \in Range(Statuses)
    PROVE  GoodRows(SetStatus(l, job, status))
<1> DEFINE S == {i \in DOMAIN l.rows : l.rows[i].job = job}
           f == [i \in DOMAIN l.rows |->
                    IF i \in S THEN [l.rows[i] EXCEPT !.status = status] ELSE l.rows[i]]
           g == [i \in DOMAIN l.rows |->
                    IF l.rows[i].job = job THEN [l.rows[i] EXCEPT !.status = status] ELSE l.rows[i]]
<1>1. f = g
  OBVIOUS
<1>2. SetStatus(l, job, status) = [l EXCEPT !.rows = g]
  BY DEF SetStatus
<1>3. GoodRows([l EXCEPT !.rows = f])
  <2> HIDE DEF S
  <2> QED BY StatusRows
<1> HIDE DEF f, g
<1> QED BY <1>1, <1>2, <1>3

\* One row put in the place of another.
LEMMA RowPut ==
    ASSUME NEW l, GoodRows(l), NEW i \in DOMAIN l.rows, NEW row \in Row,
           \A j \in DOMAIN l.rows : l.rows[j].job = row.job => j = i
    PROVE  GoodRows([l EXCEPT !.rows[i] = row])
<1> DEFINE f == [l.rows EXCEPT ![i] = row]
<1>1. l \in Lists /\ l.rows \in Seq(Row) /\ OneEach(l.rows)
  BY DEF GoodRows, Lists
<1>2. f \in Seq(Row)
  BY <1>1
<1>3. OneEach(f)
  BY <1>1 DEF OneEach
<1>4. [l EXCEPT !.rows[i] = row] = [l EXCEPT !.rows = f]
  BY <1>1 DEF Lists
<1> HIDE DEF f
<1> QED BY <1>2, <1>3, <1>4, OtherRows

\* Keys that change a row or take it out.
LEMMA RowKeys ==
    ASSUME WindowTypes, GoodList(list), MarkViewed \/ Delete \/ JobEdited \/ StatusChosen
    PROVE  GoodList(list')
<1>0. /\ GoodRows(list) /\ list \in Lists
      /\ list.rows \in Seq(Row) /\ OneEach(list.rows)
      /\ list.cursor \in -1..Cardinality(Jobs) /\ list.cursor \in Int
  BY GoodListFacts
<1>v. "Viewed" \in Range(Statuses)
  BY JobListAssumption
<1>1. CASE MarkViewed
  <2> DEFINE l == Applied(SetStatus(list, Selected.job, "Viewed"))
             c == IF list.cursor < Len(l.shown) - 1 THEN list.cursor + 1 ELSE list.cursor
  <2>1. list' = [l EXCEPT !.cursor = c]
    BY <1>1 DEF MarkViewed
  <2>2. GoodRows(SetStatus(list, Selected.job, "Viewed"))
    BY <1>0, <1>v, SetStatusRows
  <2>3. GoodList(l)
    BY <2>2, AppliedNow
  <2> HIDE DEF l
  <2>4. Len(l.shown) \in Nat /\ Cardinality(Jobs) \in Nat /\ Len(l.shown) <= Cardinality(Jobs)
    BY <2>3, GoodListFacts
  <2>5. c \in -1..Cardinality(Jobs)
    BY <1>0, <2>4
  <2>6. {} \in SUBSET Range(Statuses)
    OBVIOUS
  <2> HIDE DEF c
  <2> QED BY <2>1, <2>3, <2>5, <2>6, CursorMoves
<1>2. CASE Delete
  <2>1. PICK i \in Places(Selected.job) : list' = Applied([list EXCEPT !.rows = RemoveAt(@, i)])
    BY <1>2 DEF Delete
  <2>2. i \in DOMAIN list.rows
    BY <2>1 DEF Places
  <2>3. RemoveAt(list.rows, i) \in Seq(Row) /\ OneEach(RemoveAt(list.rows, i))
    BY <1>0, <2>2, RemoveAtRows
  <2>4. GoodRows([list EXCEPT !.rows = RemoveAt(list.rows, i)])
    BY <1>0, <2>3, OtherRows
  <2>5. GoodList(Applied([list EXCEPT !.rows = RemoveAt(list.rows, i)]))
    BY <2>4, AppliedNow
  <2> QED BY <2>1, <2>5
<1>3. CASE JobEdited
  <2>1. PICK i \in Places(Selected.job), row \in Row :
           /\ Places(row.job) \subseteq {i}
           /\ list' = Applied([list EXCEPT !.rows[i] = row])
    BY <1>3 DEF JobEdited
  <2>2. i \in DOMAIN list.rows /\ \A j \in DOMAIN list.rows : list.rows[j].job = row.job => j = i
    BY <2>1 DEF Places
  <2>3. GoodRows([list EXCEPT !.rows[i] = row])
    BY <1>0, <2>2, RowPut
  <2> QED BY <2>1, <2>3, AppliedNow
<1>4. CASE StatusChosen
  <2>1. PICK status \in Range(Statuses) : list' = Applied(SetStatus(list, Selected.job, status))
    BY <1>4 DEF StatusChosen
  <2>2. GoodRows(SetStatus(list, Selected.job, status))
    BY <1>0, SetStatusRows
  <2> QED BY <2>1, <2>2, AppliedNow
<1> QED BY <1>1, <1>2, <1>3, <1>4

\* Messages that change rows.
LEMMA RowMessages ==
    ASSUME WindowTypes, GoodList(list), RowEnriched \/ PostingsChecked
    PROVE  GoodList(list')
<1>0. /\ GoodRows(list) /\ list \in Lists
      /\ list.rows \in Seq(Row) /\ OneEach(list.rows)
  BY GoodListFacts
<1>1. CASE RowEnriched
  <2>1. PICK i \in DOMAIN list.rows, status \in Range(Statuses) :
           list' = Applied([list EXCEPT !.rows[i].status = status])
    BY <1>1 DEF RowEnriched, RowApplied
  <2> DEFINE row == [list.rows[i] EXCEPT !.status = status]
  <2>2. list.rows[i] \in Row
    BY <1>0
  <2>3. row \in Row /\ row.job = list.rows[i].job
    BY <2>2 DEF Row
  <2>4. [list EXCEPT !.rows[i].status = status] = [list EXCEPT !.rows[i] = row]
    BY <1>0 DEF Lists
  <2> HIDE DEF row
  <2>5. GoodRows([list EXCEPT !.rows[i] = row])
    BY <1>0, <2>3, RowPut DEF OneEach
  <2> QED BY <2>1, <2>4, <2>5, AppliedNow
<1>2. CASE PostingsChecked
  <2>1. PICK gone \in SUBSET {i \in DOMAIN list.rows : list.rows[i].status \in {"Unopened", "Viewed"}} :
           LET l == Applied([list EXCEPT !.rows = [i \in DOMAIN @ |->
                        IF i \in gone THEN [@[i] EXCEPT !.status = "Expired"]
                        ELSE @[i]]])
               at == {n \in DOMAIN l.shown :
                        InRange(list) /\ l.shown[n].job = Selected.job}
           IN  list' = IF at = {} THEN l
                       ELSE [l EXCEPT !.cursor = (CHOOSE n \in at : TRUE) - 1]
    BY <1>2 DEF PostingsChecked
  <2> DEFINE raw == [list EXCEPT !.rows = [i \in DOMAIN list.rows |->
                        IF i \in gone THEN [list.rows[i] EXCEPT !.status = "Expired"]
                        ELSE list.rows[i]]]
             l == Applied(raw)
             at == {n \in DOMAIN l.shown : InRange(list) /\ l.shown[n].job = Selected.job}
             c == (CHOOSE n \in at : TRUE) - 1
  <2>2. list' = IF at = {} THEN l ELSE [l EXCEPT !.cursor = c]
    BY <2>1
  <2>3. "Expired" \in Range(Statuses)
    BY JobListAssumption
  <2>4. GoodRows(raw)
    BY <1>0, <2>3, StatusRows
  <2> HIDE DEF raw
  <2>5. GoodList(l)
    BY <2>4, AppliedNow
  <2> HIDE DEF l
  <2>6. /\ l.shown \in Seq(Row) /\ Len(l.shown) \in Nat
        /\ Cardinality(Jobs) \in Nat /\ Len(l.shown) <= Cardinality(Jobs)
    BY <2>5, GoodListFacts
  <2>7. ASSUME at # {} PROVE c \in -1..Cardinality(Jobs)
    <3> DEFINE n == CHOOSE n \in at : TRUE
    <3>1. n \in at
      BY <2>7
    <3>2. at \subseteq 1..Len(l.shown)
      BY <2>6
    <3> HIDE DEF at, n
    <3>3. n \in 1..Len(l.shown)
      BY <3>1, <3>2
    <3>4. n - 1 \in -1..Cardinality(Jobs)
      BY <2>6, <3>3
    <3> QED BY <3>4 DEF n
  <2>8. {} \in SUBSET Range(Statuses)
    OBVIOUS
  <2> HIDE DEF at, c
  <2> QED BY <2>2, <2>5, <2>7, <2>8, CursorMoves
<1> QED BY <1>1, <1>2

\* The elements of a finite set, in some order, once each.
LEMMA InSomeOrder ==
    ASSUME NEW S, IsFiniteSet(S)
    PROVE  SetToSeq(S) \in Seq(S) /\ IsInjective(SetToSeq(S))
<1> DEFINE D == 1..Cardinality(S)
<1>1. Cardinality(S) \in Nat /\ ExistsBijection(D, S)
  BY FS_CardinalityType
<1>2. \E f \in [D -> S] : IsInjective(f)
  BY <1>1 DEF ExistsBijection, Bijection, Injection
<1>3. SetToSeq(S) \in [D -> S] /\ IsInjective(SetToSeq(S))
  BY <1>2 DEF SetToSeq
<1> QED BY <1>1, <1>3

\* Reviewed jobs that are in no row may be added.
LEMMA RowsAdded ==
    ASSUME GoodRows(list), NEW new \in SUBSET Jobs, \A job \in new : Places(job) = {}
    PROVE  GoodRows([list EXCEPT !.rows = @ \o SetToSeq(
                        {[job |-> job, status |-> "Unopened"] : job \in new})])
<1> DEFINE S == {[job |-> job, status |-> "Unopened"] : job \in new}
           t == SetToSeq(S)
           all == list.rows \o t
<1>1. S \subseteq Row
  BY JobListAssumption DEF Row
<1>2. IsFiniteSet(S)
  <2>1. IsFiniteSet(new)
    BY FS_Subset, JobListAssumption
  <2> DEFINE f == [job \in new |-> [job |-> job, status |-> "Unopened"]]
  <2>2. f \in Surjection(new, S)
    BY DEF Surjection
  <2> HIDE DEF f, S
  <2> QED BY <2>1, <2>2, FS_Surjection
<1>3. t \in Seq(S) /\ IsInjective(t)
  <2> HIDE DEF S
  <2> QED BY <1>2, InSomeOrder
<1>4. list.rows \in Seq(Row) /\ OneEach(list.rows)
  BY DEF GoodRows, Lists
<1>5. t \in Seq(Row)
  <2> HIDE DEF S, t
  <2>1. Len(t) \in Nat /\ t \in [1..Len(t) -> Row]
    BY <1>1, <1>3
  <2> QED BY <2>1
<1>6. \A i \in DOMAIN t : \E job \in new : t[i] = [job |-> job, status |-> "Unopened"]
  <2>1. \A i \in DOMAIN t : t[i] \in S
    <3> HIDE DEF S, t
    <3> QED BY <1>3
  <2> HIDE DEF t
  <2> QED BY <2>1
<1> HIDE DEF t, S
<1>7. \A i, j \in DOMAIN t : t[i].job = t[j].job => i = j
  BY <1>3, <1>6 DEF IsInjective
<1>8. \A i \in DOMAIN list.rows, j \in DOMAIN t : list.rows[i].job # t[j].job
  BY <1>6 DEF Places
<1>9. /\ all \in Seq(Row) /\ DOMAIN all = 1..(Len(list.rows) + Len(t))
      /\ \A i \in DOMAIN all : all[i] = IF i <= Len(list.rows) THEN list.rows[i]
                                        ELSE t[i - Len(list.rows)]
  BY <1>4, <1>5
<1>10. /\ DOMAIN list.rows = 1..Len(list.rows) /\ Len(list.rows) \in Nat
       /\ DOMAIN t = 1..Len(t) /\ Len(t) \in Nat
  BY <1>4, <1>5
<1> HIDE DEF all
<1>11. ASSUME NEW i \in DOMAIN all, NEW j \in DOMAIN all, all[i].job = all[j].job
       PROVE  i = j
  <2> DEFINE n == Len(list.rows)
  <2>1. CASE i <= n /\ j <= n
    <3>1. i \in DOMAIN list.rows /\ j \in DOMAIN list.rows
      BY <1>9, <1>10, <2>1
    <3> QED BY <1>4, <1>9, <1>11, <2>1, <3>1 DEF OneEach
  <2>2. CASE i > n /\ j > n
    <3>1. i - n \in DOMAIN t /\ j - n \in DOMAIN t /\ i \in Nat /\ j \in Nat
      BY <1>9, <1>10, <2>2
    <3>2. all[i] = t[i - n] /\ all[j] = t[j - n]
      BY <1>9, <1>10, <2>2
    <3>3. i - n = j - n
      BY <1>7, <1>11, <3>1, <3>2
    <3> QED BY <1>10, <3>1, <3>3
  <2>3. CASE i <= n /\ j > n
    <3>1. i \in DOMAIN list.rows /\ j - n \in DOMAIN t
      BY <1>9, <1>10, <2>3
    <3>2. all[i] = list.rows[i] /\ all[j] = t[j - n]
      BY <1>9, <1>10, <2>3
    <3> QED BY <1>8, <1>11, <3>1, <3>2
  <2>4. CASE i > n /\ j <= n
    <3>1. j \in DOMAIN list.rows /\ i - n \in DOMAIN t
      BY <1>9, <1>10, <2>4
    <3>2. all[j] = list.rows[j] /\ all[i] = t[i - n]
      BY <1>9, <1>10, <2>4
    <3> QED BY <1>8, <1>11, <3>1, <3>2
  <2>5. i \in Nat /\ j \in Nat /\ n \in Nat
    BY <1>9, <1>10
  <2> QED BY <2>1, <2>2, <2>3, <2>4, <2>5
<1>12. OneEach(all)
  BY <1>11 DEF OneEach
<1>13. GoodRows([list EXCEPT !.rows = all])
  BY <1>9, <1>12, OtherRows
<1>14. [list EXCEPT !.rows = all] = [list EXCEPT !.rows = @ \o t]
  BY DEF all
<1> QED BY <1>13, <1>14 DEF t, S

\* The program starts with a list that shows its rows.
LEMMA LoadedIsGood ==
    ASSUME NEW rows \in Seq(Row), OneEach(rows), NEW saved \in SUBSET Range(Statuses),
           NEW scores \in [Jobs -> Nat]
    PROVE  GoodList(Loaded(rows, saved, scores))
<1> DEFINE l == [rows |-> rows, shown |-> <<>>, cursor |-> 0, by |-> "health",
                 desc |-> TRUE, filters |-> saved, query |-> {}, menu |-> {}]
<1>1. Cardinality(Jobs) \in Nat /\ "health" \in SortKeys
  BY FS_CardinalityType, JobListAssumption
<1>2. GoodRows(l)
  BY <1>1 DEF GoodRows, Lists
<1> HIDE DEF l
<1>3. GoodList(AppliedWith(l, scores))
  BY <1>2, AppliedIsGood
<1> QED BY <1>3 DEF Loaded, l

\* The types of the windows after a task was started.
LEMMA StartTaskTypes ==
    ASSUME WindowTypes, NEW job \in Jobs, NEW popup, StartTask(job, popup)
    PROVE  /\ tasks' \in [DOMAIN tasks' -> {"foreground", "background"}] /\ DOMAIN tasks' \subseteq Jobs
           /\ panel' \in [expanded: BOOLEAN, animating: BOOLEAN]
           /\ window' \in [loading: BOOLEAN, minimized: BOOLEAN, report: SUBSET Jobs, refresh: SUBSET Jobs]
<1>1. CASE job \in DOMAIN tasks
  BY <1>1 DEF StartTask, WindowTypes
<1>2. CASE job \notin DOMAIN tasks
  <2>1. tasks' = [j \in {job} \cup DOMAIN tasks |->
                    IF j # job THEN tasks[j] ELSE IF popup THEN "foreground" ELSE "background"]
    BY <1>2 DEF StartTask
  <2>2. DOMAIN tasks' = {job} \cup DOMAIN tasks
    BY <2>1
  <2>3. \A j \in DOMAIN tasks' : tasks'[j] \in {"foreground", "background"}
    BY <2>1, <2>2 DEF WindowTypes
  <2>4. tasks' \in [DOMAIN tasks' -> {"foreground", "background"}]
    <3>1. tasks' = [j \in DOMAIN tasks' |-> tasks'[j]]
      BY <2>1, <2>2
    <3> QED BY <2>3, <3>1
  <2>5. /\ panel' = [expanded |-> TRUE, animating |-> FALSE] \/ panel' = [panel EXCEPT !.expanded = FALSE]
        /\ window' = NoWindow \/ window' = window
    BY <1>2 DEF StartTask
  <2>6. /\ panel' \in [expanded: BOOLEAN, animating: BOOLEAN]
        /\ window' \in [loading: BOOLEAN, minimized: BOOLEAN, report: SUBSET Jobs, refresh: SUBSET Jobs]
    <3>1. /\ panel \in [expanded: BOOLEAN, animating: BOOLEAN]
          /\ window \in [loading: BOOLEAN, minimized: BOOLEAN, report: SUBSET Jobs, refresh: SUBSET Jobs]
      BY DEF WindowTypes
    <3>2. NoWindow \in [loading: BOOLEAN, minimized: BOOLEAN, report: SUBSET Jobs, refresh: SUBSET Jobs]
      BY DEF NoWindow
    <3>3. [panel EXCEPT !.expanded = FALSE] \in [expanded: BOOLEAN, animating: BOOLEAN]
      BY <3>1
    <3>4. [expanded |-> TRUE, animating |-> FALSE] \in [expanded: BOOLEAN, animating: BOOLEAN]
      OBVIOUS
    <3>5. panel' \in [expanded: BOOLEAN, animating: BOOLEAN]
      BY <2>5, <3>3, <3>4
    <3> QED BY <2>5, <3>1, <3>2, <3>5
  <2> QED BY <2>2, <2>4, <2>6 DEF WindowTypes
<1> QED BY <1>1, <1>2

\* The row under the cursor is one of a job.
LEMMA SelectedIsJob == ASSUME GoodList(list), InRange(list) PROVE Selected.job \in Jobs
<1>1. list.shown \in Seq(Row) /\ list.cursor \in Int /\ Len(list.shown) \in Nat
  BY GoodListFacts
<1>2. list.cursor + 1 \in 1..Len(list.shown)
  BY <1>1 DEF InRange
<1>3. Selected \in Row
  BY <1>1, <1>2 DEF Selected
<1> QED BY <1>3 DEF Row

\* Types after the keys and answers of health windows.
LEMMA HealthTypes ==
    ASSUME ListInv, HealthOfCompanies
    PROVE  WindowTypes'
<1> USE DEF WindowTypes, ListInv
<1> DEFINE Windows == [loading: BOOLEAN, minimized: BOOLEAN, report: SUBSET Jobs, refresh: SUBSET Jobs]
<1>0. NoWindow \in Windows /\ MaxScore \in Nat /\ Scores = 0..MaxScore
  BY JobListAssumption DEF NoWindow, Scores
<1>1. CASE CheckRow
  <2>1. Selected.job \in Jobs
    BY <1>1, SelectedIsJob DEF CheckRow, OnRow
  <2> DEFINE popup == screen = "none" /\ (~Running(tasks) \/ panel.expanded)
  <2>2. CASE Show({Selected.job}) /\ UNCHANGED <<tasks, panel>>
    BY <1>1, <2>1, <2>2 DEF CheckRow, Show, NoWindow
  <2>3. CASE StartTask(Selected.job, popup)
    <3> HIDE DEF popup, WindowTypes
    <3>1. /\ tasks' \in [DOMAIN tasks' -> {"foreground", "background"}] /\ DOMAIN tasks' \subseteq Jobs
          /\ panel' \in [expanded: BOOLEAN, animating: BOOLEAN]
          /\ window' \in Windows
      BY <2>1, <2>3, StartTaskTypes
    <3>2. UNCHANGED <<scope, mode, health, lookups>>
      BY <1>1 DEF CheckRow
    <3> QED BY <3>1, <3>2 DEF WindowTypes
  <2> QED BY <1>1, <2>2, <2>3 DEF CheckRow
<1>2. CASE RefreshWindow
  <2>1. CASE \E company \in RefreshTarget :
                 /\ MayAsk(company)
                 /\ health' = [health EXCEPT ![company] = 0]
                 /\ Await(company)
                 /\ UNCHANGED <<tasks, panel>>
    <3>1. RefreshTarget \subseteq Jobs
      BY DEF RefreshTarget
    <3>2. PICK company \in Jobs : /\ health' = [health EXCEPT ![company] = 0]
                                  /\ Await(company) /\ UNCHANGED <<tasks, panel>>
      BY <2>1, <3>1
    <3>3. health' \in [Jobs -> 0..MaxScore]
      BY <1>0, <3>2
    <3> QED BY <1>2, <3>2, <3>3 DEF RefreshWindow, Await, NoWindow
  <2>2. CASE /\ RefreshTarget = {} /\ InRange(list)
             /\ health' = [health EXCEPT ![Selected.job] = 0]
             /\ StartTask(Selected.job, TRUE) /\ UNCHANGED lookups
    <3>1. Selected.job \in Jobs
      BY <2>2, SelectedIsJob
    <3>2. health' \in [Jobs -> 0..MaxScore]
      BY <1>0, <2>2, <3>1
    <3> HIDE DEF WindowTypes
    <3>3. /\ tasks' \in [DOMAIN tasks' -> {"foreground", "background"}] /\ DOMAIN tasks' \subseteq Jobs
          /\ panel' \in [expanded: BOOLEAN, animating: BOOLEAN]
          /\ window' \in Windows
      BY <2>2, <3>1, StartTaskTypes
    <3>4. UNCHANGED <<scope, mode, lookups>>
      BY <1>2, <2>2 DEF RefreshWindow
    <3> QED BY <3>2, <3>3, <3>4 DEF WindowTypes
  <2> QED BY <1>2, <2>1, <2>2 DEF RefreshWindow
<1>3. CASE CloseWindow
  BY <1>0, <1>3 DEF CloseWindow
<1>4. CASE TogglePanel
  BY <1>4 DEF TogglePanel
<1>5. CASE PanelMoved
  BY <1>5 DEF PanelMoved
<1>6. CASE Minimize
  BY <1>6 DEF Minimize
<1>7. ASSUME NEW company \in Jobs, NEW score \in Scores, Found(company, score),
             Remembered \/ Shown(company, score)
      PROVE  health' \in [Jobs -> 0..MaxScore] /\ window' \in Windows
  <2>1. health' \in [Jobs -> 0..MaxScore]
    BY <1>0, <1>7 DEF Found
  <2>2. CASE Remembered
    BY <1>0, <2>1, <2>2 DEF Remembered
  <2>3. CASE Shown(company, score)
    <3> DEFINE report == IF score = 0 THEN window.report ELSE {company}
    <3>1. window' = [window EXCEPT !.loading = FALSE, !.minimized = FALSE, !.report = report]
      BY <2>3 DEF Shown
    <3>2. report \in SUBSET Jobs
      OBVIOUS
    <3> HIDE DEF report
    <3>3. window' \in Windows
      BY <3>1, <3>2
    <3> QED BY <2>1, <3>3
  <2> QED BY <1>7, <2>2, <2>3
<1>8. CASE TaskAnswers
  <2>1. PICK job \in DOMAIN tasks, score \in Scores :
           /\ Found(job, score)
           /\ tasks' = [t \in DOMAIN tasks \ {job} |-> tasks[t]]
           /\ Remembered \/ Shown(job, score)
           /\ UNCHANGED <<scope, mode, panel, lookups>>
    BY <1>8 DEF TaskAnswers
  <2>2. health' \in [Jobs -> 0..MaxScore] /\ window' \in Windows
    <3>1. job \in Jobs
      OBVIOUS
    <3> HIDE DEF WindowTypes
    <3> QED BY <1>7, <2>1, <3>1
  <2>3. DOMAIN tasks' = DOMAIN tasks \ {job} /\ tasks' \in [DOMAIN tasks' -> {"foreground", "background"}]
    BY <2>1
  <2> QED BY <2>1, <2>2, <2>3
<1>9. CASE LookupAnswers
  <2>1. PICK company \in lookups, score \in Scores :
           /\ Found(company, score)
           /\ lookups' = lookups \ {company}
           /\ tasks' = tasks
           /\ Remembered \/ Shown(company, score)
           /\ UNCHANGED <<scope, mode, panel>>
    BY <1>9 DEF LookupAnswers
  <2>2. health' \in [Jobs -> 0..MaxScore] /\ window' \in Windows
    <3>1. company \in Jobs
      OBVIOUS
    <3> HIDE DEF WindowTypes
    <3> QED BY <1>7, <2>1, <3>1
  <2> QED BY <2>1, <2>2
<1> QED BY <1>1, <1>2, <1>3, <1>4, <1>5, <1>6, <1>8, <1>9 DEF HealthOfCompanies

\* The list after the keys and answers of health windows.
LEMMA HealthKeepsList ==
    ASSUME ListInv, WindowTypes', HealthOfCompanies
    PROVE  GoodList(list')
<1>1. CASE list' = list
  BY <1>1 DEF ListInv
<1>2. CASE Remembered
  <2>1. list' = AppliedWith(list, health')
    BY <1>2 DEF Remembered
  <2>2. health' \in [Jobs -> Nat]
    BY JobListAssumption DEF WindowTypes
  <2> QED BY <2>1, <2>2, AppliedIsGood DEF ListInv, GoodList
<1>3. list' = list \/ Remembered
  BY DEF HealthOfCompanies, CheckRow, RefreshWindow, CloseWindow, TogglePanel, PanelMoved,
         Minimize, TaskAnswers, LookupAnswers, Shown
<1> QED BY <1>1, <1>2, <1>3

\* The keys and messages of the list keep the types of the rest.
LEMMA ListTypes ==
    ASSUME WindowTypes, List \/ CheckPostings \/ CheckEnds
    PROVE  WindowTypes'
<1> USE DEF WindowTypes
<1>1. CASE Move \/ Wheel \/ Sort \/ MarkViewed \/ Delete \/ JobEdited \/ OpenFilterMenu
              \/ ToggleFilter \/ NextDetails \/ Search \/ RowEnriched
  BY <1>1 DEF Move, Wheel, Sort, MarkViewed, Delete, JobEdited, OpenFilterMenu, ToggleFilter,
              NextDetails, Search, RowEnriched, windowVars
<1>2. CASE OpenStatusMenu \/ OpenDetails
  BY <1>2 DEF OpenStatusMenu, OpenDetails, listVars
<1>3. CASE OpenSearch \/ EndSearch
  BY <1>3 DEF OpenSearch, EndSearch, windowVars
<1>4. CASE StatusChosen \/ CloseOverlay \/ SaveFilters \/ PostingsChecked \/ CheckPostings
  <2>1. window' \in {window, NoWindow} /\ UNCHANGED <<scope, mode, health, tasks, panel, lookups>>
    BY <1>4 DEF StatusChosen, CloseOverlay, SaveFilters, PostingsChecked, CheckPostings
  <2>2. NoWindow \in [loading: BOOLEAN, minimized: BOOLEAN, report: SUBSET Jobs, refresh: SUBSET Jobs]
    BY DEF NoWindow
  <2>3. window' \in [loading: BOOLEAN, minimized: BOOLEAN, report: SUBSET Jobs, refresh: SUBSET Jobs]
    BY <2>1, <2>2
  <2> QED BY <2>1, <2>3
<1>5. CASE UNCHANGED listVars
  BY <1>5 DEF listVars
<1> QED BY <1>1, <1>2, <1>3, <1>4, <1>5 DEF List, CheckEnds

\* So do the commands, and what is started and answered from anywhere.
LEMMA OtherTypes ==
    ASSUME WindowTypes, Wizard \/ AcceptPreview \/ Commands \/ OpenEdit \/ StartFetch \/ FetchEnds \/ AcceptReview
                        \/ DismissNotice \/ Reboot
    PROVE  WindowTypes'
<1> USE DEF WindowTypes
<1>1. CASE Wizard \/ AcceptPreview \/ OpenEdit \/ StartFetch
  BY <1>1 DEF Wizard, AcceptPreview, OpenEdit, StartFetch, listVars
<1>2. CASE Commands
  <2>1. CASE HealthCommand
    <3>1. PICK company \in Jobs : Await(company)
      BY <2>1 DEF HealthCommand
    <3>2. window' = [loading |-> TRUE, minimized |-> FALSE, report |-> {}, refresh |-> {company}]
      BY <3>1 DEF Await, NoWindow
    <3>3. window' \in [loading: BOOLEAN, minimized: BOOLEAN, report: SUBSET Jobs, refresh: SUBSET Jobs]
      BY <3>2
    <3>4. lookups' \subseteq Jobs
      BY <3>1 DEF Await
    <3>5. UNCHANGED <<scope, health, tasks, panel>> /\ mode' = "keys"
      BY <2>1 DEF HealthCommand
    <3> QED BY <3>3, <3>4, <3>5
  <2>2. CASE FetchCommand \/ StartFetchCommand
    BY <2>2 DEF StartFetchCommand, FetchCommand, windowVars
  <2>3. CASE OpenCommand \/ LeaveCommand
    BY <2>3 DEF OpenCommand, LeaveCommand, windowVars
  <2>4. CASE Type \/ Tab \/ Space \/ NothingStarted(fetching)
    BY <2>4 DEF Type, Tab, Space, NothingStarted, LineOnly, windowVars
  <2> QED BY <1>2, <2>1, <2>2, <2>3, <2>4 DEF Commands
<1>3. CASE FetchEnds \/ AcceptReview \/ DismissNotice
  <2>1. window' = NoWindow /\ UNCHANGED <<scope, mode, health, tasks, panel, lookups>>
    BY <1>3 DEF FetchEnds, Notice, AcceptReview, DismissNotice
  <2> QED BY <2>1 DEF NoWindow
<1>4. CASE Reboot
  <2>1. /\ window' = NoWindow /\ mode' = "keys" /\ tasks' = <<>> /\ lookups' = {}
        /\ panel' = [expanded |-> FALSE, animating |-> FALSE] /\ UNCHANGED <<scope, health>>
    BY <1>4 DEF Reboot
  <2> QED BY <2>1 DEF NoWindow
<1> QED BY <1>1, <1>2, <1>3, <1>4

\* The list after each step.
LEMMA ListStep == ASSUME ListInv, Next PROVE ListInv'
<1> USE DEF ListInv
<1>1. CASE List \/ CheckPostings \/ CheckEnds
  <2>1. GoodList(list')
    <3>1. CASE Move \/ Wheel \/ NextDetails \/ OpenFilterMenu \/ CloseOverlay
      BY <3>1, MovingKeys
    <3>2. CASE Sort \/ ToggleFilter \/ Search \/ EndSearch
      BY <3>2, ShowingKeys
    <3>3. CASE MarkViewed \/ Delete \/ JobEdited \/ StatusChosen
      BY <3>3, RowKeys
    <3>4. CASE RowEnriched \/ PostingsChecked
      BY <3>4, RowMessages
    <3>5. CASE OpenStatusMenu \/ SaveFilters \/ OpenSearch \/ OpenDetails \/ CheckPostings
               \/ UNCHANGED listVars
      BY <3>5 DEF OpenStatusMenu, SaveFilters, OpenSearch, OpenDetails, CheckPostings, listVars
    <3> QED BY <1>1, <3>1, <3>2, <3>3, <3>4, <3>5 DEF List, CheckEnds
  <2> QED BY <1>1, <2>1, ListTypes
<1>2. CASE HealthOfCompanies
  BY <1>2, HealthTypes, HealthKeepsList
<1>3. CASE Wizard \/ Commands \/ OpenEdit \/ StartFetch \/ FetchEnds \/ DismissNotice
  <2>1. list' = list
    BY <1>3 DEF Wizard, Commands, OpenEdit, StartFetch, FetchEnds, DismissNotice, listVars,
                OpenCommand, Type, Tab, Space, LeaveCommand, NothingStarted, LineOnly, HealthCommand,
                StartFetchCommand, FetchCommand
  <2> QED BY <1>3, <2>1, OtherTypes
<1>4. CASE AcceptReview \/ AcceptPreview
  <2>1. CASE list' = list
    BY <1>4, <2>1, OtherTypes
  <2>2. CASE \E new \in SUBSET Unlisted : list' = Grown(new)
    <3>1. PICK new \in SUBSET Unlisted : list' = Grown(new)
      BY <2>2
    <3>2. new \in SUBSET Jobs /\ \A job \in new : Places(job) = {}
      BY DEF Unlisted
    <3>3. GoodRows([list EXCEPT !.rows = @ \o SetToSeq(
                            {[job |-> job, status |-> "Unopened"] : job \in new})])
      BY <3>2, RowsAdded DEF GoodList
    <3>4. GoodList(list')
      BY <3>1, <3>3, AppliedNow DEF Grown
    <3> QED BY <1>4, <3>4, OtherTypes
  <2>3. ASSUME AcceptReview
        PROVE  list' = list \/ \E new \in SUBSET Unlisted : list' = Grown(new)
    BY <2>3 DEF AcceptReview
  <2>4. ASSUME AcceptPreview
        PROVE  list' = list \/ \E new \in SUBSET Unlisted : list' = Grown(new)
    BY <2>4 DEF AcceptPreview
  <2> QED BY <1>4, <2>1, <2>2, <2>3, <2>4
<1>5. CASE Reboot
  <2>1. PICK saved \in SUBSET Range(Statuses) : list' = Loaded(list.rows, saved, health)
    BY <1>5 DEF Reboot
  <2>2. list.rows \in Seq(Row) /\ OneEach(list.rows)
    BY GoodListFacts
  <2>3. health \in [Jobs -> Nat]
    BY JobListAssumption DEF WindowTypes
  <2>4. GoodList(list')
    BY <2>1, <2>2, <2>3, LoadedIsGood
  <2> QED BY <1>5, <2>4, OtherTypes
<1> QED BY <1>1, <1>2, <1>3, <1>4, <1>5 DEF Next

\* The list at the start.
LEMMA ListStart == ASSUME Init PROVE ListInv
<1>1. WindowTypes
  <2>1. scope \subseteq {"wizard", "rows", "health", "commands", "calls", "fetch"}
    BY JobListAssumption DEF Init
  <2>2. health \in [Jobs -> 0..MaxScore]
    BY JobListAssumption DEF Init
  <2>3. /\ mode = "keys" /\ window = NoWindow /\ tasks = <<>> /\ lookups = {}
        /\ panel = [expanded |-> FALSE, animating |-> FALSE]
    BY DEF Init, Quiet
  <2> QED BY <2>1, <2>2, <2>3 DEF WindowTypes, NoWindow
<1>2. GoodList(list)
  <2>1. PICK order \in IF scope \cap {"rows", "health"} = {} THEN {<<>>}
                       ELSE {s \in [1..Cardinality(Jobs) -> Jobs] : IsInjective(s)} :
           list = Loaded([i \in DOMAIN order |-> [job |-> order[i], status |-> "Unopened"]], {}, health)
    BY DEF Init
  <2> DEFINE rows == [i \in DOMAIN order |-> [job |-> order[i], status |-> "Unopened"]]
  <2>2. Cardinality(Jobs) \in Nat
    BY FS_CardinalityType, JobListAssumption
  <2>3. order \in Seq(Jobs) /\ IsInjective(order)
    BY <2>1, <2>2 DEF IsInjective
  <2>4. rows \in Seq(Row) /\ OneEach(rows)
    <3>1. DOMAIN order = 1..Len(order) /\ Len(order) \in Nat
      BY <2>3
    <3>2. \A i \in DOMAIN order : [job |-> order[i], status |-> "Unopened"] \in Row
      BY <2>3, JobListAssumption DEF Row
    <3>3. rows \in Seq(Row)
      BY <3>1, <3>2
    <3>4. OneEach(rows)
      BY <2>3 DEF OneEach, IsInjective
    <3> QED BY <3>3, <3>4
  <2>5. health \in [Jobs -> Nat]
    BY JobListAssumption, <1>1 DEF WindowTypes
  <2> HIDE DEF rows
  <2>6. GoodList(Loaded(rows, {}, health))
    BY <2>4, <2>5, LoadedIsGood
  <2> QED BY <2>1, <2>6 DEF rows
<1> QED BY <1>1, <1>2 DEF ListInv

\* The types of the list and its windows, and that no list outgrows the jobs.
THEOREM ListInvariance == FairSpec => []ListInv
<1>1. Init => ListInv
  BY ListStart
<1>2. ListInv /\ [Next]_vars => ListInv'
  <2>1. ASSUME ListInv, UNCHANGED vars PROVE ListInv'
    BY <2>1 DEF ListInv, WindowTypes, vars
  <2> QED BY <2>1, ListStep
<1> QED BY <1>1, <1>2, PTL DEF FairSpec

\* The list shows the rows as they are now, those that match and no other, whichever
\* key or message changed a row, its status, the filter or the search last: for any
\* rows, columns and searches.
THEOREM ShownIsCurrentTheorem == FairSpec => []ShownIsCurrent
<1>1. ListInv => ShownIsCurrent
  BY DEF ListInv, GoodList, ShownIsCurrent
<1> QED BY <1>1, ListInvariance, PTL

-----------------------------------------------------------------------------
(* The command line.                                                       *)

\* One element more, if it is kept.
LEMMA KeepOne ==
    ASSUME NEW E, NEW S, NEW v \in Seq(E \cap S), NEW x \in E
    PROVE  (IF x \in S THEN Append(v, x) ELSE v) \in Seq(E \cap S)
OBVIOUS

\* What is kept of a sequence is in it and in the set.
LEMMA KeptType ==
    ASSUME NEW E, NEW seq \in Seq(E), NEW S
    PROVE  Kept(seq, S) \in Seq(E \cap S)
<1> DEFINE N == Len(seq)
           V == Seq(E \cap S)
           Put(v, x) == IF x \in S THEN Append(v, x) ELSE v
           step == [i \in 1..N |-> [v \in V |-> Put(v, seq[i])]]
           raw(g) == g = [s \in SUBSET (1..N) |->
                             IF s = {} THEN <<>> ELSE Put(g[s \ {Max(s)}], seq[Max(s)])]
           iter == CHOOSE g : raw(g)
<1>0. N \in Nat /\ DOMAIN seq = 1..N /\ <<>> \in V /\ \A i \in 1..N : seq[i] \in E
  OBVIOUS
<1>1. step \in [1..N -> [V -> V]]
  BY <1>0, KeepOne
<1>2. Kept(seq, S) = iter[1..N]
  BY <1>0 DEF Kept, FoldLeft, MapThenFoldSet
<1>3. \A s \in SUBSET (1..N) : s # {} => Max(s) \in 1..N /\ s \ {Max(s)} \in SUBSET (1..N)
  BY <1>0, GreatestNumber
<1>4. PICK g : Folds(g, N, V, <<>>, step)
  <2> HIDE DEF step, N, V
  <2> QED BY <1>0, <1>1, FoldExists
<1>5. raw(g)
  <2>1. ASSUME NEW s \in SUBSET (1..N), s # {}
        PROVE  g[s] = Put(g[s \ {Max(s)}], seq[Max(s)])
    <3>1. Max(s) \in 1..N /\ s \ {Max(s)} \in SUBSET (1..N)
      BY <1>3, <2>1
    <3>2. g[s \ {Max(s)}] \in V
      BY <1>4, <3>1 DEF Folds
    <3>3. g[s] = step[Max(s)][g[s \ {Max(s)}]]
      <4> HIDE DEF step, V, N
      <4> QED BY <1>4, <2>1 DEF Folds
    <3> HIDE DEF Put, V, N
    <3> QED BY <3>1, <3>2, <3>3
  <2>2. g \in [SUBSET (1..N) -> V] /\ g[{}] = <<>>
    <3>1. {} \in SUBSET (1..N)
      OBVIOUS
    <3> HIDE DEF step, V, N
    <3> QED BY <1>4, <3>1 DEF Folds
  <2> HIDE DEF N, Put
  <2> QED BY <2>1, <2>2
<1>6. raw(iter)
  <2> HIDE DEF raw
  <2> QED BY <1>5
<1>7. FoldSteps(iter, N, V, <<>>, step)
  <2>1. {} \in SUBSET (1..N)
    OBVIOUS
  <2>2. iter[{}] = <<>>
    <3> HIDE DEF iter, N, Put
    <3> QED BY <1>6, <2>1
  <2>3. ASSUME NEW s \in SUBSET (1..N), s # {}, iter[s \ {Max(s)}] \in V
        PROVE  iter[s] = step[Max(s)][iter[s \ {Max(s)}]]
    <3>1. Max(s) \in 1..N
      BY <1>3, <2>3
    <3>2. iter[s] = Put(iter[s \ {Max(s)}], seq[Max(s)])
      <4> HIDE DEF iter, N, Put
      <4> QED BY <1>6, <2>3
    <3> HIDE DEF iter, N, Put, V
    <3> QED BY <2>3, <3>1, <3>2
  <2> HIDE DEF iter, step, N, V
  <2> QED BY <2>2, <2>3 DEF FoldSteps
<1>8. PICK h : Chain(h, N, V, <<>>, step) /\ h[N] = iter[1..N]
  <2> HIDE DEF step, N, V, iter
  <2> QED BY <1>0, <1>1, <1>7, FoldChain
<1>9. h[N] \in V
  <2>1. N \in 0..N
    BY <1>0
  <2> HIDE DEF step, N, V, iter
  <2> QED BY <1>8, <2>1 DEF Chain
<1> HIDE DEF iter, V
<1> QED BY <1>2, <1>8, <1>9 DEF V

\* A line is completed by one word.
LEMMA OneWordMore ==
    ASSUME NEW words \in Seq(Vocabulary), NEW w \in Vocabulary
    PROVE  /\ Completed(words, w) \in Lines
           /\ Completed(words, w).words = Append(words, w)
<1>1. Append(words, w) \in Seq(Vocabulary)
  OBVIOUS
<1>2. Completed(words, w) = [words |-> Append(words, w), open |-> FALSE]
  BY DEF Completed
<1> HIDE DEF Vocabulary
<1> QED BY <1>1, <1>2 DEF Lines

\* The words that the program writes.
LEMMA KnownWords ==
    /\ \A n \in DOMAIN NameMatches : Plain(n) \in Vocabulary
    /\ \A f \in {"--aka", "--website", "--all"} \cup Range(Debugs) : Plain(f) \in Vocabulary
BY DEF Vocabulary

\* The flags of the commands.
LEMMA KnownFlags ==
    ASSUME NEW command \in {"fetch", "health"}
    PROVE  /\ Flags[command] \in Seq({"--aka", "--website", "--all"})
           /\ Range(Flags[command]) \subseteq {"--aka", "--website", "--all"}
<1>1. CASE command = "fetch"
  <2>1. Flags[command] = <<"--aka", "--website", "--all">>
    BY <1>1 DEF Flags
  <2>2. <<"--aka", "--website", "--all">> \in Seq({"--aka", "--website", "--all"})
    OBVIOUS
  <2> QED BY <2>1, <2>2 DEF Range
<1>2. CASE command = "health"
  <2>1. Flags[command] = <<"--aka", "--website">>
    BY <1>2 DEF Flags
  <2>2. <<"--aka", "--website">> \in Seq({"--aka", "--website", "--all"})
    OBVIOUS
  <2> QED BY <2>1, <2>2 DEF Range
<1> QED BY <1>1, <1>2

\* The words that stay before a completion are some of those that are there.
LEMMA BaseWords ==
    ASSUME NEW text \in Lines, text.words # <<>>
    PROVE  /\ Base(text) \in Seq(Vocabulary)
           /\ Len(Base(text)) <= Len(text.words)
           /\ Len(Base(text)) \in Nat
           /\ \A i \in 1..Len(Base(text)) : Base(text)[i] = text.words[i]
<1>1. text.words \in Seq(Vocabulary) /\ Len(text.words) \in Nat /\ Len(text.words) > 0
  BY DEF Lines
<1>2. CASE text.open
  BY <1>1, <1>2 DEF Base
<1>3. CASE ~text.open
  <2>1. Base(text) = [i \in 1..(Len(text.words) - 1) |-> text.words[i]]
    BY <1>1, <1>3 DEF Base, Front
  <2>2. Base(text) \in Seq(Vocabulary) /\ Len(Base(text)) = Len(text.words) - 1
    BY <1>1, <2>1
  <2> QED BY <1>1, <2>1, <2>2
<1> QED BY <1>2, <1>3

\* Whatever is typed, what completes it is a sequence of lines of one word more.
LEMMA OffersFit ==
    ASSUME NEW text \in Lines
    PROVE  /\ Offers(text) \in Seq(Lines)
           /\ \A i \in DOMAIN Offers(text) :
                 Len(Offers(text)[i].words) <= Len(text.words) + 1
<1> DEFINE w == text.words
           name == IF w = <<>> THEN "" ELSE w[1].text
           names == IF name \in DOMAIN NameMatches THEN NameMatches[name] ELSE <<>>
           fit(s) == s \in Seq(Lines) /\ \A i \in DOMAIN s : Len(s[i].words) <= Len(w) + 1
<1>1. w \in Seq(Vocabulary) /\ Len(w) \in Nat /\ text.open \in BOOLEAN
  BY DEF Lines
<1>2. fit(<<>>)
  OBVIOUS
<1>3. fit([i \in DOMAIN names |-> Completed(<<>>, Plain(names[i]))])
  <2>1. names \in Seq(DOMAIN NameMatches)
    <3>1. <<>> \in Seq(DOMAIN NameMatches)
      OBVIOUS
    <3> HIDE DEF name
    <3> QED BY <3>1, CommandLineAssumption
  <2>2. DOMAIN names = 1..Len(names) /\ Len(names) \in Nat
    <3> HIDE DEF names
    <3> QED BY <2>1
  <2>3. \A i \in DOMAIN names : Plain(names[i]) \in Vocabulary
    <3> HIDE DEF names
    <3>1. \A i \in DOMAIN names : names[i] \in DOMAIN NameMatches
      BY <2>1
    <3> QED BY <3>1, KnownWords
  <2>4. <<>> \in Seq(Vocabulary)
    OBVIOUS
  <2>5. \A x \in Vocabulary : Len(Append(<<>>, x)) = 1
    OBVIOUS
  <2> HIDE DEF names
  <2>6. \A i \in DOMAIN names :
           /\ Completed(<<>>, Plain(names[i])) \in Lines
           /\ Completed(<<>>, Plain(names[i])).words = Append(<<>>, Plain(names[i]))
    BY <2>3, <2>4, OneWordMore
  <2> DEFINE new == [i \in DOMAIN names |-> Completed(<<>>, Plain(names[i]))]
  <2>7. new \in Seq(Lines)
    BY <2>2, <2>6
  <2>8. ASSUME NEW i \in DOMAIN new
        PROVE  Len(new[i].words) <= Len(w) + 1
    <3>1. new[i].words = Append(<<>>, Plain(names[i])) /\ Plain(names[i]) \in Vocabulary
      BY <2>3, <2>6
    <3> HIDE DEF new, w
    <3>2. Len(new[i].words) = 1
      BY <2>5, <3>1
    <3> QED BY <1>1, <3>2
  <2> QED BY <2>7, <2>8
<1>4. CASE w # <<>> /\ name \in {"fetch", "health"}
  <2> DEFINE last == Last(w)
             begun(f) == \/ text.open
                         \/ /\ last.text \in DOMAIN Beginnings /\ last.value = "none"
                            /\ f \in Beginnings[last.text]
             fits == Kept(Flags[name], {f \in Unused(name, Tail(w)) : begun(f)})
             new == [i \in DOMAIN fits |-> Completed(Base(text), Plain(fits[i]))]
  <2>1. fits \in Seq({"--aka", "--website", "--all"})
    <3> DEFINE S == {f \in Unused(name, Tail(w)) : begun(f)}
               E == {"--aka", "--website", "--all"}
    <3>1. Flags[name] \in Seq(E)
      BY <1>4, KnownFlags
    <3>2. Kept(Flags[name], S) \in Seq(E \cap S)
      <4> HIDE DEF S, name, E
      <4> QED BY <3>1, KeptType
    <3>3. \A s, T : s \in Seq(E \cap T) => s \in Seq(E)
      OBVIOUS
    <3> HIDE DEF S, E, name
    <3>4. Kept(Flags[name], S) \in Seq(E)
      BY <3>2, <3>3
    <3> QED BY <3>4 DEF S, E
  <2> HIDE DEF fits
  <2>2. \A i \in DOMAIN fits : Plain(fits[i]) \in Vocabulary
    BY <2>1, KnownWords
  <2>3. DOMAIN fits = 1..Len(fits) /\ Len(fits) \in Nat
    BY <2>1
  <2>4. /\ Base(text) \in Seq(Vocabulary) /\ Len(Base(text)) <= Len(w)
        /\ Len(Base(text)) \in Nat
    BY <1>4, BaseWords
  <2>5. \A i \in DOMAIN fits :
           /\ Completed(Base(text), Plain(fits[i])) \in Lines
           /\ Completed(Base(text), Plain(fits[i])).words = Append(Base(text), Plain(fits[i]))
    BY <2>2, <2>4, OneWordMore
  <2>6. \A x \in Vocabulary : Len(Append(Base(text), x)) <= Len(w) + 1
    BY <1>1, <2>4
  <2>7. new \in Seq(Lines)
    BY <2>3, <2>5
  <2>8. fit(new)
    BY <2>2, <2>5, <2>6, <2>7
  <2>9. FlagOffers(text) = IF \/ AwaitsValue(text) \/ ~HasCompany(Tail(w))
                              \/ ~(text.open \/ Dashed(last)) THEN <<>> ELSE new
    BY <1>4 DEF FlagOffers, fits
  <2>10. fit(FlagOffers(text))
    <3> HIDE DEF new, fit
    <3> QED BY <1>2, <2>8, <2>9
  <2>11. Offers(text) \in {[i \in DOMAIN names |-> Completed(<<>>, Plain(names[i]))],
                           FlagOffers(text), <<>>}
    BY <1>4 DEF Offers
  <2> HIDE DEF fit, names
  <2>12. fit(Offers(text))
    BY <1>2, <1>3, <2>10, <2>11
  <2> QED BY <2>12 DEF fit
<1>5. CASE w # <<>> /\ name = "debug"
  <2> DEFINE S == {x \in Range(Debugs) : Len(w) = 1 \/ Tail(w) = <<Plain(x)>>}
             fits == Kept(Debugs, S)
             new == [i \in DOMAIN fits |->
                        [Completed(<<w[1]>>, Plain(fits[i])) EXCEPT !.open = (fits[i] = "path")]]
  <2>1. fits \in Seq(Range(Debugs))
    <3>1. Debugs \in Seq(Range(Debugs))
      BY DEF Debugs, Range
    <3>2. fits \in Seq(Range(Debugs) \cap S)
      <4> HIDE DEF S
      <4> QED BY <3>1, KeptType
    <3> HIDE DEF fits, S
    <3> QED BY <3>2
  <2>2. \A i \in DOMAIN fits : Plain(fits[i]) \in Vocabulary
    <3> HIDE DEF fits
    <3>1. \A i \in DOMAIN fits : fits[i] \in Range(Debugs)
      BY <2>1
    <3> QED BY <3>1, KnownWords
  <2>3. DOMAIN fits = 1..Len(fits) /\ Len(fits) \in Nat
    <3> HIDE DEF fits
    <3> QED BY <2>1
  <2>4. <<w[1]>> \in Seq(Vocabulary) /\ Len(<<w[1]>>) = 1 /\ Len(w) > 0
    BY <1>1, <1>5
  <2> HIDE DEF fits
  <2>5. ASSUME NEW i \in DOMAIN fits
        PROVE  /\ new[i] \in Lines
               /\ new[i].words = Append(<<w[1]>>, Plain(fits[i]))
    <3>1. Completed(<<w[1]>>, Plain(fits[i])) \in Lines
      BY <2>2, <2>4, OneWordMore
    <3>2. new[i] = [words |-> Append(<<w[1]>>, Plain(fits[i])), open |-> (fits[i] = "path")]
      BY DEF Completed
    <3>3. Append(<<w[1]>>, Plain(fits[i])) \in Seq(Vocabulary)
      BY <2>2, <2>4
    <3>4. (fits[i] = "path") \in BOOLEAN
      OBVIOUS
    <3> HIDE DEF new
    <3> QED BY <3>2, <3>3, <3>4 DEF Lines
  <2>6. \A x \in Vocabulary : Len(Append(<<w[1]>>, x)) <= Len(w) + 1
    BY <1>1, <2>4
  <2>7. DOMAIN new = DOMAIN fits /\ new = [i \in DOMAIN fits |-> new[i]]
    OBVIOUS
  <2> HIDE DEF new
  <2>12. new \in Seq(Lines)
    BY <2>3, <2>5, <2>7
  <2>8. fit(new)
    BY <2>2, <2>5, <2>6, <2>7, <2>12
  <2>9. DebugOffers(text) = new
    BY DEF DebugOffers, new, fits
  <2>10. Offers(text) \in {[i \in DOMAIN names |-> Completed(<<>>, Plain(names[i]))],
                           DebugOffers(text)}
    BY <1>5 DEF Offers
  <2> HIDE DEF fit, names
  <2>11. fit(Offers(text))
    BY <1>3, <2>8, <2>9, <2>10
  <2> QED BY <2>11 DEF fit
<1>6. CASE w = <<>> \/ name \notin {"fetch", "health", "debug"}
  <2>1. Offers(text) \in {[i \in DOMAIN names |-> Completed(<<>>, Plain(names[i]))], <<>>}
    BY <1>1, <1>6 DEF Offers
  <2> HIDE DEF fit, names
  <2>2. fit(Offers(text))
    BY <1>2, <1>3, <2>1
  <2> QED BY <2>2 DEF fit
<1> QED BY <1>4, <1>5, <1>6

\* A value is asked for by the word before it.
Asks(w) == TakesValue(w) /\ w.value = "none"

\* Which words are values is decided from the left.
LEMMA ValuesFromTheLeft ==
    ASSUME NEW N \in Nat, NEW T
    PROVE  \E V \in SUBSET (1..N) :
              \A i \in 1..N : i \in V <=> i > 1 /\ i - 1 \notin V /\ i - 1 \in T
<1> DEFINE S == {n \in 0..N : \E V \in SUBSET (1..n) :
                    \A i \in 1..n : i \in V <=> i > 1 /\ i - 1 \notin V /\ i - 1 \in T}
<1>1. 0 \in S
  <2>1. 1..0 = {} /\ 0 \in 0..N
    OBVIOUS
  <2> QED BY <2>1
<1>2. ASSUME NEW n \in 0..N, n \in S, n < N
      PROVE  n + 1 \in S
  <2>1. PICK V \in SUBSET (1..n) :
           \A i \in 1..n : i \in V <=> i > 1 /\ i - 1 \notin V /\ i - 1 \in T
    BY <1>2
  <2> DEFINE more == n + 1 > 1 /\ n \notin V /\ n \in T
             W == IF more THEN V \cup {n + 1} ELSE V
  <2>2. n \in Nat /\ n + 1 \in 0..N /\ (n + 1) - 1 = n /\ W \in SUBSET (1..(n + 1))
    BY <1>2
  <2>3. \A i \in 1..n : (i \in W <=> i \in V) /\ (i - 1 \in W <=> i - 1 \in V)
    BY <2>2
  <2>4. n + 1 \in W <=> more
    BY <2>2
  <2>5. n \in W <=> n \in V
    BY <2>2
  <2>6. \A i \in 1..(n + 1) : i \in 1..n \/ i = n + 1
    BY <2>2
  <2> HIDE DEF W
  <2>7. \A i \in 1..(n + 1) : i \in W <=> i > 1 /\ i - 1 \notin W /\ i - 1 \in T
    BY <2>1, <2>2, <2>3, <2>4, <2>5, <2>6
  <2> QED BY <2>2, <2>7
<1>3. N \in S
  <2> HIDE DEF S
  <2>1. 0..N \subseteq S
    BY <1>1, <1>2, CountingUp
  <2> QED BY <2>1
<1> QED BY <1>3

\* What the places of values are.
LEMMA TakenWords ==
    ASSUME NEW args, NEW N \in Nat, DOMAIN args = 1..N, Len(args) = N
    PROVE  /\ Values(args) \subseteq 1..N
           /\ \A i \in 1..N : i \in Values(args) <=>
                 i > 1 /\ i - 1 \notin Values(args) /\ Asks(args[i - 1])
<1> DEFINE rule(f) == f = [i \in Nat |->
                /\ i > 1 /\ i <= Len(args)
                /\ ~f[i - 1]
                /\ TakesValue(args[i - 1]) /\ args[i - 1].value = "none"]
           taken == CHOOSE f : rule(f)
           T == {i \in 1..N : Asks(args[i])}
<1>1. PICK V \in SUBSET (1..N) :
         \A i \in 1..N : i \in V <=> i > 1 /\ i - 1 \notin V /\ i - 1 \in T
  <2> HIDE DEF T
  <2> QED BY ValuesFromTheLeft
<1>2. rule([i \in Nat |-> i \in V])
  <2> DEFINE f == [i \in Nat |-> i \in V]
             R(i) == /\ i > 1 /\ i <= Len(args)
                     /\ ~f[i - 1]
                     /\ TakesValue(args[i - 1]) /\ args[i - 1].value = "none"
  <2>1. \A i \in Nat : f[i] = (i \in V)
    OBVIOUS
  <2>2. ASSUME NEW i \in Nat
        PROVE  i \in V <=> R(i)
    <3>1. CASE i \in 1..N /\ i > 1
      <4>1. i - 1 \in 1..N /\ i - 1 \in Nat /\ i <= Len(args)
        BY <3>1
      <4>2. i - 1 \in T <=> TakesValue(args[i - 1]) /\ args[i - 1].value = "none"
        BY <4>1 DEF Asks
      <4>3. f[i - 1] <=> i - 1 \in V
        BY <2>1, <4>1, Zenon
      <4> HIDE DEF T, f
      <4> QED BY <1>1, <3>1, <4>1, <4>2, <4>3
    <3>2. CASE i = 1
      <4>1. i \notin V
        <5>1. i \in 1..N => i \notin V
          BY <1>1, <3>2
        <5> QED BY <5>1
      <4>2. ~(i > 1)
        BY <3>2
      <4> HIDE DEF f
      <4> QED BY <4>1, <4>2
    <3>3. CASE i \notin 1..N
      <4>1. i \notin V /\ ~(i > 1 /\ i <= Len(args))
        BY <3>3
      <4> HIDE DEF f
      <4> QED BY <4>1
    <3> QED BY <3>1, <3>2, <3>3
  <2>3. ASSUME NEW i \in Nat
        PROVE  (i \in V) = R(i)
    <3> HIDE DEF f
    <3>1. R(i) \in BOOLEAN
      OBVIOUS
    <3>2. CASE i \in V
      <4>1. R(i)
        BY <2>2, <3>2
      <4> HIDE DEF R
      <4>2. R(i) = TRUE
        BY <3>1, <4>1
      <4>3. (i \in V) = TRUE
        BY <3>2
      <4> QED BY <4>2, <4>3
    <3>3. CASE i \notin V
      <4>1. ~R(i)
        BY <2>2, <3>3
      <4> HIDE DEF R
      <4>2. R(i) = FALSE
        BY <3>1, <4>1
      <4>3. (i \in V) = FALSE
        BY <3>3
      <4> QED BY <4>2, <4>3
    <3> QED BY <3>2, <3>3
  <2>4. [i \in Nat |-> i \in V] = [i \in Nat |-> R(i)]
    <3> HIDE DEF R
    <3> QED BY <2>3, Zenon
  <2> QED BY <2>4, Zenon
<1>3. rule(taken)
  <2> HIDE DEF rule
  <2> QED BY <1>2
<1>4. Values(args) = {i \in 1..N : taken[i]}
  BY DEF Values
<1> HIDE DEF taken
<1>5. ASSUME NEW i \in 1..N
      PROVE  taken[i] <=> i > 1 /\ ~taken[i - 1] /\ Asks(args[i - 1])
  <2>1. i \in Nat /\ i <= Len(args)
    OBVIOUS
  <2> QED BY <1>3, <2>1 DEF Asks
<1>6. ASSUME NEW i \in 1..N, i > 1
      PROVE  i - 1 \in Values(args) <=> taken[i - 1]
  <2>1. i - 1 \in 1..N
    BY <1>6
  <2> QED BY <1>4, <2>1
<1> QED BY <1>4, <1>5, <1>6

\* A word at the end takes nothing from what the words before it are.
LEMMA ValuesStay ==
    ASSUME NEW args, NEW more, NEW N \in Nat, NEW M \in Nat, N <= M,
           DOMAIN args = 1..N, Len(args) = N, DOMAIN more = 1..M, Len(more) = M,
           \A i \in 1..N : more[i] = args[i]
    PROVE  \A i \in 1..N : i \in Values(more) <=> i \in Values(args)
<1> DEFINE S == {n \in 0..N : n \in 1..N => (n \in Values(more) <=> n \in Values(args))}
<1>1. 0 \in S
  OBVIOUS
<1>2. ASSUME NEW n \in 0..N, n \in S, n < N
      PROVE  n + 1 \in S
  <2>1. n + 1 \in 1..N /\ n + 1 \in 1..M /\ n + 1 \in 0..N /\ (n + 1) - 1 = n
    BY <1>2
  <2>2. n + 1 \in Values(args) <=> n + 1 > 1 /\ n \notin Values(args) /\ Asks(args[n])
    BY <2>1, TakenWords
  <2>3. n + 1 \in Values(more) <=> n + 1 > 1 /\ n \notin Values(more) /\ Asks(more[n])
    BY <2>1, TakenWords
  <2>4. n + 1 > 1 => n \in 1..N
    OBVIOUS
  <2> QED BY <1>2, <2>1, <2>2, <2>3, <2>4
<1>3. 0..N \subseteq S
  <2> HIDE DEF S
  <2> QED BY <1>1, <1>2, CountingUp
<1>4. \A i \in 1..N : i \in 0..N
  OBVIOUS
<1> QED BY <1>3, <1>4

\* What is accepted is accepted with one flag more, and its value if it takes one,
\* unless it is a second website.
LEMMA FlagIsAccepted ==
    ASSUME NEW command \in {"fetch", "health"}, NEW args, NEW N \in Nat,
           DOMAIN args = 1..N, Len(args) = N, Accepts(command, args),
           NEW f \in Range(Flags[command]),
           f = "--website" => \A i \in 1..N : args[i].text # f,
           NEW K \in {N + 1, N + 2}, f = "--all" => K = N + 1, f # "--all" => K = N + 2,
           NEW more, DOMAIN more = 1..K, Len(more) = K,
           \A i \in 1..N : more[i] = args[i], more[N + 1] = Plain(f)
    PROVE  Accepts(command, more)
<1> DEFINE heads == 1..N \ Values(args)
           options == {i \in heads : Option(args[i])}
           allowed == Range(Flags[command])
           heads2 == 1..K \ Values(more)
           options2 == {i \in heads2 : Option(more[i])}
<1>1. /\ \E i \in heads : ~Option(args[i])
      /\ \A i \in heads : ~Option(args[i]) => \A o \in options : i < o
      /\ \A i \in options :
            /\ args[i].text \in allowed
            /\ TakesValue(args[i]) =>
                  \/ args[i].value = "some"
                  \/ args[i].value = "none" /\ i < N
            /\ ~TakesValue(args[i]) => args[i].value = "none"
      /\ Cardinality({i \in options : args[i].text = "--website"}) <= 1
  BY DEF Accepts
<1>2. \A i \in 1..N : i \in Values(more) <=> i \in Values(args)
  BY ValuesStay
<1>3. f \in {"--aka", "--website", "--all"} /\ Option(Plain(f))
      /\ Plain(f).text = f /\ Plain(f).value = "none" /\ (TakesValue(Plain(f)) <=> f # "--all")
  BY KnownFlags DEF Option, Plain, Word, TakesValue
<1>4. N + 1 \in 1..K /\ N \in Nat /\ N > 0 /\ N \in 1..N
  BY <1>1
<1>5. N + 1 \notin Values(more)
  <2>1. N + 1 \in Values(more) <=> N + 1 > 1 /\ N \notin Values(more) /\ Asks(more[N])
    <3>1. (N + 1) - 1 = N
      OBVIOUS
    <3> QED BY <1>4, <3>1, TakenWords
  <2>2. ASSUME N \notin Values(args), Asks(args[N]) PROVE FALSE
    <3>1. N \in options
      BY <1>4, <2>2 DEF Asks, TakesValue, Option
    <3> QED BY <1>1, <2>2, <3>1 DEF Asks
  <2> QED BY <1>2, <1>4, <2>1, <2>2
<1>6. K = N + 2 => N + 2 \in Values(more)
  <2>1. ASSUME K = N + 2 PROVE N + 2 \in Values(more)
    <3>1. N + 2 \in 1..K /\ (N + 2) - 1 = N + 1 /\ N + 2 > 1
      BY <2>1
    <3>2. Asks(more[N + 1])
      BY <1>3, <2>1 DEF Asks
    <3> QED BY <1>5, <3>1, <3>2, TakenWords
  <2> QED BY <2>1
<1>7. heads2 = heads \cup {N + 1}
  <2>1. \A i \in 1..K : i \in 1..N \/ i = N + 1 \/ (i = N + 2 /\ K = N + 2)
    OBVIOUS
  <2>2. \A i \in 1..N : i \in 1..K
    OBVIOUS
  <2> QED BY <1>2, <1>4, <1>5, <1>6, <2>1, <2>2
<1>8. options2 = options \cup {N + 1} /\ N + 1 \notin options
  <2> HIDE DEF heads2
  <2>1. \A i \in heads : more[i] = args[i]
    OBVIOUS
  <2>2. N + 1 \notin heads
    OBVIOUS
  <2> HIDE DEF heads
  <2> QED BY <1>3, <1>7, <2>1, <2>2
<1>9. \A i \in heads : i \in 1..N /\ more[i] = args[i] /\ i < N + 1
  OBVIOUS
<1> HIDE DEF heads2, options2
<1>10. \E i \in heads2 : ~Option(more[i])
  BY <1>1, <1>7, <1>9
<1>11. \A i \in heads2 : ~Option(more[i]) => \A o \in options2 : i < o
  <2> HIDE DEF heads
  <2> QED BY <1>1, <1>3, <1>7, <1>8, <1>9
<1>12. \A i \in options2 :
          /\ more[i].text \in allowed
          /\ TakesValue(more[i]) =>
                \/ more[i].value = "some"
                \/ more[i].value = "none" /\ i < K
          /\ ~TakesValue(more[i]) => more[i].value = "none"
  <2>1. \A i \in options : more[i] = args[i] /\ i < N + 1 /\ i < K
    OBVIOUS
  <2>2. TakesValue(more[N + 1]) => N + 1 < K
    BY <1>3
  <2> HIDE DEF options
  <2> QED BY <1>1, <1>3, <1>8, <2>1, <2>2
<1>13. Cardinality({i \in options2 : more[i].text = "--website"}) <= 1
  <2> DEFINE sites == {i \in options : args[i].text = "--website"}
             sites2 == {i \in options2 : more[i].text = "--website"}
  <2>1. \A i \in options : more[i] = args[i] /\ i \in 1..N
    OBVIOUS
  <2>2. CASE f = "--website"
    <3>1. sites2 = {N + 1}
      <4> HIDE DEF options
      <4> QED BY <1>3, <1>8, <2>1, <2>2
    <3>2. Cardinality({N + 1}) = 1
      BY FS_Singleton
    <3> HIDE DEF sites2
    <3>3. Cardinality(sites2) <= 1
      BY <3>1, <3>2
    <3> QED BY <3>3 DEF sites2
  <2>3. CASE f # "--website"
    <3>1. sites2 = sites
      <4> HIDE DEF options
      <4> QED BY <1>3, <1>8, <2>1, <2>3
    <3> QED BY <1>1, <3>1
  <2> QED BY <2>2, <2>3
<1> QED BY <1>10, <1>11, <1>12, <1>13 DEF Accepts, heads2, options2

\* The arguments of a line of which more words are typed.
LEMMA MoreArguments ==
    ASSUME NEW E, NEW base \in Seq(E), Len(base) > 0, NEW x \in E, NEW y \in E
    PROVE  LET N == Len(base) - 1
               args == Tail(base)
               one == Append(base, x)
               two == Append(one, y)
           IN  /\ N \in Nat /\ DOMAIN args = 1..N /\ Len(args) = N
               /\ \A i \in 1..N : args[i] = base[i + 1]
               /\ one # <<>> /\ one[1] = base[1]
               /\ DOMAIN Tail(one) = 1..(N + 1) /\ Len(Tail(one)) = N + 1
               /\ \A i \in 1..N : Tail(one)[i] = args[i]
               /\ Tail(one)[N + 1] = x
               /\ two # <<>> /\ two[1] = base[1]
               /\ DOMAIN Tail(two) = 1..(N + 2) /\ Len(Tail(two)) = N + 2
               /\ \A i \in 1..N : Tail(two)[i] = args[i]
               /\ Tail(two)[N + 1] = x
OBVIOUS

\* A flag that completes a command that runs makes one that runs, or one that runs
\* with the value it takes.
LEMMA OfferRuns ==
    ASSUME NEW text \in Lines, NEW n \in DOMAIN Offers(text), Len(Base(text)) > 1,
           Base(text)[1].text # "debug", Runs(Base(text))
    PROVE  LET words == Offers(text)[n].words
           IN  Runs(words) \/ Runs(Append(words, Plain("name")))
<1> DEFINE w == text.words
           base == Base(text)
           args == Tail(base)
           N == Len(base) - 1
           command == base[1].text
           last == Last(w)
           begun(f) == \/ text.open
                       \/ /\ last.text \in DOMAIN Beginnings /\ last.value = "none"
                          /\ f \in Beginnings[last.text]
           S == {f \in Unused(command, Tail(w)) : begun(f)}
           fits == Kept(Flags[command], S)
           new == [i \in DOMAIN fits |-> Completed(base, Plain(fits[i]))]
<1>1. w \in Seq(Vocabulary) /\ Len(w) \in Nat /\ text.open \in BOOLEAN
  BY DEF Lines
<1>2. w # <<>>
  <2>1. CASE text.open
    BY <2>1 DEF Base
  <2>2. CASE ~text.open
    <3>1. Base(text) = Front(w)
      BY <2>2 DEF Base
    <3>2. w = <<>> => Front(w) = <<>>
      BY DEF Front
    <3>3. Len(<<>>) = 0
      OBVIOUS
    <3> QED BY <3>1, <3>2, <3>3
  <2> QED BY <2>1, <2>2
<1>3. /\ base \in Seq(Vocabulary) /\ Len(base) \in Nat /\ Len(base) <= Len(w)
      /\ \A i \in 1..Len(base) : base[i] = w[i]
  BY <1>2, BaseWords
<1>4. command \in {"fetch", "health"} /\ Accepts(command, args)
  BY DEF Runs
<1>5. Len(w) > 1 /\ w[1].text = command
  BY <1>1, <1>3
<1>6. Offers(text) = FlagOffers(text)
  <2>1. text.words[1].text \in {"fetch", "health"}
    BY <1>4, <1>5
  <2>2. text.words # <<>> /\ Len(text.words) > 1 /\ Len(text.words) \in Nat
    BY <1>1, <1>2, <1>5
  <2>5. Len(text.words) # 0 /\ Len(text.words) # 1
    <3> HIDE DEF w, base
    <3>1. \A k \in Nat : k > 1 => k # 0 /\ k # 1
      OBVIOUS
    <3> QED BY <2>2, <3>1, Zenon
  <2> HIDE DEF command, w, base, args, N, last, S, fits, new
  <2> DEFINE name == IF text.words = <<>> THEN "" ELSE text.words[1].text
             names == IF name \in DOMAIN NameMatches THEN NameMatches[name] ELSE <<>>
             first == [i \in DOMAIN names |-> Completed(<<>>, Plain(names[i]))]
  <2>3. Offers(text) =
           IF Len(text.words) = 0 \/ (Len(text.words) = 1 /\ ~text.open) THEN first
           ELSE CASE name = "debug" -> DebugOffers(text)
                  [] name \in {"fetch", "health"} /\ Len(text.words) > 1 -> FlagOffers(text)
                  [] OTHER -> <<>>
    BY DEF Offers
  <2>4. name \in {"fetch", "health"} /\ name # "debug"
    BY <2>1, <2>2
  <2> HIDE DEF name, first
  <2> QED BY <2>2, <2>3, <2>4, <2>5, Zenon
<1>7. FlagOffers(text) = IF \/ AwaitsValue(text) \/ ~HasCompany(Tail(w))
                            \/ ~(text.open \/ Dashed(last)) THEN <<>> ELSE new
  BY <1>5 DEF FlagOffers
<1>8. FlagOffers(text) = new /\ n \in DOMAIN fits
  <2>1. DOMAIN <<>> = {}
    OBVIOUS
  <2>2. FlagOffers(text) \in {<<>>, new}
    <3> HIDE DEF new
    <3> QED BY <1>7
  <2>3. FlagOffers(text) # <<>>
    BY <1>6, <2>1
  <2>4. DOMAIN new = DOMAIN fits
    OBVIOUS
  <2> HIDE DEF new, fits
  <2> QED BY <1>6, <2>2, <2>3, <2>4
<1> DEFINE f == fits[n]
<1>9. f \in Range(Flags[command]) /\ f \in S
  <2> DEFINE R == Range(Flags[command])
  <2>1. Flags[command] \in Seq(R)
    <3>1. Flags[command] \in Seq({"--aka", "--website", "--all"})
      BY <1>4, KnownFlags
    <3> HIDE DEF command
    <3> QED BY <3>1 DEF Range
  <2>2. fits \in Seq(R \cap S)
    <3> HIDE DEF R, S, command
    <3> QED BY <2>1, KeptType
  <2> HIDE DEF fits, R, S
  <2>3. fits[n] \in R \cap S
    BY <1>8, <2>2
  <2> QED BY <2>3 DEF R
<1>10. Offers(text)[n].words = Append(base, Plain(f))
  <2>1. new[n] = Completed(base, Plain(f))
    BY <1>8
  <2> HIDE DEF new, fits, f
  <2> QED BY <1>6, <1>8, <2>1 DEF Completed
<1>11. f \in Unused(command, Tail(w))
  <2> HIDE DEF f
  <2> QED BY <1>9
<1> HIDE DEF f, S, new
<1>12. Len(base) > 0
  BY <1>3
<1>13. \A i \in 1..N : i + 1 \in 1..Len(base) /\ i \in DOMAIN Tail(w) /\ Tail(w)[i] = w[i + 1]
  <2> HIDE DEF base
  <2> QED BY <1>1, <1>3, <1>5
<1> DEFINE one == Append(base, Plain(f))
           two == Append(one, Plain("name"))
<1>14. /\ N \in Nat /\ DOMAIN args = 1..N /\ Len(args) = N
       /\ \A i \in 1..N : args[i] = base[i + 1]
       /\ one # <<>> /\ one[1] = base[1]
       /\ DOMAIN Tail(one) = 1..(N + 1) /\ Len(Tail(one)) = N + 1
       /\ \A i \in 1..N : Tail(one)[i] = args[i]
       /\ Tail(one)[N + 1] = Plain(f)
       /\ two # <<>> /\ two[1] = base[1]
       /\ DOMAIN Tail(two) = 1..(N + 2) /\ Len(Tail(two)) = N + 2
       /\ \A i \in 1..N : Tail(two)[i] = args[i]
       /\ Tail(two)[N + 1] = Plain(f)
  <2> DEFINE E == Vocabulary \cup {Plain(f), Plain("name")}
  <2>1. base \in Seq(E) /\ Plain(f) \in E /\ Plain("name") \in E
    <3> HIDE DEF base
    <3> QED BY <1>3
  <2> HIDE DEF base, E
  <2> QED BY <1>12, <2>1, MoreArguments
<1> HIDE DEF one, two, args, N
<1>15. f = "--website" => \A i \in 1..N : args[i].text # f
  <2>1. ASSUME f = "--website", NEW i \in 1..N
        PROVE  args[i].text # f
    <3>1. args[i] = Tail(w)[i] /\ i \in DOMAIN Tail(w)
      BY <1>3, <1>13, <1>14
    <3>2. \A j \in DOMAIN Tail(w) : Tail(w)[j].text # f
      BY <1>11, <2>1 DEF Unused
    <3> QED BY <3>1, <3>2
  <2> QED BY <2>1
<1> HIDE DEF command
<1>16. CASE f = "--all"
  <2> DEFINE more == Tail(one)
             K == N + 1
  <2>3. /\ DOMAIN more = 1..K /\ Len(more) = K
        /\ \A i \in 1..N : more[i] = args[i]
        /\ more[N + 1] = Plain(f)
    BY <1>14
  <2>4. /\ K \in {N + 1, N + 2}
        /\ f = "--all" => K = N + 1
        /\ f # "--all" => K = N + 2
    BY <1>16
  <2> HIDE DEF more, K, fits
  <2>5. N \in Nat /\ DOMAIN args = 1..N /\ Len(args) = N
    BY <1>14
  <2>6. f \in Range(Flags[command])
    BY <1>9
  <2>7. Accepts(command, more)
    BY <1>4, <1>15, <2>3, <2>4, <2>5, <2>6, FlagIsAccepted
  <2>1. Accepts(command, Tail(one))
    BY <2>7 DEF more
  <2>2. Runs(one)
    BY <1>4, <1>14, <2>1 DEF Runs, command
  <2> QED BY <1>10, <2>2 DEF one
<1>17. CASE f # "--all"
  <2> DEFINE more == Tail(two)
             K == N + 2
  <2>3. /\ DOMAIN more = 1..K /\ Len(more) = K
        /\ \A i \in 1..N : more[i] = args[i]
        /\ more[N + 1] = Plain(f)
    BY <1>14
  <2>4. /\ K \in {N + 1, N + 2}
        /\ f = "--all" => K = N + 1
        /\ f # "--all" => K = N + 2
    BY <1>17
  <2> HIDE DEF more, K, fits
  <2>5. N \in Nat /\ DOMAIN args = 1..N /\ Len(args) = N
    BY <1>14
  <2>6. f \in Range(Flags[command])
    BY <1>9
  <2>7. Accepts(command, more)
    BY <1>4, <1>15, <2>3, <2>4, <2>5, <2>6, FlagIsAccepted
  <2>1. Accepts(command, Tail(two))
    BY <2>7 DEF more
  <2>2. Runs(two)
    BY <1>4, <1>14, <2>1 DEF Runs, command
  <2> QED BY <1>10, <2>2 DEF one, two
<1> QED BY <1>16, <1>17

-----------------------------------------------------------------------------
(* What is on the command line.                                            *)

\* The completions are those of what was typed, and the line is one of them.
LineInv ==
    /\ LineTypeOK
    /\ Cycling => /\ line.offers = Offers(line.typed)
                  /\ line.at \in DOMAIN line.offers
                  /\ line.text = line.offers[line.at]

\* An empty prompt.
LEMMA EmptyPrompt == NoLine \in Lines /\ (line = NoCommand => LineInv)
<1>1. NoLine \in Lines
  <2>1. <<>> \in Seq(Vocabulary)
    OBVIOUS
  <2> QED BY <2>1 DEF NoLine, Lines
<1>2. ASSUME line = NoCommand PROVE LineInv
  <2>1. /\ line.text = NoLine /\ line.typed = NoLine /\ line.offers = <<>> /\ line.at = 1
    BY <1>2 DEF NoCommand
  <2>2. <<>> \in Seq(Lines) /\ Len(<<>>) = 0 /\ Len(NoLine.words) = 0
    BY DEF NoLine
  <2> QED BY <1>1, <2>1, <2>2, CommandLineAssumption DEF LineInv, LineTypeOK, Cycling
<1> QED BY <1>1, <1>2

\* A prompt that is emptied.
LEMMA EmptyPromptNext == line' = NoCommand => LineInv'
<1> SUFFICES ASSUME line' = NoCommand PROVE LineInv'
  OBVIOUS
<1>1. /\ line'.text = NoLine /\ line'.typed = NoLine /\ line'.offers = <<>> /\ line'.at = 1
  BY DEF NoCommand
<1>2. <<>> \in Seq(Lines) /\ Len(<<>>) = 0 /\ Len(NoLine.words) = 0
  BY DEF NoLine
<1> QED BY <1>1, <1>2, EmptyPrompt, CommandLineAssumption DEF LineInv, LineTypeOK, Cycling

\* A line as it is typed.
LEMMA TypedLine ==
    ASSUME NEW text \in Lines, Len(text.words) <= MaxWords + 1, PutLine(text)
    PROVE  LineInv'
<1>1. /\ line'.text = text /\ line'.typed = text /\ line'.offers = <<>> /\ line'.at = 1
  BY DEF PutLine, NoCommand
<1>2. <<>> \in Seq(Lines) /\ Len(<<>>) = 0
  OBVIOUS
<1> QED BY <1>1, <1>2 DEF LineInv, LineTypeOK, Cycling

\* The keys of the command line.
LEMMA TypeKeepsLine == ASSUME LineInv, Type PROVE LineInv'
<1> DEFINE t == line.text
           words == IF t.open \/ t.words = <<>> THEN t.words ELSE Front(t.words)
<1>1. t \in Lines /\ t.words \in Seq(Vocabulary) /\ Len(t.words) \in Nat
      /\ Len(t.words) <= MaxWords + 1 /\ MaxWords \in Nat
  BY CommandLineAssumption DEF LineInv, LineTypeOK, Lines
<1>2. words \in Seq(Vocabulary) /\ Len(words) \in Nat /\ Len(words) <= MaxWords + 1
  <2>1. CASE t.open \/ t.words = <<>>
    BY <1>1, <2>1
  <2>2. CASE ~(t.open \/ t.words = <<>>)
    <3>1. Front(t.words) = [i \in 1..(Len(t.words) - 1) |-> t.words[i]]
      BY <1>1, <2>2 DEF Front
    <3>2. Front(t.words) \in Seq(Vocabulary) /\ Len(Front(t.words)) = Len(t.words) - 1
      BY <1>1, <2>2, <3>1
    <3> HIDE DEF t
    <3> QED BY <1>1, <2>2, <3>2
  <2> QED BY <2>1, <2>2
<1> HIDE DEF words
<1>3. \/ /\ Len(words) < MaxWords
         /\ \E w \in Vocabulary : PutLine([words |-> Append(words, w), open |-> FALSE])
      \/ PutLine([words |-> words, open |-> words # <<>>])
  <2>1. \/ /\ Len(words) < MaxWords
           /\ \E w \in IF words = <<>> THEN {Plain(n) : n \in DOMAIN NameMatches \ {""}}
                       ELSE Arguments :
                 PutLine([words |-> Append(words, w), open |-> FALSE])
        \/ PutLine([words |-> words, open |-> words # <<>>])
    BY DEF Type, words
  <2>2. {Plain(n) : n \in DOMAIN NameMatches \ {""}} \subseteq Vocabulary
        /\ Arguments \subseteq Vocabulary
    BY KnownWords DEF Vocabulary
  <2> QED BY <2>1, <2>2
<1>4. CASE PutLine([words |-> words, open |-> words # <<>>])
  <2> DEFINE text == [words |-> words, open |-> words # <<>>]
  <2>1. text \in Lines /\ text.words = words
    <3>1. (words # <<>>) \in BOOLEAN
      OBVIOUS
    <3> QED BY <1>2, <3>1 DEF Lines
  <2> HIDE DEF text
  <2>2. PutLine(text)
    BY <1>4 DEF text
  <2> QED BY <1>2, <2>1, <2>2, TypedLine
<1>5. CASE /\ Len(words) < MaxWords
           /\ \E w \in Vocabulary : PutLine([words |-> Append(words, w), open |-> FALSE])
  <2>1. PICK w \in Vocabulary : PutLine([words |-> Append(words, w), open |-> FALSE])
    BY <1>5
  <2> DEFINE text == [words |-> Append(words, w), open |-> FALSE]
  <2>2. Append(words, w) \in Seq(Vocabulary) /\ Len(Append(words, w)) = Len(words) + 1
    BY <1>2
  <2>3. text \in Lines /\ text.words = Append(words, w)
    BY <2>2 DEF Lines
  <2>4. PutLine(text)
    BY <2>1
  <2> HIDE DEF text
  <2>5. Len(text.words) <= MaxWords + 1
    BY <1>1, <1>2, <1>5, <2>2, <2>3
  <2> QED BY <2>3, <2>4, <2>5, TypedLine
<1> QED BY <1>3, <1>4, <1>5

\* Tab.
LEMMA TabKeepsLine == ASSUME LineInv, Tab PROVE LineInv'
<1> DEFINE query == IF line.typed = NoLine /\ ~Cycling THEN line.text ELSE line.typed
           offers == IF Cycling THEN line.offers ELSE Offers(query)
           at == IF Cycling THEN (line.at % Len(offers)) + 1 ELSE 1
<1>1. /\ Len(query.words) <= MaxWords
      /\ line' = [text |-> IF offers = <<>> THEN line.text ELSE offers[at],
                  typed |-> query, offers |-> offers, at |-> at]
  BY DEF Tab
<1>2. /\ line.text \in Lines /\ Len(line.text.words) <= MaxWords + 1
      /\ line.typed \in Lines /\ line.offers \in Seq(Lines)
      /\ line.at \in 1..Len(line.offers) + 1
      /\ MaxWords \in Nat
  BY CommandLineAssumption DEF LineInv, LineTypeOK
<1>3. query \in Lines
  BY <1>2
<1>4. offers = Offers(query)
  BY DEF LineInv
<1> HIDE DEF query
<1>5. /\ offers \in Seq(Lines)
      /\ \A i \in DOMAIN offers : Len(offers[i].words) <= MaxWords + 1
  <2>1. Len(query.words) \in Nat
    BY <1>3 DEF Lines
  <2>2. /\ offers \in Seq(Lines)
        /\ \A i \in DOMAIN offers : Len(offers[i].words) <= Len(query.words) + 1
    <3> HIDE DEF offers
    <3> QED BY <1>3, <1>4, OffersFit
  <2>3. \A i \in DOMAIN offers : Len(offers[i].words) \in Nat
    <3> HIDE DEF offers
    <3>1. \A i \in DOMAIN offers : offers[i] \in Lines
      BY <2>2
    <3> QED BY <3>1 DEF Lines
  <2> HIDE DEF offers
  <2> QED BY <1>1, <1>2, <2>1, <2>2, <2>3
<1>6. DOMAIN offers = 1..Len(offers) /\ Len(offers) \in Nat
  <2> HIDE DEF offers
  <2> QED BY <1>5
<1>7. offers # <<>> => Len(offers) > 0
  <2> HIDE DEF offers
  <2> QED BY <1>5
<1>8. offers # <<>> => at \in DOMAIN offers
  <2>1. CASE Cycling
    <3>1. line.at \in Nat
      BY <1>2
    <3>2. at = (line.at % Len(offers)) + 1
      BY <2>1
    <3> HIDE DEF offers, at
    <3> QED BY <1>6, <1>7, <3>1, <3>2
  <2>2. CASE ~Cycling
    <3>1. at = 1
      BY <2>2
    <3> HIDE DEF offers, at
    <3> QED BY <1>6, <1>7, <3>1
  <2> QED BY <2>1, <2>2
<1>9. offers = <<>> => at = 1
  BY DEF Cycling
<1> HIDE DEF offers, at
<1>10. /\ line'.text = IF offers = <<>> THEN line.text ELSE offers[at]
       /\ line'.typed = query /\ line'.offers = offers /\ line'.at = at
  BY <1>1
<1>11. CASE offers = <<>>
  <2>1. Len(offers) = 0
    BY <1>11
  <2>2. at \in 1..Len(offers) + 1
    BY <1>9, <1>11, <2>1
  <2> QED BY <1>2, <1>3, <1>5, <1>10, <1>11, <2>2 DEF LineInv, LineTypeOK, Cycling
<1>12. CASE offers # <<>>
  <2>1. offers[at] \in Lines /\ Len(offers[at].words) <= MaxWords + 1
    BY <1>5, <1>8, <1>12
  <2>2. at \in 1..Len(offers) + 1
    BY <1>6, <1>8, <1>12
  <2> QED BY <1>3, <1>4, <1>5, <1>8, <1>10, <1>12, <2>1, <2>2 DEF LineInv, LineTypeOK, Cycling
<1> QED BY <1>11, <1>12

\* Space.
LEMMA SpaceKeepsLine == ASSUME LineInv, Space PROVE LineInv'
<1> DEFINE text == [line.text EXCEPT !.open = TRUE]
<1>1. line.text \in Lines /\ Len(line.text.words) <= MaxWords + 1
  BY DEF LineInv, LineTypeOK
<1>2. text \in Lines /\ text.words = line.text.words
  BY <1>1 DEF Lines
<1>3. PutLine(text)
  BY DEF Space
<1> HIDE DEF text
<1> QED BY <1>1, <1>2, <1>3, TypedLine

\* Every step of the program.
LEMMA LineStep == ASSUME LineInv, [Next]_vars PROVE LineInv'
<1>1. ASSUME line' = line PROVE LineInv'
  BY <1>1 DEF LineInv, LineTypeOK, Cycling
<1>2. CASE Commands
  <2>1. CASE OpenCommand \/ LeaveCommand \/ NothingStarted(fetching) \/ HealthCommand
              \/ StartFetchCommand
    <3>1. line' = NoCommand
      BY <2>1 DEF OpenCommand, LeaveCommand, NothingStarted, HealthCommand,
                  StartFetchCommand, FetchCommand
    <3> QED BY <3>1, EmptyPromptNext
  <2> QED BY <1>2, <2>1, TypeKeepsLine, TabKeepsLine, SpaceKeepsLine DEF Commands
<1>3. CASE Reboot
  BY <1>3, EmptyPromptNext DEF Reboot
<1>4. CASE \/ Wizard \/ AcceptPreview \/ List \/ HealthOfCompanies \/ OpenEdit \/ StartFetch
           \/ FetchEnds \/ AcceptReview \/ DismissNotice \/ CheckPostings \/ CheckEnds
           \/ UNCHANGED vars
  <2>1. line' = line
    BY <1>4 DEF Wizard, AcceptPreview, List, HealthOfCompanies, OpenEdit, StartFetch, FetchEnds,
                Notice, AcceptReview, DismissNotice, CheckPostings, CheckEnds, vars
  <2> QED BY <1>1, <2>1
<1> QED BY <1>2, <1>3, <1>4 DEF Next

\* The completions on the command line are those of what was typed, through any keys.
THEOREM LineInvariance == FairSpec => []LineInv
<1>1. Init => LineInv
  BY EmptyPrompt DEF Init, Quiet
<1>2. LineInv /\ [Next]_vars => LineInv'
  BY LineStep
<1> QED BY <1>1, <1>2, PTL DEF FairSpec

\* A flag that tab writes behind a command that runs makes a command that runs, once its
\* value follows: for any names, words that are typed and lengths of the line.
THEOREM CompletionsRunTheorem == FairSpec => []CompletionsRun
<1>1. LineInv => CompletionsRun
  <2> SUFFICES ASSUME LineInv, Cycling, Len(Base(line.typed)) > 1,
                      Base(line.typed)[1].text # "debug", Runs(Base(line.typed))
               PROVE  Runs(line.text.words) \/ Runs(Append(line.text.words, Plain("name")))
    BY DEF CompletionsRun
  <2>1. /\ line.typed \in Lines /\ line.at \in DOMAIN Offers(line.typed)
        /\ line.text = Offers(line.typed)[line.at]
    BY DEF LineInv, LineTypeOK
  <2> QED BY <2>1, OfferRuns
<1> QED BY <1>1, LineInvariance, PTL

-----------------------------------------------------------------------------
(* The wizard.                                                             *)

MainSteps == Steps \ SideSteps
Firsts == {"recovery", "llm_choice", "config_menu"}

\* Two pieces of a plan.
LEMMA PlanPieces ==
    ASSUME NEW x \in Seq(MainSteps), NEW y \in Seq(MainSteps)
    PROVE  /\ x \o y \in Seq(MainSteps)
           /\ x # <<>> => x \o y # <<>> /\ Head(x \o y) = Head(x)
<1> HIDE DEF MainSteps
<1>1. x \o y \in Seq(MainSteps)
  OBVIOUS
<1>2. x # <<>> => Len(x) > 0 /\ Len(x \o y) > 0 /\ (x \o y)[1] = x[1]
  OBVIOUS
<1> QED BY <1>1, <1>2

\* A plan has steps, none of which is one that is only reached from another, and
\* none begins with a list.
LEMMA PlanSteps ==
    ASSUME NEW s
    PROVE  /\ Plan(s) \in Seq(MainSteps)
           /\ Head(Plan(s)) \in Firsts
<1>1. /\ <<>> \in Seq(MainSteps)
      /\ <<"recovery">> \in Seq(MainSteps) /\ <<"llm_choice">> \in Seq(MainSteps)
      /\ <<"config_menu">> \in Seq(MainSteps) /\ <<"criteria", "summary">> \in Seq(MainSteps)
      /\ <<"prompt_review">> \in Seq(MainSteps) /\ <<"preview">> \in Seq(MainSteps)
      /\ <<"resume_choice", "resume_path">> \in Seq(MainSteps)
      /\ <<"provider", "auth_mode", "auth_value", "model">> \in Seq(MainSteps)
      /\ <<"llm_menu", "provider", "auth_mode", "auth_value", "model", "summary">> \in Seq(MainSteps)
  BY DEF MainSteps, Steps, SideSteps
<1>2. Head(<<"recovery">>) = "recovery" /\ Head(<<"llm_choice">>) = "llm_choice"
      /\ Head(<<"config_menu">>) = "config_menu"
      /\ <<"llm_choice">> # <<>> /\ <<"config_menu">> # <<>>
  OBVIOUS
<1>3. CASE s.mode = "recovery"
  BY <1>1, <1>2, <1>3 DEF Plan, Firsts
<1>4. CASE s.mode = "bootstrap"
  <2> DEFINE first == <<"llm_choice">>
             resume == IF s.prefill THEN <<"resume_choice", "resume_path">> ELSE <<>>
             models == <<"provider", "auth_mode", "auth_value", "model">>
             llm == IF s.useLLM THEN models \o resume ELSE <<>>
             prompt == IF s.useLLM THEN <<"prompt_review">> ELSE <<>>
             form == <<"criteria", "summary">>
             last == <<"preview">>
  <2>1. Plan(s) = first \o llm \o form \o prompt \o last
    BY <1>4 DEF Plan, BootstrapPlan
  <2>2. /\ first \in Seq(MainSteps) /\ resume \in Seq(MainSteps) /\ models \in Seq(MainSteps)
        /\ prompt \in Seq(MainSteps) /\ form \in Seq(MainSteps) /\ last \in Seq(MainSteps)
        /\ first # <<>> /\ Head(first) = "llm_choice"
    BY <1>1, <1>2
  <2> HIDE DEF first, resume, models, prompt, form, last
  <2>3. llm \in Seq(MainSteps)
    BY <1>1, <2>2, PlanPieces
  <2> HIDE DEF llm
  <2>4. first \o llm \in Seq(MainSteps) /\ first \o llm # <<>> /\ Head(first \o llm) = "llm_choice"
    BY <2>2, <2>3, PlanPieces
  <2>5. /\ first \o llm \o form \in Seq(MainSteps) /\ first \o llm \o form # <<>>
        /\ Head(first \o llm \o form) = "llm_choice"
    BY <2>2, <2>4, PlanPieces
  <2>6. /\ first \o llm \o form \o prompt \in Seq(MainSteps)
        /\ first \o llm \o form \o prompt # <<>>
        /\ Head(first \o llm \o form \o prompt) = "llm_choice"
    BY <2>2, <2>5, PlanPieces
  <2>7. /\ first \o llm \o form \o prompt \o last \in Seq(MainSteps)
        /\ Head(first \o llm \o form \o prompt \o last) = "llm_choice"
    BY <2>2, <2>6, PlanPieces
  <2> QED BY <2>1, <2>7 DEF Firsts
<1>5. CASE s.mode \notin {"recovery", "bootstrap"}
  <2>1. Plan(s) = <<"config_menu">> \o SectionPlan(s.section)
    BY <1>5 DEF Plan
  <2>2. SectionPlan(s.section) \in Seq(MainSteps)
    BY <1>1 DEF SectionPlan
  <2>3. /\ <<"config_menu">> \o SectionPlan(s.section) \in Seq(MainSteps)
        /\ Head(<<"config_menu">> \o SectionPlan(s.section)) = "config_menu"
    BY <1>1, <1>2, <2>2, PlanPieces
  <2> QED BY <2>1, <2>3 DEF Firsts
<1> QED BY <1>3, <1>4, <1>5

\* Where the wizard goes: a step is set if the plan has it, or the first of the plan is;
\* what is ahead or behind is in the plan.
LEMMA SetStepGoes ==
    ASSUME NEW s, NEW step
    PROVE  \E x \in {step} \cup Firsts : SetStep(s, step) = [s EXCEPT !.step = x]
<1>1. Head(Plan(s)) \in Firsts
  BY PlanSteps
<1>2. CASE InPlan(s, step)
  BY <1>2 DEF SetStep
<1>3. CASE ~InPlan(s, step)
  BY <1>1, <1>3 DEF SetStep
<1> QED BY <1>2, <1>3

\* A key that goes on stays or goes to a step of the plan.
LEMMA AdvanceGoes ==
    ASSUME NEW s
    PROVE  \E x \in {s.step} \cup MainSteps : Advance(s) = [s EXCEPT !.step = x]
<1>1. Plan(s) \in Seq(MainSteps)
  BY PlanSteps
<1>2. CASE Ahead(s) = {}
  BY <1>2 DEF Advance
<1>3. CASE Ahead(s) # {}
  <2> DEFINE i == CHOOSE i \in Ahead(s) : TRUE
  <2>1. i \in Ahead(s)
    BY <1>3
  <2>2. i \in 1..Len(Plan(s))
    BY <1>1, <2>1 DEF Ahead
  <2> HIDE DEF i
  <2>3. Plan(s)[i] \in MainSteps
    BY <1>1, <2>2
  <2>4. Advance(s) = [s EXCEPT !.step = Plan(s)[i]]
    BY <1>3 DEF Advance, i
  <2> QED BY <2>3, <2>4
<1> QED BY <1>2, <1>3

\* So does one that goes back.
LEMMA RetreatGoes ==
    ASSUME NEW s
    PROVE  \E x \in {s.step} \cup MainSteps : Retreat(s) = [s EXCEPT !.step = x]
<1>1. Plan(s) \in Seq(MainSteps)
  BY PlanSteps
<1>2. CASE Behind(s) = {}
  BY <1>2 DEF Retreat
<1>3. CASE Behind(s) # {}
  <2> DEFINE i == CHOOSE i \in Behind(s) : TRUE
  <2>1. i \in Behind(s)
    BY <1>3
  <2>2. i \in 1..Len(Plan(s))
    BY <1>1, <2>1 DEF Behind
  <2> HIDE DEF i
  <2>3. Plan(s)[i] \in MainSteps
    BY <1>1, <2>2
  <2>4. Retreat(s) = [s EXCEPT !.step = Plan(s)[i]]
    BY <1>3 DEF Retreat, i
  <2> QED BY <2>3, <2>4
<1> QED BY <1>2, <1>3

\* The configuration of a new start, and a form that is empty.
LEMMA DefaultsFit ==
    /\ DefaultConfig \in Configs
    /\ Criteria \subseteq FormValues
    /\ 1 \in Fields /\ FieldCount \in Fields /\ FieldCount \in Nat
<1>1. NoCriteria \in Criteria
  <2>1. \A f \in Fields : Empty \in Typed[f] /\ Empty # Invalid
    BY SetupAssumption DEF Empty, Invalid
  <2>2. NoCriteria \in [Fields -> UNION {Typed[f] : f \in Fields}]
    BY <2>1 DEF NoCriteria
  <2>3. \A f \in Fields : NoCriteria[f] = Empty
    BY DEF NoCriteria
  <2> QED BY <2>1, <2>2, <2>3 DEF Criteria, FormValues, Parses
<1>2. DefaultConfig \in Configs
  BY <1>1, SetupAssumption DEF DefaultConfig, Configs
<1>3. 1 \in Fields /\ FieldCount \in Fields /\ FieldCount \in Nat
  BY SetupAssumption DEF Fields
<1> QED BY <1>2, <1>3 DEF Criteria

\* What a key may put into the wizard, part by part.
LEMMA PartsOfWizard ==
    ASSUME NEW s \in Wizards
    PROVE  /\ \A x \in Steps : [s EXCEPT !.step = x] \in Wizards
           /\ \A x \in Sections : [s EXCEPT !.section = x] \in Wizards
           /\ \A x \in Nat : [s EXCEPT !.idx = x] \in Wizards
           /\ \A x \in Fields : [s EXCEPT !.field = x] \in Wizards
           /\ \A x \in BOOLEAN : [s EXCEPT !.useLLM = x] \in Wizards
           /\ \A x \in Configs : [s EXCEPT !.config = x] \in Wizards
           /\ \A x \in FormValues : [s EXCEPT !.fields = x] \in Wizards
           /\ \A x \in SUBSET Criteria : [s EXCEPT !.generated = x] \in Wizards
           /\ \A x \in Prompts : [s EXCEPT !.prompt = x] \in Wizards
           /\ \A x \in SUBSET {"resume", "preview"} : [s EXCEPT !.busy = x] \in Wizards
           /\ \A x \in SUBSET Criteria : [s EXCEPT !.preview = x] \in Wizards
           /\ \A x \in BOOLEAN : [s EXCEPT !.known = x] \in Wizards
           /\ \A x \in SUBSET {"llm_menu", "provider_menu", "task_menu"} :
                 [s EXCEPT !.open = x] \in Wizards
           /\ \A x \in BOOLEAN : [s EXCEPT !.return = x] \in Wizards
           /\ \A x \in BOOLEAN : [s EXCEPT !.prefill = x] \in Wizards
<1> USE DEF Wizards
<1>1. \A x \in Steps : [s EXCEPT !.step = x] \in Wizards
  OBVIOUS
<1>2. \A x \in Sections : [s EXCEPT !.section = x] \in Wizards
  OBVIOUS
<1>3. \A x \in Nat : [s EXCEPT !.idx = x] \in Wizards
  OBVIOUS
<1>4. \A x \in Fields : [s EXCEPT !.field = x] \in Wizards
  OBVIOUS
<1>5. \A x \in BOOLEAN : [s EXCEPT !.useLLM = x] \in Wizards
  OBVIOUS
<1>6. \A x \in Configs : [s EXCEPT !.config = x] \in Wizards
  OBVIOUS
<1>7. \A x \in FormValues : [s EXCEPT !.fields = x] \in Wizards
  OBVIOUS
<1>8. \A x \in SUBSET Criteria : [s EXCEPT !.generated = x] \in Wizards
  OBVIOUS
<1>9. \A x \in Prompts : [s EXCEPT !.prompt = x] \in Wizards
  OBVIOUS
<1>10. \A x \in SUBSET {"resume", "preview"} : [s EXCEPT !.busy = x] \in Wizards
  OBVIOUS
<1>11. \A x \in SUBSET Criteria : [s EXCEPT !.preview = x] \in Wizards
  OBVIOUS
<1>12. \A x \in BOOLEAN : [s EXCEPT !.known = x] \in Wizards
  OBVIOUS
<1>13. \A x \in SUBSET {"llm_menu", "provider_menu", "task_menu"} :
          [s EXCEPT !.open = x] \in Wizards
  OBVIOUS
<1>14. \A x \in BOOLEAN : [s EXCEPT !.return = x] \in Wizards
  OBVIOUS
<1>15. \A x \in BOOLEAN : [s EXCEPT !.prefill = x] \in Wizards
  OBVIOUS
<1> HIDE DEF Wizards
<1> QED BY <1>1, <1>2, <1>3, <1>4, <1>5, <1>6, <1>7, <1>8, <1>9, <1>10, <1>11, <1>12,
           <1>13, <1>14, <1>15

\* The cursor is on the list, and at the top where there is none.
Placed(s) == IF Listing(s) THEN s.idx < OptionCount(s) ELSE s.idx = 0

\* The inductive invariant of the wizard.
WizardInv == WizardTypeOK /\ Placed(setup)

\* A wizard with the cursor at the top.
Calm(s) == s \in Wizards /\ s.idx = 0

\* There are models to choose from.
LEMMA OptionsAreCounted ==
    ASSUME NEW s
    PROVE  OptionCount(s) \in Nat /\ OptionCount(s) > 0
<1>1. (IF s.known THEN FetchedModels ELSE OwnModels) \in Nat
  BY SetupAssumption
<1> QED BY <1>1 DEF OptionCount, ModelOptions, TaskOptions

\* What is settled is placed, if the cursor was put on the list that is shown, or at the top.
LEMMA SettledIsPlaced ==
    ASSUME NEW s \in Wizards,
           Listing(s) => s.idx = 0 \/ (Listing(setup) /\ s.idx < OptionCount(s)),
           NEW t \in Settled(s)
    PROVE  t \in Wizards /\ Placed(t)
<1> DEFINE i == IF Listing(s) THEN s.idx ELSE 0
           f == IF s.step = "criteria" THEN s.field ELSE 1
<1>1. PICK k \in IF ~Listing(s) THEN {FALSE} ELSE IF Listing(setup) THEN {s.known}
                 ELSE BOOLEAN :
         t = [s EXCEPT !.idx = i, !.field = f, !.known = k]
  BY DEF Settled
<1>2. s.known \in BOOLEAN /\ s.idx \in Nat /\ s.field \in Fields
  BY DEF Wizards
<1>3. k \in BOOLEAN /\ i \in Nat /\ f \in Fields
  BY <1>2, DefaultsFit
<1> DEFINE t1 == [s EXCEPT !.idx = i]
           t2 == [t1 EXCEPT !.field = f]
<1>4. t = [t2 EXCEPT !.known = k]
  BY <1>1 DEF Wizards
<1> HIDE DEF i, f
<1>5. t1 \in Wizards
  BY <1>3, PartsOfWizard
<1>6. t2 \in Wizards
  <2> HIDE DEF t1
  <2> QED BY <1>3, <1>5, PartsOfWizard
<1>7. t \in Wizards
  <2> HIDE DEF t2
  <2> QED BY <1>3, <1>4, <1>6, PartsOfWizard
<1>8. t.step = s.step /\ t.idx = i /\ t.known = k
  BY <1>1 DEF Wizards
<1>9. Listing(t) <=> Listing(s)
  BY <1>8 DEF Listing
<1>10. CASE ~Listing(s)
  BY <1>7, <1>8, <1>9, <1>10 DEF Placed, i
<1>11. CASE Listing(s) /\ s.idx = 0
  <2>1. t.idx = 0
    BY <1>8, <1>11 DEF i
  <2> QED BY <1>7, <2>1, OptionsAreCounted DEF Placed
<1>12. CASE Listing(s) /\ Listing(setup) /\ s.idx < OptionCount(s)
  <2>1. t.idx = s.idx /\ t.known = s.known
    BY <1>1, <1>8, <1>12 DEF i
  <2>2. OptionCount(t) = OptionCount(s)
    BY <1>8, <2>1 DEF OptionCount, ModelOptions, TaskOptions
  <2> QED BY <1>7, <1>9, <1>12, <2>1, <2>2 DEF Placed
<1> QED BY <1>10, <1>11, <1>12

\* A wizard with the cursor at the top stays one that is placed.
LEMMA CalmIsSettled ==
    ASSUME NEW s, Calm(s), NEW t \in Settled(s)
    PROVE  t \in Wizards /\ Placed(t)
BY SettledIsPlaced DEF Calm

\* It becomes one with the cursor at the top.
LEMMA BecomesCalm ==
    ASSUME WizardInv, NEW s, Calm(s), Become(s)
    PROVE  WizardInv'
<1>1. setup' \in Wizards /\ Placed(setup')
  BY CalmIsSettled DEF Become
<1>2. Placed(setup)'
  BY <1>1 DEF Placed, Listing, OptionCount, ModelOptions, TaskOptions
<1> QED BY <1>1, <1>2 DEF WizardInv, WizardTypeOK, Become

\* A configuration that is written.
LEMMA SavedConfig ==
    ASSUME WizardInv, NEW s \in Wizards, SaveConfig(s)
    PROVE  disk' \in Disks /\ UNCHANGED <<screen, asked>> /\ setup' \in Settled(s)
<1>1. disk \in Disks /\ s.config \in Configs
  BY DEF WizardInv, WizardTypeOK, Wizards
<1>2. [disk EXCEPT !.exists = TRUE, !.config = s.config] \in Disks
  BY <1>1 DEF Disks
<1> QED BY <1>1, <1>2 DEF SaveConfig

\* And is written to the disk first.
LEMMA SavesCalm ==
    ASSUME WizardInv, NEW s, Calm(s), SaveConfig(s)
    PROVE  WizardInv'
<1>1. disk' \in Disks /\ UNCHANGED <<screen, asked>> /\ setup' \in Settled(s)
  BY SavedConfig DEF Calm
<1>2. setup' \in Wizards /\ Placed(setup')
  BY <1>1, CalmIsSettled
<1>3. Placed(setup)'
  BY <1>2 DEF Placed, Listing, OptionCount, ModelOptions, TaskOptions
<1> QED BY <1>1, <1>2, <1>3 DEF WizardInv, WizardTypeOK

\* Changes that leave the cursor at the top.
LEMMA CalmParts ==
    ASSUME NEW s, Calm(s)
    PROVE  /\ \A x \in Steps : Calm([s EXCEPT !.step = x])
           /\ \A x \in Sections : Calm([s EXCEPT !.section = x])
           /\ Calm([s EXCEPT !.idx = 0])
           /\ \A x \in Fields : Calm([s EXCEPT !.field = x])
           /\ \A x \in Configs : Calm([s EXCEPT !.config = x])
           /\ \A x \in FormValues : Calm([s EXCEPT !.fields = x])
           /\ \A x \in SUBSET Criteria : Calm([s EXCEPT !.generated = x])
           /\ \A x \in Prompts : Calm([s EXCEPT !.prompt = x])
           /\ \A x \in SUBSET {"resume", "preview"} : Calm([s EXCEPT !.busy = x])
           /\ \A x \in SUBSET Criteria : Calm([s EXCEPT !.preview = x])
           /\ \A x \in SUBSET {"llm_menu", "provider_menu", "task_menu"} :
                 Calm([s EXCEPT !.open = x])
           /\ \A x \in BOOLEAN : Calm([s EXCEPT !.useLLM = x]) /\ Calm([s EXCEPT !.return = x])
                                 /\ Calm([s EXCEPT !.prefill = x])
<1>1. DOMAIN s = {"mode", "step", "section", "idx", "field", "useLLM", "config", "fields",
                  "generated", "prompt", "busy", "preview", "known", "open", "return",
                  "prefill"}
  BY DEF Calm, Wizards
<1>2. s \in Wizards /\ s.idx = 0 /\ 0 \in Nat
  BY DEF Calm
<1>3. \A x : /\ [s EXCEPT !.step = x].idx = 0 /\ [s EXCEPT !.section = x].idx = 0
             /\ [s EXCEPT !.field = x].idx = 0 /\ [s EXCEPT !.config = x].idx = 0
             /\ [s EXCEPT !.fields = x].idx = 0 /\ [s EXCEPT !.generated = x].idx = 0
             /\ [s EXCEPT !.prompt = x].idx = 0 /\ [s EXCEPT !.busy = x].idx = 0
             /\ [s EXCEPT !.preview = x].idx = 0 /\ [s EXCEPT !.open = x].idx = 0
             /\ [s EXCEPT !.useLLM = x].idx = 0 /\ [s EXCEPT !.return = x].idx = 0
             /\ [s EXCEPT !.prefill = x].idx = 0
  BY <1>1, <1>2
<1>4. [s EXCEPT !.idx = 0].idx = 0
  BY <1>1
<1> QED BY <1>2, <1>3, <1>4, PartsOfWizard DEF Calm

\* The steps a wizard is sent to.
LEMMA CalmSteps ==
    ASSUME NEW s, Calm(s)
    PROVE  /\ \A x \in Steps : Calm(SetStep(s, x))
           /\ Calm(Advance(s)) /\ Calm(Retreat(s))
<1>1. ASSUME NEW x \in Steps PROVE Calm(SetStep(s, x))
  <2>1. PICK y \in {x} \cup Firsts : SetStep(s, x) = [s EXCEPT !.step = y]
    BY SetStepGoes
  <2>2. y \in Steps
    BY <2>1 DEF Firsts, Steps
  <2>3. Calm([s EXCEPT !.step = y])
    BY <2>2, CalmParts
  <2> QED BY <2>1, <2>3
<1>2. s.step \in Steps /\ MainSteps \subseteq Steps
  BY DEF Calm, Wizards, MainSteps
<1>3. Calm(Advance(s))
  <2>1. PICK x \in {s.step} \cup MainSteps : Advance(s) = [s EXCEPT !.step = x]
    BY AdvanceGoes
  <2>2. Calm([s EXCEPT !.step = x])
    BY <1>2, CalmParts
  <2> QED BY <2>1, <2>2
<1>4. Calm(Retreat(s))
  <2>1. PICK x \in {s.step} \cup MainSteps : Retreat(s) = [s EXCEPT !.step = x]
    BY RetreatGoes
  <2>2. Calm([s EXCEPT !.step = x])
    BY <1>2, CalmParts
  <2> QED BY <2>1, <2>2
<1> QED BY <1>1, <1>3, <1>4

\* Changes of the configuration.
LEMMA CalmConfig ==
    ASSUME NEW s, Calm(s)
    PROVE  /\ \A on \in BOOLEAN : Calm(SetUse(s, on))
           /\ \A p \in Providers : Calm(SetProvider(s, p))
           /\ \A off \in SUBSET (Switches \ {"builtins"}) : Calm([s EXCEPT !.config.off = off])
<1>1. s \in Wizards /\ s.config \in Configs
  BY DEF Calm, Wizards
<1>2. ASSUME NEW on \in BOOLEAN PROVE Calm(SetUse(s, on))
  <2> DEFINE c == [s.config EXCEPT !.on = on]
             t == [s EXCEPT !.useLLM = on]
  <2>1. SetUse(s, on) = [t EXCEPT !.config = c]
    BY <1>1 DEF SetUse, Wizards
  <2>2. c \in Configs
    BY <1>1 DEF Configs
  <2>3. Calm(t)
    BY CalmParts
  <2> HIDE DEF c, t
  <2>4. Calm([t EXCEPT !.config = c])
    BY <2>2, <2>3, CalmParts
  <2> QED BY <2>1, <2>4
<1>3. ASSUME NEW p \in Providers PROVE Calm(SetProvider(s, p))
  <2> DEFINE c == [s.config EXCEPT !.provider = p, !.on = TRUE]
  <2>1. SetProvider(s, p) = [s EXCEPT !.config = c]
    BY <1>1 DEF SetProvider, Wizards
  <2>2. c \in Configs
    BY <1>1 DEF Configs
  <2> HIDE DEF c
  <2>3. Calm([s EXCEPT !.config = c])
    BY <2>2, CalmParts
  <2> QED BY <2>1, <2>3
<1>4. ASSUME NEW off \in SUBSET (Switches \ {"builtins"})
      PROVE  Calm([s EXCEPT !.config.off = off])
  <2> DEFINE c == [s.config EXCEPT !.off = off]
  <2>1. [s EXCEPT !.config.off = off] = [s EXCEPT !.config = c]
    BY <1>1 DEF Wizards
  <2>2. c \in Configs
    BY <1>1 DEF Configs
  <2> HIDE DEF c
  <2>3. Calm([s EXCEPT !.config = c])
    BY <2>2, CalmParts
  <2> QED BY <2>1, <2>3
<1> QED BY <1>2, <1>3, <1>4

\* A new wizard.
LEMMA NewIsCalm ==
    ASSUME NEW d \in Disks, NEW wizardMode \in Modes, NEW section \in Sections
    PROVE  /\ Calm(NewSetup(d, wizardMode, section))
           /\ ~Listing(NewSetup(d, wizardMode, section))
<1> DEFINE config == IF d.exists THEN d.config ELSE DefaultConfig
           s == [mode |-> wizardMode, step |-> "llm_choice", section |-> section,
                 idx |-> 0, field |-> 1, useLLM |-> config.on, config |-> config,
                 fields |-> config.criteria, generated |-> {}, prompt |-> d.prompt,
                 busy |-> {}, preview |-> {}, known |-> FALSE, open |-> {},
                 return |-> FALSE, prefill |-> FALSE]
<1>1. config \in Configs /\ d.prompt \in Prompts
  BY DefaultsFit DEF Disks
<1>2. config.on \in BOOLEAN /\ config.criteria \in FormValues
  <2> HIDE DEF config
  <2> QED BY <1>1, DefaultsFit DEF Configs
<1>3. "llm_choice" \in Steps
  BY DEF Steps
<1>4. s \in Wizards /\ s.idx = 0
  <2> HIDE DEF config
  <2> QED BY <1>1, <1>2, <1>3, DefaultsFit DEF Wizards
<1>5. NewSetup(d, wizardMode, section) = SetStep(s, "llm_choice")
  BY DEF NewSetup
<1>6. DOMAIN s = {"mode", "step", "section", "idx", "field", "useLLM", "config", "fields",
                  "generated", "prompt", "busy", "preview", "known", "open", "return",
                  "prefill"}
  OBVIOUS
<1> HIDE DEF s
<1>7. PICK x \in {"llm_choice"} \cup Firsts : SetStep(s, "llm_choice") = [s EXCEPT !.step = x]
  BY SetStepGoes
<1>8. x \notin {"model", "task_choice"} /\ x \in Steps
  BY <1>7 DEF Firsts, Steps
<1>9. [s EXCEPT !.step = x].step = x
  BY <1>6
<1>10. Calm(s)
  BY <1>4 DEF Calm
<1>11. Calm([s EXCEPT !.step = x])
  BY <1>8, <1>10, CalmParts
<1> QED BY <1>5, <1>7, <1>8, <1>9, <1>11 DEF Listing

\* A wizard that is closed.
LEMMA ClosedIsPlaced == Calm(Closed) /\ ~Listing(Closed)
<1>1. [exists |-> FALSE, config |-> DefaultConfig, prompt |-> "none"] \in Disks
  BY DefaultsFit DEF Disks, Prompts
<1>2. "edit" \in Modes /\ "none" \in Sections
  BY DEF Modes, Sections
<1> QED BY <1>1, <1>2, NewIsCalm DEF Closed

\* A step that ends with the cursor at the top.
LEMMA CalmIsPlaced ==
    ASSUME NEW s, Calm(s), setup' = s, disk' \in Disks, screen' \in Overlays,
           asked' \in [resumes: 0..MaxResumes, previews: SUBSET Criteria]
    PROVE  WizardInv'
<1>1. setup' \in Wizards /\ setup'.idx = 0
  BY DEF Calm
<1>2. OptionCount(setup') \in Nat /\ OptionCount(setup') > 0
  BY OptionsAreCounted
<1>3. Placed(setup')
  BY <1>1, <1>2 DEF Placed
<1>4. Placed(setup)'
  BY <1>3 DEF Placed, Listing, OptionCount, ModelOptions, TaskOptions
<1> QED BY <1>1, <1>4 DEF WizardInv, WizardTypeOK

\* A step that takes the wizard off the screen.
LEMMA Closes ==
    ASSUME WizardInv, NEW next \in Overlays, CloseWizard(next), disk' \in Disks, asked' = asked
    PROVE  WizardInv'
<1>1. asked' \in [resumes: 0..MaxResumes, previews: SUBSET Criteria]
  BY DEF WizardInv, WizardTypeOK
<1> QED BY <1>1, ClosedIsPlaced, CalmIsPlaced DEF CloseWizard

\* The program starts.
LEMMA Boots ==
    ASSUME NEW d \in Disks, disk' \in Disks, Boot(d)
    PROVE  WizardInv'
<1>1. asked' = NothingAsked
  BY DEF Boot
<1>2. NothingAsked \in [resumes: 0..MaxResumes, previews: SUBSET Criteria]
  BY MaxResumesAssumption DEF NothingAsked
<1>3. \/ screen' = "none" /\ setup' = Closed
      \/ /\ screen' = "setup"
         /\ \E wizardMode \in Modes, section \in Sections :
               setup' = NewSetup(d, wizardMode, section)
  <2>1. SectionFor(d) \in Sections
    BY DEF SectionFor, Sections
  <2>2. "recovery" \in Modes /\ "repair" \in Modes /\ "bootstrap" \in Modes /\ "llm" \in Sections
    BY DEF Modes, Sections
  <2> QED BY <2>1, <2>2 DEF Boot
<1>4. Calm(setup')
  BY <1>3, NewIsCalm, ClosedIsPlaced
<1>5. screen' \in Overlays
  BY <1>3 DEF Overlays
<1> QED BY <1>1, <1>2, <1>4, <1>5, CalmIsPlaced

\* Where no list is shown the cursor is at the top.
LEMMA CalmHere ==
    ASSUME WizardInv, ~Listing(setup)
    PROVE  Calm(setup)
BY DEF WizardInv, WizardTypeOK, Placed, Calm

\* Dropdowns, and forms that parse.
LEMMA CalmMenus ==
    ASSUME NEW s, Calm(s), NEW menus \in SUBSET {"llm_menu", "provider_menu", "task_menu"}
    PROVE  /\ Calm(Shut(s, menus))
           /\ \A menu \in menus : Calm(Opened(s, menu))
<1>1. s.open \in SUBSET {"llm_menu", "provider_menu", "task_menu"}
  BY DEF Calm, Wizards
<1>2. Shut(s, menus) = [s EXCEPT !.open = s.open \ menus]
  BY DEF Shut
<1>3. Calm([s EXCEPT !.open = s.open \ menus])
  BY <1>1, CalmParts
<1>4. ASSUME NEW menu \in menus PROVE Calm(Opened(s, menu))
  <2>1. Opened(s, menu) = [s EXCEPT !.open = s.open \cup {menu}]
    BY DEF Opened
  <2>2. s.open \cup {menu} \in SUBSET {"llm_menu", "provider_menu", "task_menu"}
    BY <1>1
  <2>3. Calm([s EXCEPT !.open = s.open \cup {menu}])
    BY <2>2, CalmParts
  <2> QED BY <2>1, <2>3
<1> QED BY <1>2, <1>3, <1>4

\* Criteria and prompt made from a form that parses.
LEMMA CalmForm ==
    ASSUME NEW s, Calm(s), Parses(s.fields)
    PROVE  \A overwrite \in BOOLEAN : Calm(Refreshed(s, overwrite))
<1>1. s.fields \in Criteria /\ s.prompt \in Prompts
  BY DEF Calm, Wizards, Criteria
<1>2. ASSUME NEW overwrite \in BOOLEAN PROVE Calm(Refreshed(s, overwrite))
  <2> DEFINE t == [s EXCEPT !.generated = {s.fields}]
             p == IF overwrite \/ s.prompt = "none" THEN "made" ELSE s.prompt
  <2>1. Refreshed(s, overwrite) = [t EXCEPT !.prompt = p]
    BY DEF Refreshed, Calm, Wizards
  <2>2. p \in Prompts
    BY <1>1 DEF Prompts
  <2>3. Calm(t)
    BY <1>1, CalmParts
  <2> HIDE DEF t, p
  <2>4. Calm([t EXCEPT !.prompt = p])
    BY <2>2, <2>3, CalmParts
  <2> QED BY <2>1, <2>4
<1> QED BY <1>2

\* What is saved: criteria that parse.
LEMMA FilledFits ==
    ASSUME NEW s, Calm(s), Savable(s)
    PROVE  Calm(Filled(s)) /\ Artifacts(Filled(s)) \in Disks
<1> DEFINE g == IF s.generated = {} THEN {s.fields} ELSE s.generated
           p == IF s.prompt = "none" THEN "made" ELSE s.prompt
           t == [s EXCEPT !.generated = g]
<1>1. /\ s.generated \in SUBSET Criteria /\ s.fields \in FormValues /\ s.prompt \in Prompts
      /\ s.config \in Configs
  BY DEF Calm, Wizards
<1>2. g \in SUBSET Criteria /\ g # {}
  BY <1>1 DEF Savable, Criteria
<1>3. p \in Prompts
  BY <1>1 DEF Prompts
<1>4. Filled(s) = [t EXCEPT !.prompt = p]
  BY DEF Filled, Calm, Wizards
<1>5. Filled(s).generated = g /\ Filled(s).prompt = p /\ Filled(s).config = s.config
  BY DEF Filled, Calm, Wizards
<1> HIDE DEF g, p
<1>6. Calm(t)
  BY <1>2, CalmParts
<1> HIDE DEF t
<1>7. Calm([t EXCEPT !.prompt = p])
  BY <1>3, <1>6, CalmParts
<1>8. Artifacts(Filled(s)) \in Disks
  <2> DEFINE c == CHOOSE c \in Filled(s).generated : TRUE
             new == [s.config EXCEPT !.criteria = c]
  <2>1. c \in Criteria
    BY <1>2, <1>5
  <2> HIDE DEF c
  <2>2. new \in Configs
    BY <1>1, <2>1 DEF Configs
  <2>3. Artifacts(Filled(s)) = [exists |-> TRUE, prompt |-> p, config |-> new]
    BY <1>5 DEF Artifacts, c
  <2> HIDE DEF new
  <2> QED BY <1>3, <2>2, <2>3 DEF Disks
<1> QED BY <1>4, <1>7, <1>8

\* A save that fails, before or after the configuration is written.
LEMMA FailedSave ==
    ASSUME WizardInv, NEW s, Calm(s), SaveFails(s)
    PROVE  WizardInv'
<1>1. CASE Savable(s)
  <2>1. Calm(Filled(s)) /\ Artifacts(Filled(s)) \in Disks
    BY <1>1, FilledFits
  <2>2. disk \in Disks /\ screen \in Overlays
        /\ asked \in [resumes: 0..MaxResumes, previews: SUBSET Criteria]
    BY DEF WizardInv, WizardTypeOK
  <2>3. [Artifacts(Filled(s)) EXCEPT !.prompt = disk.prompt] \in Disks
    <3>1. disk.prompt \in Prompts
      BY <2>2 DEF Disks
    <3> QED BY <2>1, <3>1 DEF Disks
  <2>4. /\ setup' = Filled(s)
        /\ disk' \in {disk, [Artifacts(Filled(s)) EXCEPT !.prompt = disk.prompt]}
        /\ UNCHANGED <<screen, asked>>
    BY <1>1 DEF SaveFails
  <2> QED BY <2>1, <2>2, <2>3, <2>4, CalmIsPlaced
<1>2. CASE ~Savable(s)
  BY <1>2, BecomesCalm DEF SaveFails
<1> QED BY <1>1, <1>2

\* The three ways to go on from a save.
LEMMA CompletedSave ==
    ASSUME WizardInv, NEW s, Calm(s), SaveAndComplete(s)
    PROVE  WizardInv'
<1>1. CASE SaveFails(s)
  BY <1>1, FailedSave
<1>2. CASE Saves(s) /\ Complete(Filled(s)) /\ asked' = asked
  <2> DEFINE t == Filled(s)
  <2>1. Calm(t) /\ disk' \in Disks
    BY <1>2, FilledFits DEF Saves
  <2>2. screen \in Overlays /\ asked' \in [resumes: 0..MaxResumes, previews: SUBSET Criteria]
    BY <1>2 DEF WizardInv, WizardTypeOK
  <2>3. "notice" \in Overlays /\ "none" \in Overlays
    BY DEF Overlays
  <2> DEFINE u == [t EXCEPT !.section = SectionFor(disk')]
  <2>4. Calm(SetStep(u, "config_menu"))
    <3>1. SectionFor(disk') \in Sections /\ "config_menu" \in Steps
      BY DEF SectionFor, Sections, Steps
    <3> HIDE DEF t
    <3>2. Calm(u)
      BY <2>1, <3>1, CalmParts
    <3> HIDE DEF u
    <3> QED BY <3>1, <3>2, CalmSteps
  <2>5. \/ setup' = SetStep(u, "config_menu") /\ screen' = screen
        \/ CloseWizard("notice") \/ CloseWizard("none")
        \/ setup' = t /\ screen' = screen
    <3> HIDE DEF t
    <3>1. Complete(t)
      BY <1>2 DEF t
    <3>2. CASE t.mode = "repair"
      BY <3>1, <3>2 DEF Complete
    <3>3. CASE t.mode = "edit"
      BY <3>1, <3>3 DEF Complete
    <3>4. CASE t.mode \notin {"repair", "edit"}
      BY <3>1, <3>4 DEF Complete
    <3> QED BY <3>2, <3>3, <3>4
  <2> HIDE DEF t, u
  <2>6. CASE setup' = SetStep(u, "config_menu") /\ screen' = screen
    BY <2>1, <2>2, <2>4, <2>6, CalmIsPlaced
  <2>7. CASE CloseWizard("notice") \/ CloseWizard("none")
    BY <1>2, <2>1, <2>3, <2>7, Closes
  <2>8. CASE setup' = t /\ screen' = screen
    BY <2>1, <2>2, <2>8, CalmIsPlaced
  <2> QED BY <2>5, <2>6, <2>7, <2>8
<1> QED BY <1>1, <1>2 DEF SaveAndComplete

\* To the credentials that are missing.
LEMMA RedirectedSave ==
    ASSUME WizardInv, NEW s, Calm(s), RedirectToAuth(s)
    PROVE  WizardInv'
<1>1. CASE SaveFails(s)
  BY <1>1, FailedSave
<1>2. CASE /\ Saves(s)
           /\ setup' = SetStep([Filled(s) EXCEPT !.section = "llm"], "auth_mode")
           /\ UNCHANGED <<screen, asked>>
  <2> DEFINE t == Filled(s)
             u == [t EXCEPT !.section = "llm"]
  <2>1. Calm(t) /\ disk' \in Disks
    BY <1>2, FilledFits DEF Saves
  <2>2. screen \in Overlays /\ asked \in [resumes: 0..MaxResumes, previews: SUBSET Criteria]
    BY DEF WizardInv, WizardTypeOK
  <2>3. Calm(SetStep(u, "auth_mode"))
    <3>1. "llm" \in Sections /\ "auth_mode" \in Steps
      BY DEF Sections, Steps
    <3> HIDE DEF t
    <3>2. Calm(u)
      BY <2>1, <3>1, CalmParts
    <3> HIDE DEF u
    <3> QED BY <3>1, <3>2, CalmSteps
  <2>4. setup' = SetStep(u, "auth_mode") /\ UNCHANGED <<screen, asked>>
    BY <1>2
  <2> HIDE DEF t, u
  <2> QED BY <2>1, <2>2, <2>3, <2>4, CalmIsPlaced
<1> QED BY <1>1, <1>2 DEF RedirectToAuth

\* To the preview.
LEMMA PreviewedSave ==
    ASSUME WizardInv, NEW s, Calm(s), SaveAndPreview(s)
    PROVE  WizardInv'
<1>1. CASE SaveFails(s)
  BY <1>1, FailedSave
<1>2. CASE BeginPreview(s)
  <2> DEFINE t == SetStep(Filled(s), "preview")
             u == [t EXCEPT !.busy = t.busy \cup {"preview"}]
             v == [u EXCEPT !.preview = {}]
  <2>1. Calm(Filled(s)) /\ disk' \in Disks
    BY <1>2, FilledFits DEF BeginPreview, Saves
  <2>2. Calm(t)
    <3>1. "preview" \in Steps
      BY DEF Steps
    <3> QED BY <2>1, <3>1, CalmSteps
  <2>3. setup' \in Settled([t EXCEPT !.busy = t.busy \cup {"preview"}, !.preview = {}])
    BY <1>2 DEF BeginPreview
  <2> HIDE DEF t
  <2>4. t.busy \cup {"preview"} \in SUBSET {"resume", "preview"}
    BY <2>2 DEF Calm, Wizards
  <2>5. [t EXCEPT !.busy = t.busy \cup {"preview"}, !.preview = {}] = v
    BY <2>2 DEF Calm, Wizards
  <2>6. Calm(u)
    BY <2>2, <2>4, CalmParts
  <2> HIDE DEF u
  <2>7. Calm(v)
    BY <2>6, CalmParts
  <2> HIDE DEF v
  <2>8. setup' \in Wizards /\ Placed(setup')
    BY <2>3, <2>5, <2>7, CalmIsSettled
  <2>9. asked' \in [resumes: 0..MaxResumes, previews: SUBSET Criteria]
    <3>1. asked \in [resumes: 0..MaxResumes, previews: SUBSET Criteria]
      BY DEF WizardInv, WizardTypeOK
    <3>2. Filled(s).generated \in SUBSET Criteria
      BY <2>1 DEF Calm, Wizards
    <3>3. asked' = [asked EXCEPT !.previews = @ \cup Filled(s).generated]
      BY <1>2 DEF BeginPreview
    <3> QED BY <3>1, <3>2, <3>3
  <2>10. screen' = screen
    BY <1>2 DEF BeginPreview
  <2>11. Placed(setup)'
    BY <2>8 DEF Placed, Listing, OptionCount, ModelOptions, TaskOptions
  <2> QED BY <2>1, <2>8, <2>9, <2>10, <2>11 DEF WizardInv, WizardTypeOK
<1> QED BY <1>1, <1>2 DEF SaveAndPreview

\* The way in.
LEMMA EntryKeys ==
    ASSUME WizardInv, RecoveryEnter \/ LLMChoiceEnter
    PROVE  WizardInv'
<1>1. Calm(setup)
  BY CalmHere DEF RecoveryEnter, LLMChoiceEnter, At, Listing
<1>2. disk \in Disks
  BY DEF WizardInv, WizardTypeOK
<1>3. CASE RecoveryEnter
  <2>1. CASE CloseWizard("notice") /\ UNCHANGED <<disk, asked>>
    <3>1. "notice" \in Overlays
      BY DEF Overlays
    <3> QED BY <1>2, <2>1, <3>1, Closes
  <2>2. CASE Become(NewSetup(disk, "repair", "llm"))
    <3>1. "repair" \in Modes /\ "llm" \in Sections
      BY DEF Modes, Sections
    <3> QED BY <1>2, <2>2, <3>1, NewIsCalm, BecomesCalm
  <2>3. CASE Restart
    BY <1>2, <2>3, Boots DEF Restart
  <2> QED BY <1>3, <2>1, <2>2, <2>3 DEF RecoveryEnter
<1>4. CASE LLMChoiceEnter
  <2>1. CASE Become(SetStep(SetUse(setup, TRUE), "provider"))
    <3>1. Calm(SetUse(setup, TRUE)) /\ "provider" \in Steps
      BY <1>1, CalmConfig DEF Steps
    <3>2. Calm(SetStep(SetUse(setup, TRUE), "provider"))
      BY <3>1, CalmSteps
    <3> QED BY <2>1, <3>2, BecomesCalm
  <2>2. CASE Become(Advance([SetUse(setup, FALSE)
                      EXCEPT !.section = IF @ = "none" THEN "criteria" ELSE @]))
    <3> DEFINE s == SetUse(setup, FALSE)
               t == [s EXCEPT !.section = IF s.section = "none" THEN "criteria" ELSE s.section]
    <3>1. Calm(s)
      BY <1>1, CalmConfig
    <3>2. Become(Advance(t))
      BY <2>2
    <3> HIDE DEF s
    <3>3. (IF s.section = "none" THEN "criteria" ELSE s.section) \in Sections
      BY <3>1 DEF Calm, Wizards, Sections
    <3>4. Calm(t)
      BY <3>1, <3>3, CalmParts
    <3> HIDE DEF t
    <3>5. Calm(Advance(t))
      BY <3>4, CalmSteps
    <3> QED BY <3>2, <3>5, BecomesCalm
  <2> QED BY <1>4, <2>1, <2>2 DEF LLMChoiceEnter
<1> QED BY <1>3, <1>4

\* The configuration menu.
LEMMA ConfigMenuKeys ==
    ASSUME WizardInv,
           ChooseCriteria \/ ChooseResume \/ ChooseLLM \/ ToggleSource \/ ChoosePrompt
               \/ ConfigMenuEsc
    PROVE  WizardInv'
<1>1. Calm(setup)
  BY CalmHere DEF ChooseCriteria, ChooseResume, ChooseLLM, ToggleSource, ChoosePrompt,
                  ConfigMenuEsc, At, Listing
<1>2. disk \in Disks
  BY DEF WizardInv, WizardTypeOK
<1>3. /\ {"criteria", "llm", "prompt"} \subseteq Sections
      /\ {"criteria", "resume_path", "llm_menu", "prompt_review"} \subseteq Steps
      /\ "none" \in Overlays
  BY DEF Sections, Steps, Overlays
<1>4. /\ Calm([setup EXCEPT !.section = "criteria"])
      /\ Calm([setup EXCEPT !.section = "llm"])
      /\ Calm([setup EXCEPT !.section = "prompt"])
  BY <1>1, <1>3, CalmParts
<1>5. Calm(SetStep([setup EXCEPT !.section = "llm"], "llm_menu"))
  BY <1>3, <1>4, CalmSteps
<1>6. CASE ChooseCriteria
  <2>1. Calm(SetStep([setup EXCEPT !.section = "criteria"], "criteria"))
    BY <1>3, <1>4, CalmSteps
  <2> QED BY <1>6, <2>1, BecomesCalm DEF ChooseCriteria
<1>7. CASE ChooseResume
  <2> DEFINE s == [setup EXCEPT !.section = "criteria"]
             t == [s EXCEPT !.step = "resume_path"]
  <2>1. [setup EXCEPT !.section = "criteria", !.step = "resume_path"] = t
    BY <1>1 DEF Calm, Wizards
  <2>2. \/ Become([setup EXCEPT !.section = "criteria", !.step = "resume_path"])
        \/ Become(SetStep([setup EXCEPT !.section = "llm"], "llm_menu"))
    BY <1>7 DEF ChooseResume
  <2>3. Calm(s)
    BY <1>4
  <2> HIDE DEF s
  <2>4. Calm(t)
    BY <1>3, <2>3, CalmParts
  <2> HIDE DEF t
  <2> QED BY <1>5, <2>1, <2>2, <2>4, BecomesCalm
<1>8. CASE ChooseLLM
  BY <1>5, <1>8, BecomesCalm DEF ChooseLLM
<1>9. CASE ToggleSource
  <2>1. PICK x \in Switches :
           SaveConfig([setup EXCEPT !.config.off = IF x = "builtins" THEN @
                                                  ELSE (@ \ {x}) \cup ({x} \ @)])
    BY <1>9 DEF ToggleSource
  <2> DEFINE off == IF x = "builtins" THEN setup.config.off
                    ELSE (setup.config.off \ {x}) \cup ({x} \ setup.config.off)
  <2>2. setup.config.off \in SUBSET (Switches \ {"builtins"})
    BY <1>1 DEF Calm, Wizards, Configs
  <2>3. off \in SUBSET (Switches \ {"builtins"})
    BY <2>2
  <2>4. SaveConfig([setup EXCEPT !.config.off = off])
    BY <2>1
  <2> HIDE DEF off
  <2>5. Calm([setup EXCEPT !.config.off = off])
    BY <1>1, <2>3, CalmConfig
  <2> QED BY <2>4, <2>5, SavesCalm
<1>10. CASE ChoosePrompt
  <2> DEFINE s == [setup EXCEPT !.section = "prompt"]
             empty == [s EXCEPT !.generated = {}, !.prompt = "made"]
             t == IF Parses(s.fields) THEN Refreshed(s, FALSE) ELSE empty
  <2>1. Become(IF t.useLLM THEN SetStep(t, "prompt_review") ELSE t)
    BY <1>10 DEF ChoosePrompt
  <2>2. Calm(s)
    BY <1>4
  <2> HIDE DEF s
  <2>3. Calm(empty)
    <3> DEFINE u == [s EXCEPT !.generated = {}]
    <3>1. empty = [u EXCEPT !.prompt = "made"]
      BY <2>2 DEF Calm, Wizards
    <3>2. Calm(u) /\ "made" \in Prompts
      BY <2>2, CalmParts DEF Prompts
    <3> HIDE DEF u, empty
    <3>3. Calm([u EXCEPT !.prompt = "made"])
      BY <3>2, CalmParts
    <3> QED BY <3>1, <3>3
  <2> HIDE DEF empty
  <2>4. Calm(t)
    BY <2>2, <2>3, CalmForm
  <2> HIDE DEF t
  <2>5. Calm(SetStep(t, "prompt_review"))
    BY <1>3, <2>4, CalmSteps
  <2> QED BY <2>1, <2>4, <2>5, BecomesCalm
<1>11. CASE ConfigMenuEsc
  BY <1>2, <1>3, <1>11, Closes DEF ConfigMenuEsc
<1> QED BY <1>6, <1>7, <1>8, <1>9, <1>10, <1>11

\* Back, where no list is shown.
LEMMA GoesBack ==
    ASSUME WizardInv, Calm(setup), Back(setup)
    PROVE  WizardInv'
<1> DEFINE s == Retreat(setup)
           i == IF Behind(setup) = {} THEN s.idx ELSE 0
<1>1. Calm(s)
  BY CalmSteps
<1>2. Become([s EXCEPT !.idx = i])
  BY DEF Back
<1>3. i = 0
  BY <1>1 DEF Calm
<1> HIDE DEF s, i
<1>4. Calm([s EXCEPT !.idx = 0])
  BY <1>1, CalmParts
<1> QED BY <1>2, <1>3, <1>4, BecomesCalm

\* The language model and its provider.
LEMMA ProviderKeys ==
    ASSUME WizardInv,
           ToggleLLM \/ PickProvider \/ OpenProviderMenu \/ LLMMenuEsc \/ ProviderMenuEnter
               \/ ProviderMenuEsc \/ ProviderEnter \/ ProviderEsc
    PROVE  WizardInv'
<1>1. Calm(setup)
  BY CalmHere DEF ToggleLLM, PickProvider, OpenProviderMenu, LLMMenuEsc, ProviderMenuEnter,
                  ProviderMenuEsc, ProviderEnter, ProviderEsc, At, Listing
<1>2. {"provider_menu", "auth_mode", "model_value", "task_menu", "llm_menu", "model"} \subseteq Steps
  BY DEF Steps, SideSteps
<1>3. Calm(Shut(setup, {"llm_menu"})) /\ Calm(Shut(setup, {"provider_menu"}))
      /\ Calm(Opened(setup, "llm_menu"))
  BY <1>1, CalmMenus
<1>4. CASE ToggleLLM
  <2>1. setup.useLLM \in BOOLEAN
    BY <1>1 DEF Calm, Wizards
  <2>2. (~setup.useLLM) \in BOOLEAN
    OBVIOUS
  <2>3. Calm(SetUse(Shut(setup, {"llm_menu"}), ~setup.useLLM))
    BY <1>3, <2>2, CalmConfig
  <2> QED BY <1>4, <2>3, SavesCalm DEF ToggleLLM
<1>5. CASE PickProvider
  <2>1. CASE "llm_menu" \notin setup.open
    BY <1>3, <1>5, <2>1, BecomesCalm DEF PickProvider
  <2>2. CASE "llm_menu" \in setup.open
    <3>1. PICK p \in Providers :
             SaveConfig(SetProvider(SetUse(Shut(setup, {"llm_menu"}), TRUE), p))
      BY <1>5, <2>2 DEF PickProvider
    <3>2. Calm(SetUse(Shut(setup, {"llm_menu"}), TRUE))
      BY <1>3, CalmConfig
    <3>3. Calm(SetProvider(SetUse(Shut(setup, {"llm_menu"}), TRUE), p))
      BY <3>2, CalmConfig
    <3> QED BY <3>1, <3>3, SavesCalm
  <2> QED BY <2>1, <2>2
<1>6. CASE OpenProviderMenu
  <2> DEFINE s == SetUse(Shut(setup, {"llm_menu"}), TRUE)
             t == [s EXCEPT !.step = "provider_menu"]
             u == [t EXCEPT !.return = FALSE]
  <2>1. Become([s EXCEPT !.step = "provider_menu", !.return = FALSE])
    BY <1>6 DEF OpenProviderMenu
  <2>2. Calm(s)
    BY <1>3, CalmConfig
  <2> HIDE DEF s
  <2>3. [s EXCEPT !.step = "provider_menu", !.return = FALSE] = u
    BY <2>2 DEF Calm, Wizards
  <2>4. Calm(t)
    BY <1>2, <2>2, CalmParts
  <2> HIDE DEF t
  <2>5. Calm(u)
    BY <2>4, CalmParts
  <2> HIDE DEF u
  <2> QED BY <2>1, <2>3, <2>5, BecomesCalm
<1>7. CASE LLMMenuEsc
  BY <1>1, <1>3, <1>7, GoesBack, BecomesCalm DEF LLMMenuEsc
<1>8. CASE ProviderMenuEnter
  <2> DEFINE s == [setup EXCEPT !.return = TRUE]
             t == Shut(s, {"provider_menu"})
             step == IF t.config.provider \in Hosted THEN "auth_mode" ELSE t.step
             menu == Shut(t, {"task_menu"})
  <2>1. \/ Become([t EXCEPT !.step = step])
        \/ Become(Opened(s, "provider_menu"))
        \/ SaveConfig(t)
        \/ Become([t EXCEPT !.step = "model_value"])
        \/ Become([menu EXCEPT !.step = "task_menu"])
    BY <1>8 DEF ProviderMenuEnter
  <2>2. Calm(s)
    BY <1>1, CalmParts
  <2> HIDE DEF s
  <2>3. Calm(t) /\ Calm(Opened(s, "provider_menu"))
    BY <2>2, CalmMenus
  <2> HIDE DEF t
  <2>4. Calm(menu)
    BY <2>3, CalmMenus
  <2> HIDE DEF menu
  <2>5. step \in Steps
    BY <1>2, <2>3 DEF Calm, Wizards
  <2> HIDE DEF step
  <2>6. Calm([t EXCEPT !.step = step]) /\ Calm([t EXCEPT !.step = "model_value"])
    BY <1>2, <2>3, <2>5, CalmParts
  <2>7. Calm([menu EXCEPT !.step = "task_menu"])
    BY <1>2, <2>4, CalmParts
  <2> QED BY <2>1, <2>3, <2>6, <2>7, BecomesCalm, SavesCalm
<1>9. CASE ProviderMenuEsc
  <2> DEFINE t == [setup EXCEPT !.step = "llm_menu"]
             u == [t EXCEPT !.return = FALSE]
  <2>1. \/ Become(Shut(setup, {"provider_menu"}))
        \/ Become([setup EXCEPT !.step = "llm_menu", !.return = FALSE])
    BY <1>9 DEF ProviderMenuEsc
  <2>2. [setup EXCEPT !.step = "llm_menu", !.return = FALSE] = u
    BY <1>1 DEF Calm, Wizards
  <2>3. Calm(t)
    BY <1>1, <1>2, CalmParts
  <2> HIDE DEF t
  <2>4. Calm(u)
    BY <2>3, CalmParts
  <2> HIDE DEF u
  <2> QED BY <1>3, <2>1, <2>2, <2>4, BecomesCalm
<1>10. CASE ProviderEnter
  <2>1. PICK p \in Providers :
           \/ SaveConfig(SetStep(SetProvider(setup, p), "llm_menu"))
           \/ Become(SetStep(SetProvider(setup, p), "auth_mode"))
           \/ Become([SetStep(SetProvider(setup, p), "model") EXCEPT !.idx = 0])
    BY <1>10 DEF ProviderEnter
  <2> DEFINE s == SetProvider(setup, p)
  <2>2. Calm(s)
    BY <1>1, CalmConfig
  <2> HIDE DEF s
  <2>3. /\ Calm(SetStep(s, "llm_menu")) /\ Calm(SetStep(s, "auth_mode"))
        /\ Calm(SetStep(s, "model"))
    BY <1>2, <2>2, CalmSteps
  <2>4. Calm([SetStep(s, "model") EXCEPT !.idx = 0])
    BY <2>3, CalmParts
  <2>5. \/ SaveConfig(SetStep(s, "llm_menu"))
        \/ Become(SetStep(s, "auth_mode"))
        \/ Become([SetStep(s, "model") EXCEPT !.idx = 0])
    BY <2>1 DEF s
  <2> QED BY <2>3, <2>4, <2>5, BecomesCalm, SavesCalm
<1>11. CASE ProviderEsc
  BY <1>1, <1>11, GoesBack DEF ProviderEsc
<1> QED BY <1>4, <1>5, <1>6, <1>7, <1>8, <1>9, <1>10, <1>11

\* From a list to another step, or with the list that is shown.
LEMMA StepFromList ==
    ASSUME WizardInv, NEW x \in Steps, x \notin {"model", "task_choice"} \/ x = setup.step,
           NEW t \in Settled([setup EXCEPT !.step = x])
    PROVE  t \in Wizards /\ Placed(t)
<1> DEFINE s == [setup EXCEPT !.step = x]
<1>1. setup \in Wizards /\ Placed(setup)
  BY DEF WizardInv, WizardTypeOK
<1>2. s \in Wizards
  BY <1>1, PartsOfWizard
<1>3. s.step = x /\ s.idx = setup.idx /\ s.known = setup.known
  BY <1>1 DEF Wizards
<1> HIDE DEF s
<1>4. ASSUME Listing(s)
      PROVE  Listing(setup) /\ s.idx < OptionCount(s)
  <2>1. x = setup.step /\ Listing(setup)
    BY <1>3, <1>4 DEF Listing
  <2>2. OptionCount(s) = OptionCount(setup)
    BY <1>3, <2>1 DEF OptionCount, ModelOptions, TaskOptions
  <2> QED BY <1>1, <1>3, <2>1, <2>2 DEF Placed
<1> QED BY <1>2, <1>4, SettledIsPlaced DEF s

\* The same as a step.
LEMMA BecomesFromList ==
    ASSUME WizardInv, NEW x \in Steps, x \notin {"model", "task_choice"} \/ x = setup.step,
           Become([setup EXCEPT !.step = x]) \/ SaveConfig([setup EXCEPT !.step = x])
    PROVE  WizardInv'
<1>1. setup' \in Settled([setup EXCEPT !.step = x])
  BY DEF Become, SaveConfig
<1>2. setup' \in Wizards /\ Placed(setup')
  BY <1>1, StepFromList
<1>3. [setup EXCEPT !.step = x] \in Wizards
  BY PartsOfWizard DEF WizardInv, WizardTypeOK
<1>4. disk' \in Disks /\ UNCHANGED <<screen, asked>>
  <2>1. CASE Become([setup EXCEPT !.step = x])
    BY <2>1 DEF Become, WizardInv, WizardTypeOK
  <2>2. CASE SaveConfig([setup EXCEPT !.step = x])
    <3> DEFINE s == [setup EXCEPT !.step = x]
    <3>1. s \in Wizards /\ SaveConfig(s)
      BY <1>3, <2>2
    <3> HIDE DEF s
    <3> QED BY <3>1, SavedConfig
  <2> QED BY <2>1, <2>2
<1>5. Placed(setup)'
  BY <1>2 DEF Placed, Listing, OptionCount, ModelOptions, TaskOptions
<1> QED BY <1>2, <1>4, <1>5 DEF WizardInv, WizardTypeOK

\* Saving a step that is set, or leaving the wizard, when a model was chosen.
LEMMA ModelKeysPlace ==
    ASSUME WizardInv, ModelEnter \/ ModelEsc \/ ModelValueEnter \/ ModelValueEsc
    PROVE  WizardInv'
<1>1. {"provider_menu", "model_value", "model", "provider"} \subseteq Steps
      /\ "none" \in Overlays
  BY DEF Steps, SideSteps, Overlays
<1>2. disk \in Disks /\ setup \in Wizards /\ setup.step \in Steps
  BY DEF WizardInv, WizardTypeOK, Wizards
<1>3. CASE ModelEnter
  <2>1. setup.step = "model"
    BY <1>3 DEF ModelEnter, At
  <2>2. CASE Become([setup EXCEPT !.step = "model_value"])
    BY <1>1, <2>2, BecomesFromList
  <2>3. CASE ModelChosen(setup)
    <3>1. CASE SaveConfig([setup EXCEPT !.step = "provider_menu"])
      BY <1>1, <3>1, BecomesFromList
    <3>2. CASE CloseWizard("none") /\ UNCHANGED <<disk, asked>>
      BY <1>1, <1>2, <3>2, Closes
    <3>3. CASE Become(Advance(setup))
      <4>1. PICK x \in {setup.step} \cup MainSteps : Advance(setup) = [setup EXCEPT !.step = x]
        BY AdvanceGoes
      <4>2. x \in Steps /\ (x \notin {"model", "task_choice"} \/ x = setup.step)
        BY <1>2, <2>1, <4>1 DEF MainSteps, SideSteps
      <4>3. Become([setup EXCEPT !.step = x])
        BY <3>3, <4>1
      <4> QED BY <4>2, <4>3, BecomesFromList
    <3> QED BY <2>3, <3>1, <3>2, <3>3 DEF ModelChosen
  <2> QED BY <1>3, <2>2, <2>3 DEF ModelEnter
<1>4. CASE ModelEsc
  <2>1. CASE Become([setup EXCEPT !.step = "provider_menu"])
    BY <1>1, <2>1, BecomesFromList
  <2>2. CASE Become(SetStep(setup, "provider"))
    <3>1. PICK x \in {"provider"} \cup Firsts : SetStep(setup, "provider") = [setup EXCEPT !.step = x]
      BY SetStepGoes
    <3>2. x \in Steps /\ x \notin {"model", "task_choice"}
      BY <3>1 DEF Steps, Firsts
    <3>3. Become([setup EXCEPT !.step = x])
      BY <2>2, <3>1
    <3> QED BY <3>2, <3>3, BecomesFromList
  <2>3. CASE Back(setup)
    <3> DEFINE s == Retreat(setup)
    <3>1. PICK x \in {setup.step} \cup MainSteps : s = [setup EXCEPT !.step = x]
      BY RetreatGoes
    <3>2. x \in Steps
      BY <1>2, <3>1 DEF MainSteps
    <3>3. s \in Wizards
      BY <1>2, <3>1, <3>2, PartsOfWizard
    <3>4. Become([s EXCEPT !.idx = IF Behind(setup) = {} THEN @ ELSE 0])
      BY <2>3 DEF Back
    <3>5. CASE Behind(setup) = {}
      <4>1. s = [setup EXCEPT !.step = setup.step]
        BY <3>5 DEF Retreat
      <4> HIDE DEF s
      <4>2. [s EXCEPT !.idx = s.idx] = s
        BY <3>3 DEF Wizards
      <4>3. Become(s)
        BY <3>4, <3>5, <4>2
      <4> QED BY <1>2, <4>1, <4>3, BecomesFromList
    <3>6. CASE Behind(setup) # {}
      <4> HIDE DEF s
      <4>1. [s EXCEPT !.idx = 0] \in Wizards /\ [s EXCEPT !.idx = 0].idx = 0
        <5>1. 0 \in Nat
          OBVIOUS
        <5>2. [s EXCEPT !.idx = 0].idx = 0
          BY <3>3 DEF Wizards
        <5> QED BY <3>3, <5>1, <5>2, PartsOfWizard
      <4>2. Calm([s EXCEPT !.idx = 0])
        BY <4>1 DEF Calm
      <4>3. Become([s EXCEPT !.idx = 0])
        BY <3>4, <3>6
      <4> QED BY <4>2, <4>3, BecomesCalm
    <3> QED BY <3>5, <3>6
  <2> QED BY <1>4, <2>1, <2>2, <2>3 DEF ModelEsc
<1>5. CASE ModelValueEnter
  <2> DEFINE s == [setup EXCEPT !.step = "model"]
  <2>1. Calm(setup)
    BY <1>5, CalmHere DEF ModelValueEnter, At, Listing
  <2>2. Calm(s)
    BY <1>1, <2>1, CalmParts
  <2>3. ModelChosen(s)
    BY <1>5 DEF ModelValueEnter
  <2> HIDE DEF s
  <2>4. Calm(Advance(s)) /\ Calm([s EXCEPT !.step = "provider_menu"])
    BY <1>1, <2>2, CalmSteps, CalmParts
  <2>5. \/ SaveConfig([s EXCEPT !.step = "provider_menu"])
        \/ CloseWizard("none") /\ UNCHANGED <<disk, asked>>
        \/ Become(Advance(s))
    BY <2>3 DEF ModelChosen
  <2> QED BY <1>1, <1>2, <2>4, <2>5, SavesCalm, BecomesCalm, Closes
<1>6. CASE ModelValueEsc
  <2> DEFINE s == [setup EXCEPT !.step = "model"]
  <2>1. Calm(setup)
    BY <1>6, CalmHere DEF ModelValueEsc, At, Listing
  <2>2. Calm(s) /\ Calm([setup EXCEPT !.step = "provider_menu"])
    BY <1>1, <2>1, CalmParts
  <2>3. [setup EXCEPT !.step = "model", !.idx = 0] = [s EXCEPT !.idx = 0]
    BY <1>2 DEF Wizards
  <2> HIDE DEF s
  <2>4. Calm([s EXCEPT !.idx = 0])
    BY <2>2, CalmParts
  <2>5. \/ Become([setup EXCEPT !.step = "provider_menu"])
        \/ Become([setup EXCEPT !.step = "model", !.idx = 0])
    BY <1>6 DEF ModelValueEsc
  <2> QED BY <2>2, <2>3, <2>4, <2>5, BecomesCalm
<1> QED BY <1>3, <1>4, <1>5, <1>6

\* The models of the tasks.
LEMMA TaskKeys ==
    ASSUME WizardInv,
           TaskMenuEnter \/ TaskMenuEsc \/ TaskChoiceEnter \/ TaskChoiceEsc \/ TaskValueEnter
               \/ TaskValueEsc
    PROVE  WizardInv'
<1>1. {"provider_menu", "task_menu", "task_choice", "task_value"} \subseteq Steps
  BY DEF Steps, SideSteps
<1>2. CASE TaskChoiceEnter \/ TaskChoiceEsc
  <2>1. \/ Become([setup EXCEPT !.step = "task_value"])
        \/ SaveConfig([setup EXCEPT !.step = "task_menu"])
        \/ Become([setup EXCEPT !.step = "task_menu"])
    BY <1>2 DEF TaskChoiceEnter, TaskChoiceEsc
  <2>2. "task_value" \in Steps /\ "task_menu" \in Steps
    BY <1>1
  <2> QED BY <2>1, <2>2, BecomesFromList
<1>3. CASE TaskMenuEnter \/ TaskMenuEsc
  <2>1. Calm(setup)
    BY <1>3, CalmHere DEF TaskMenuEnter, TaskMenuEsc, At, Listing
  <2> DEFINE s == Shut(setup, {"task_menu"})
  <2>2. Calm(s) /\ Calm(Opened(setup, "task_menu"))
    BY <2>1, CalmMenus
  <2>3. \/ Become(Opened(setup, "task_menu")) \/ SaveConfig(s)
        \/ Become([s EXCEPT !.step = "task_value"]) \/ Become(s)
        \/ Become([setup EXCEPT !.step = "provider_menu"])
    BY <1>3 DEF TaskMenuEnter, TaskMenuEsc
  <2> HIDE DEF s
  <2>4. Calm([s EXCEPT !.step = "task_value"]) /\ Calm([setup EXCEPT !.step = "provider_menu"])
    BY <1>1, <2>1, <2>2, CalmParts
  <2> QED BY <2>2, <2>3, <2>4, BecomesCalm, SavesCalm
<1>4. CASE TaskValueEnter \/ TaskValueEsc
  <2>1. Calm(setup)
    BY <1>4, CalmHere DEF TaskValueEnter, TaskValueEsc, At, Listing
  <2> DEFINE s == [setup EXCEPT !.step = "task_choice"]
  <2>2. Calm(s) /\ Calm([setup EXCEPT !.step = "task_menu"])
    BY <1>1, <2>1, CalmParts
  <2>3. [setup EXCEPT !.step = "task_choice", !.idx = 0] = [s EXCEPT !.idx = 0]
    BY <2>1 DEF Calm, Wizards
  <2> HIDE DEF s
  <2>4. Calm([s EXCEPT !.idx = 0])
    BY <2>2, CalmParts
  <2>5. \/ SaveConfig([setup EXCEPT !.step = "task_menu"])
        \/ Become([setup EXCEPT !.step = "task_choice", !.idx = 0])
    BY <1>4 DEF TaskValueEnter, TaskValueEsc
  <2> QED BY <2>2, <2>3, <2>4, <2>5, BecomesCalm, SavesCalm
<1> QED BY <1>2, <1>3, <1>4

\* The credentials.
LEMMA AuthKeys ==
    ASSUME WizardInv, AuthModeEnter \/ AuthModeEsc \/ AuthValueEnter \/ AuthValueEsc
    PROVE  WizardInv'
<1>1. {"provider_menu", "auth_value", "auth_mode"} \subseteq Steps
  BY DEF Steps, SideSteps
<1>2. Calm(setup)
  BY CalmHere DEF AuthModeEnter, AuthModeEsc, AuthValueEnter, AuthValueEsc, At, Listing
<1>3. /\ Calm([setup EXCEPT !.step = "auth_value"]) /\ Calm([setup EXCEPT !.step = "auth_mode"])
      /\ Calm([setup EXCEPT !.step = "provider_menu"])
  BY <1>1, <1>2, CalmParts
<1>4. Calm(Advance(setup))
  BY <1>2, CalmSteps
<1>5. Calm([Advance(setup) EXCEPT !.idx = 0])
  BY <1>4, CalmParts
<1>6. \/ Become([setup EXCEPT !.step = "auth_value"])
      \/ Become([setup EXCEPT !.step = "auth_mode"])
      \/ Become([setup EXCEPT !.step = "provider_menu"])
      \/ SaveConfig([setup EXCEPT !.step = "provider_menu"])
      \/ Become(Advance(setup)) \/ Become([Advance(setup) EXCEPT !.idx = 0])
      \/ Back(setup)
  <2>1. CASE AuthModeEnter
    BY <2>1 DEF AuthModeEnter
  <2>2. CASE AuthModeEsc
    BY <2>2 DEF AuthModeEsc
  <2>3. CASE AuthValueEnter
    BY <2>3 DEF AuthValueEnter
  <2>4. CASE AuthValueEsc
    BY <2>4 DEF AuthValueEsc
  <2> QED BY <2>1, <2>2, <2>3, <2>4
<1> QED BY <1>2, <1>3, <1>4, <1>5, <1>6, BecomesCalm, SavesCalm, GoesBack

\* The cursor in a list.
LEMMA CursorKeys ==
    ASSUME WizardInv, MoveCursor
    PROVE  WizardInv'
<1>1. PICK i \in 0..(OptionCount(setup) - 1) :
         Listing(setup) /\ Become([setup EXCEPT !.idx = i])
  BY DEF MoveCursor
<1> DEFINE s == [setup EXCEPT !.idx = i]
<1>2. setup \in Wizards
  BY DEF WizardInv, WizardTypeOK
<1>3. OptionCount(setup) \in Nat
  BY OptionsAreCounted
<1>4. i \in Nat /\ i < OptionCount(setup)
  BY <1>3
<1>5. s \in Wizards
  BY <1>2, <1>4, PartsOfWizard
<1>6. s.idx = i /\ s.step = setup.step /\ s.known = setup.known
  BY <1>2 DEF Wizards
<1>7. setup' \in Settled(s) /\ UNCHANGED <<disk, screen, asked>>
  BY <1>1 DEF Become
<1> HIDE DEF s
<1>8. OptionCount(s) = OptionCount(setup)
  BY <1>6 DEF OptionCount, ModelOptions, TaskOptions
<1>9. setup' \in Wizards /\ Placed(setup')
  BY <1>1, <1>4, <1>5, <1>6, <1>7, <1>8, SettledIsPlaced
<1>10. Placed(setup)'
  BY <1>9 DEF Placed, Listing, OptionCount, ModelOptions, TaskOptions
<1> QED BY <1>7, <1>9, <1>10 DEF WizardInv, WizardTypeOK

\* A step of the plan that is no list, or the first of the plan.
LEMMA OffTheList ==
    ASSUME NEW s \in Wizards, NEW x \in Steps, x \notin {"model", "task_choice"}
    PROVE  /\ SetStep(s, x) \in Wizards
           /\ SetStep(s, x).step \notin {"model", "task_choice"}
<1>1. PICK y \in {x} \cup Firsts : SetStep(s, x) = [s EXCEPT !.step = y]
  BY SetStepGoes
<1>2. y \in Steps /\ y \notin {"model", "task_choice"}
  BY <1>1 DEF Firsts, Steps
<1>3. [s EXCEPT !.step = y] \in Wizards
  BY <1>2, PartsOfWizard
<1>4. [s EXCEPT !.step = y].step = y
  BY DEF Wizards
<1> QED BY <1>1, <1>2, <1>3, <1>4

\* The resume.
LEMMA ResumeKeys ==
    ASSUME WizardInv,
           ResumeChoiceEnter \/ ResumeChoiceEsc \/ ResumePathEnter \/ ResumePathEsc
    PROVE  WizardInv'
<1>1. Calm(setup)
  BY CalmHere DEF ResumeChoiceEnter, ResumeChoiceEsc, ResumePathEnter, ResumePathEsc, At, Listing
<1>2. {"resume_path", "resume_choice", "criteria", "config_menu"} \subseteq Steps
  BY DEF Steps
<1>3. CASE ResumeChoiceEnter
  <2> DEFINE s == [setup EXCEPT !.prefill = FALSE]
  <2>1. Become(SetStep(setup, "resume_path")) \/ Become(SetStep(s, "criteria"))
    BY <1>3 DEF ResumeChoiceEnter
  <2>2. Calm(s)
    BY <1>1, CalmParts
  <2> HIDE DEF s
  <2>3. Calm(SetStep(setup, "resume_path")) /\ Calm(SetStep(s, "criteria"))
    BY <1>1, <1>2, <2>2, CalmSteps
  <2> QED BY <2>1, <2>3, BecomesCalm
<1>4. CASE ResumeChoiceEsc
  BY <1>1, <1>4, GoesBack DEF ResumeChoiceEsc
<1>5. CASE ResumePathEnter
  <2> DEFINE b == setup.busy \cup {"resume"}
  <2>1. setup' = [setup EXCEPT !.busy = b] /\ UNCHANGED <<disk, screen>>
    BY <1>5 DEF ResumePathEnter
  <2>2. b \in SUBSET {"resume", "preview"}
    BY <1>1 DEF Calm, Wizards
  <2> HIDE DEF b
  <2>3. Calm([setup EXCEPT !.busy = b])
    BY <1>1, <2>2, CalmParts
  <2>4. disk \in Disks /\ screen \in Overlays
        /\ asked \in [resumes: 0..MaxResumes, previews: SUBSET Criteria]
    BY DEF WizardInv, WizardTypeOK
  <2>5. asked' \in [resumes: 0..MaxResumes, previews: SUBSET Criteria]
    <3>1. asked' = [asked EXCEPT !.resumes = asked.resumes + 1] /\ asked.resumes < MaxResumes
      BY <1>5 DEF ResumePathEnter
    <3>2. asked.resumes + 1 \in 0..MaxResumes
      BY <2>4, <3>1, MaxResumesAssumption
    <3> QED BY <2>4, <3>1, <3>2
  <2> QED BY <2>1, <2>3, <2>4, <2>5, CalmIsPlaced
<1>6. CASE ResumePathEsc
  <2>1. PICK x \in {"config_menu", "resume_choice"} : Become(SetStep(setup, x))
    BY <1>6 DEF ResumePathEsc
  <2>2. Calm(SetStep(setup, x))
    BY <1>1, <1>2, <2>1, CalmSteps
  <2> QED BY <2>1, <2>2, BecomesCalm
<1> QED BY <1>3, <1>4, <1>5, <1>6

\* The criteria form.
LEMMA FormFieldKeys ==
    ASSUME WizardInv, CriteriaEnter \/ CriteriaEsc
    PROVE  WizardInv'
<1>1. Calm(setup)
  BY CalmHere DEF CriteriaEnter, CriteriaEsc, At, Listing
<1>2. setup.field \in Fields /\ setup.fields \in FormValues
  BY <1>1 DEF Calm, Wizards
<1>3. FieldCount \in Nat /\ setup.field \in 1..FieldCount
  BY <1>2, SetupAssumption DEF Fields
<1>4. ASSUME NEW v \in Typed[setup.field]
      PROVE  /\ Calm([setup EXCEPT !.fields[setup.field] = v])
             /\ [setup EXCEPT !.fields[setup.field] = v].field = setup.field
  <2> DEFINE values == [setup.fields EXCEPT ![setup.field] = v]
  <2>1. values \in FormValues
    <3>1. setup.fields \in [Fields -> UNION {Typed[f] : f \in Fields}]
          /\ \A f \in Fields : setup.fields[f] \in Typed[f]
      BY <1>2 DEF FormValues
    <3>2. values \in [Fields -> UNION {Typed[f] : f \in Fields}]
      BY <1>2, <3>1
    <3>3. \A f \in Fields : values[f] \in Typed[f]
      BY <1>2, <3>1
    <3> QED BY <3>2, <3>3 DEF FormValues
  <2>2. [setup EXCEPT !.fields[setup.field] = v] = [setup EXCEPT !.fields = values]
    BY <1>1 DEF Calm, Wizards
  <2> HIDE DEF values
  <2>3. Calm([setup EXCEPT !.fields = values])
    BY <1>1, <2>1, CalmParts
  <2>4. [setup EXCEPT !.fields = values].field = setup.field
    BY <1>1 DEF Calm, Wizards
  <2> QED BY <2>2, <2>3, <2>4
<1>5. CASE CriteriaEnter
  <2>1. PICK v \in Typed[setup.field] :
           LET s == [setup EXCEPT !.fields[setup.field] = v]
           IN  Become(IF s.field = FieldCount THEN Advance(s) ELSE [s EXCEPT !.field = @ + 1])
    BY <1>5 DEF CriteriaEnter
  <2> DEFINE s == [setup EXCEPT !.fields[setup.field] = v]
  <2>2. Calm(s) /\ s.field = setup.field
    BY <1>4
  <2>3. Become(IF s.field = FieldCount THEN Advance(s) ELSE [s EXCEPT !.field = s.field + 1])
    BY <2>1
  <2> HIDE DEF s
  <2>4. CASE s.field = FieldCount
    <3>1. Calm(Advance(s))
      BY <2>2, CalmSteps
    <3> QED BY <2>3, <2>4, <3>1, BecomesCalm
  <2>5. CASE s.field # FieldCount
    <3>1. s.field + 1 \in Fields
      BY <1>3, <2>2, <2>5 DEF Fields
    <3>2. Calm([s EXCEPT !.field = s.field + 1])
      BY <2>2, <3>1, CalmParts
    <3> QED BY <2>3, <2>5, <3>2, BecomesCalm
  <2> QED BY <2>4, <2>5
<1>6. CASE CriteriaEsc
  <2>1. CASE Become(SetStep(setup, "config_menu"))
    <3>1. "config_menu" \in Steps
      BY DEF Steps
    <3>2. Calm(SetStep(setup, "config_menu"))
      BY <1>1, <3>1, CalmSteps
    <3> QED BY <2>1, <3>2, BecomesCalm
  <2>2. CASE Back(setup)
    BY <1>1, <2>2, GoesBack
  <2>3. ASSUME setup.field > 1, NEW v \in Typed[setup.field],
               Become([setup EXCEPT !.fields[setup.field] = v, !.field = @ - 1])
        PROVE  WizardInv'
    <3> DEFINE s == [setup EXCEPT !.fields[setup.field] = v]
    <3>1. Calm(s)
      BY <1>4
    <3>2. [setup EXCEPT !.fields[setup.field] = v, !.field = @ - 1]
             = [s EXCEPT !.field = setup.field - 1]
      BY <1>1 DEF Calm, Wizards
    <3> HIDE DEF s
    <3>3. setup.field - 1 \in Fields
      BY <1>3, <2>3 DEF Fields
    <3>4. Calm([s EXCEPT !.field = setup.field - 1])
      BY <3>1, <3>3, CalmParts
    <3> QED BY <2>3, <3>2, <3>4, BecomesCalm
  <2> QED BY <1>6, <2>1, <2>2, <2>3 DEF CriteriaEsc
<1> QED BY <1>5, <1>6

\* The summary, the prompt and the preview.
LEMMA SavingKeys ==
    ASSUME WizardInv,
           SummaryEnter \/ SummaryEsc \/ PromptEsc \/ PromptEnter \/ PreviewEsc \/ PreviewEnter
    PROVE  WizardInv'
<1>1. Calm(setup)
  BY CalmHere DEF SummaryEnter, SummaryEsc, PromptEsc, PromptEnter, PreviewEsc, PreviewEnter,
                  At, Listing
<1>2. Calm(Retreat(setup))
  BY <1>1, CalmSteps
<1>3. CASE SummaryEnter
  <2> DEFINE s == Refreshed(setup, TRUE)
  <2>1. Parses(setup.fields)
    BY <1>3 DEF SummaryEnter
  <2>2. RedirectToAuth(s) \/ SaveAndComplete(s) \/ Become(Advance(s)) \/ SaveAndPreview(s)
    BY <1>3 DEF SummaryEnter
  <2>3. Calm(s)
    BY <1>1, <2>1, CalmForm
  <2> HIDE DEF s
  <2>4. Calm(Advance(s))
    BY <2>3, CalmSteps
  <2> QED BY <2>2, <2>3, <2>4, RedirectedSave, CompletedSave, PreviewedSave, BecomesCalm
<1>4. CASE SummaryEsc
  <2>1. Become([Retreat(setup) EXCEPT !.field = FieldCount]) \/ Back(setup)
    BY <1>4 DEF SummaryEsc
  <2>2. Calm([Retreat(setup) EXCEPT !.field = FieldCount])
    BY <1>2, DefaultsFit, CalmParts
  <2> QED BY <1>1, <2>1, <2>2, GoesBack, BecomesCalm
<1>5. CASE PromptEsc
  BY <1>1, <1>5, GoesBack DEF PromptEsc
<1>6. CASE PromptEnter
  <2>1. RedirectToAuth(setup) \/ SaveAndComplete(setup) \/ SaveAndPreview(setup)
    BY <1>6 DEF PromptEnter
  <2> QED BY <1>1, <2>1, RedirectedSave, CompletedSave, PreviewedSave
<1>7. CASE PreviewEsc
  <2>1. Become([Retreat(setup) EXCEPT !.preview = {}])
    BY <1>7 DEF PreviewEsc
  <2>2. Calm([Retreat(setup) EXCEPT !.preview = {}])
    BY <1>2, CalmParts
  <2> QED BY <2>1, <2>2, BecomesCalm
<1>8. CASE PreviewEnter
  <2>1. "notice" \in Overlays /\ disk \in Disks
    BY DEF Overlays, WizardInv, WizardTypeOK
  <2>2. CASE CloseWizard("notice")
    BY <1>8, <2>1, <2>2, Closes DEF PreviewEnter
  <2>3. CASE UNCHANGED <<screen, setup>>
    BY <1>1, <1>8, <2>3, CalmIsPlaced DEF PreviewEnter, WizardInv, WizardTypeOK
  <2> QED BY <1>8, <2>2, <2>3 DEF PreviewEnter
<1> QED BY <1>3, <1>4, <1>5, <1>6, <1>7, <1>8

\* The cursor is kept on a list of models that becomes shorter.
LEMMA ModelsKeepPlace == ASSUME WizardInv, ModelsArrive PROVE WizardInv'
<1> DEFINE k == Listing(setup)
           p == setup.prefill \/ (setup.mode # "edit" /\ setup.useLLM)
           s0 == [setup EXCEPT !.known = k]
           s == [s0 EXCEPT !.prefill = p]
           i == IF Listing(s) /\ s.idx >= OptionCount(s) THEN OptionCount(s) - 1 ELSE s.idx
           t == [s EXCEPT !.idx = i]
<1>1. setup \in Wizards
  BY DEF WizardInv, WizardTypeOK
<1>2. Become(t)
  <2>1. [setup EXCEPT !.known = Listing(setup),
                      !.prefill = @ \/ (setup.mode # "edit" /\ setup.useLLM)] = s
    BY <1>1 DEF Wizards
  <2>2. Become(Clamp(s))
    BY <2>1 DEF ModelsArrive
  <2> HIDE DEF s
  <2> QED BY <2>2 DEF Clamp
<1>3. k \in BOOLEAN /\ p \in BOOLEAN
  BY DEF Listing
<1>4. s0 \in Wizards /\ s0.step = setup.step
  <2> HIDE DEF k
  <2>1. s0 \in Wizards
    BY <1>1, <1>3, PartsOfWizard
  <2> QED BY <1>1, <2>1 DEF Wizards
<1>5. s \in Wizards /\ s.step = setup.step
  <2> HIDE DEF s0, p
  <2>1. s \in Wizards
    BY <1>3, <1>4, PartsOfWizard
  <2> QED BY <1>4, <2>1 DEF Wizards
<1> HIDE DEF s
<1>6. OptionCount(s) \in Nat /\ OptionCount(s) > 0 /\ s.idx \in Nat
  BY <1>5, OptionsAreCounted DEF Wizards
<1>7. i \in Nat /\ (Listing(s) => i < OptionCount(s))
  BY <1>6
<1> HIDE DEF i
<1>8. t \in Wizards /\ t.idx = i /\ t.step = s.step /\ t.known = s.known
  <2>1. t \in Wizards
    BY <1>5, <1>7, PartsOfWizard
  <2> QED BY <1>5, <2>1 DEF Wizards
<1> HIDE DEF t
<1>9. Listing(t) => Listing(setup) /\ t.idx < OptionCount(t)
  BY <1>5, <1>7, <1>8 DEF Listing, OptionCount, ModelOptions, TaskOptions
<1>10. setup' \in Settled(t) /\ UNCHANGED <<disk, screen, asked>>
  BY <1>2 DEF Become
<1>11. setup' \in Wizards /\ Placed(setup')
  BY <1>8, <1>9, <1>10, SettledIsPlaced
<1>12. Placed(setup)'
  BY <1>11 DEF Placed, Listing, OptionCount, ModelOptions, TaskOptions
<1> QED BY <1>10, <1>11, <1>12 DEF WizardInv, WizardTypeOK

\* A resume that was read fills the form, and the form is shown; after one that could
\* not be read another is asked for.
LEMMA ResumeKeepsPlace == ASSUME WizardInv, ResumeArrives PROVE WizardInv'
<1>1. /\ setup \in Wizards /\ Placed(setup) /\ disk \in Disks /\ screen \in Overlays
      /\ asked \in [resumes: 0..MaxResumes, previews: SUBSET Criteria]
  BY DEF WizardInv, WizardTypeOK
<1>2. asked' \in [resumes: 0..MaxResumes, previews: SUBSET Criteria] /\ UNCHANGED <<disk, screen>>
  <2>1. asked.resumes > 0 /\ asked' = [asked EXCEPT !.resumes = asked.resumes - 1]
    BY DEF ResumeArrives
  <2>2. asked.resumes - 1 \in 0..MaxResumes
    BY <1>1, <2>1, MaxResumesAssumption
  <2> QED BY <1>1, <2>1, <2>2 DEF ResumeArrives
<1> DEFINE b == setup.busy \ {"resume"}
           s == [setup EXCEPT !.busy = b]
<1>3. b \in SUBSET {"resume", "preview"}
  BY <1>1 DEF Wizards
<1>4. s \in Wizards
  BY <1>1, <1>3, PartsOfWizard
<1>5. "resume_path" \in Steps /\ "criteria" \in Steps
  BY DEF Steps
<1>6. setup' \in Wizards /\ Placed(setup')
  <2>1. CASE setup' = setup
    BY <1>1, <2>1
  <2>2. CASE setup' \in Settled(ResumeFails(setup))
    <3>1. ResumeFails(setup) = SetStep(s, "resume_path")
      BY DEF ResumeFails
    <3> HIDE DEF s
    <3>2. SetStep(s, "resume_path") \in Wizards /\ ~Listing(SetStep(s, "resume_path"))
      BY <1>4, <1>5, OffTheList DEF Listing
    <3> QED BY <2>2, <3>1, <3>2, SettledIsPlaced
  <2>3. ASSUME NEW c \in Criteria, setup' \in Settled(ResumeRead(setup, c))
        PROVE  setup' \in Wizards /\ Placed(setup')
    <3> DEFINE s1 == [s EXCEPT !.fields = c]
               s2 == [s1 EXCEPT !.generated = {c}]
               s3 == [s2 EXCEPT !.prompt = "made"]
               t == SetStep(s3, "criteria")
               r == [t EXCEPT !.field = 1]
    <3>1. ResumeRead(setup, c) = r
      <4>1. [setup EXCEPT !.busy = @ \ {"resume"}, !.fields = c, !.generated = {c},
                       !.prompt = "made"] = s3
        BY <1>1 DEF Wizards
      <4> HIDE DEF s3
      <4> QED BY <4>1 DEF ResumeRead
    <3>2. s1 \in Wizards
      <4> HIDE DEF s
      <4> QED BY <1>4, DefaultsFit, PartsOfWizard
    <3>3. s2 \in Wizards
      <4>1. {c} \in SUBSET Criteria
        OBVIOUS
      <4> HIDE DEF s1
      <4> QED BY <3>2, <4>1, PartsOfWizard
    <3>4. s3 \in Wizards
      <4>1. "made" \in Prompts
        BY DEF Prompts
      <4> HIDE DEF s2
      <4> QED BY <3>3, <4>1, PartsOfWizard
    <3> HIDE DEF s3
    <3>5. t \in Wizards /\ t.step \notin {"model", "task_choice"}
      BY <1>5, <3>4, OffTheList
    <3> HIDE DEF t
    <3>6. r \in Wizards /\ r.step = t.step
      <4>1. r \in Wizards
        BY <3>5, DefaultsFit, PartsOfWizard
      <4> QED BY <3>5, <4>1 DEF Wizards
    <3>7. ~Listing(r)
      BY <3>5, <3>6 DEF Listing
    <3> HIDE DEF r
    <3> QED BY <2>3, <3>1, <3>6, <3>7, SettledIsPlaced
  <2> QED BY <2>1, <2>2, <2>3 DEF ResumeArrives
<1>7. Placed(setup)'
  BY <1>6 DEF Placed, Listing, OptionCount, ModelOptions, TaskOptions
<1> QED BY <1>1, <1>2, <1>6, <1>7 DEF WizardInv, WizardTypeOK

\* A preview is shown, or leaves everything where it is.
LEMMA PreviewKeepsPlace == ASSUME WizardInv, PreviewArrives PROVE WizardInv'
<1>1. /\ setup \in Wizards /\ Placed(setup) /\ disk \in Disks /\ screen \in Overlays
      /\ asked \in [resumes: 0..MaxResumes, previews: SUBSET Criteria]
  BY DEF WizardInv, WizardTypeOK
<1> DEFINE b == setup.busy \ {"preview"}
           s == [setup EXCEPT !.busy = b]
<1>2. PICK c \in asked.previews :
        /\ asked' = [asked EXCEPT !.previews = asked.previews \ {c}]
        /\ \/ setup' = setup
           \/ setup' = [s EXCEPT !.preview = {}]
           \/ setup' \in Settled([s EXCEPT !.preview = {c}, !.step = "preview"])
        /\ UNCHANGED <<disk, screen>>
  BY DEF PreviewArrives
<1>3. c \in Criteria /\ asked' \in [resumes: 0..MaxResumes, previews: SUBSET Criteria]
  BY <1>1, <1>2
<1>4. b \in SUBSET {"resume", "preview"}
  BY <1>1 DEF Wizards
<1>5. s \in Wizards
  BY <1>1, <1>4, PartsOfWizard
<1>6. setup' \in Wizards /\ Placed(setup')
  <2>1. CASE setup' = setup
    BY <1>1, <2>1
  <2>2. CASE setup' = [s EXCEPT !.preview = {}]
    <3>1. setup' \in Wizards
      <4> HIDE DEF s
      <4>1. {} \in SUBSET Criteria
        OBVIOUS
      <4> QED BY <1>5, <2>2, <4>1, PartsOfWizard
    <3>2. setup'.step = setup.step /\ setup'.idx = setup.idx /\ setup'.known = setup.known
      BY <1>1, <2>2 DEF Wizards
    <3>3. Placed(setup')
      BY <1>1, <3>2 DEF Placed, Listing, OptionCount, ModelOptions, TaskOptions
    <3> QED BY <3>1, <3>3
  <2>3. CASE setup' \in Settled([s EXCEPT !.preview = {c}, !.step = "preview"])
    <3> DEFINE s1 == [s EXCEPT !.preview = {c}]
               t == [s1 EXCEPT !.step = "preview"]
    <3>1. [s EXCEPT !.preview = {c}, !.step = "preview"] = t
      BY <1>5 DEF Wizards
    <3>2. s1 \in Wizards
      <4>1. {c} \in SUBSET Criteria
        BY <1>3
      <4> HIDE DEF s
      <4> QED BY <1>5, <4>1, PartsOfWizard
    <3> HIDE DEF s1
    <3>3. t \in Wizards /\ t.step = "preview"
      <4>1. "preview" \in Steps
        BY DEF Steps
      <4>2. t \in Wizards
        BY <3>2, <4>1, PartsOfWizard
      <4> QED BY <3>2, <4>2 DEF Wizards
    <3> HIDE DEF t
    <3>4. ~Listing(t)
      BY <3>3 DEF Listing
    <3> QED BY <2>3, <3>1, <3>3, <3>4, SettledIsPlaced
  <2> QED BY <1>2, <2>1, <2>2, <2>3
<1>7. Placed(setup)'
  BY <1>6 DEF Placed, Listing, OptionCount, ModelOptions, TaskOptions
<1> QED BY <1>1, <1>2, <1>3, <1>6, <1>7 DEF WizardInv, WizardTypeOK

\* The keys and messages of the wizard.
LEMMA WizardKeeps == ASSUME WizardInv, WizardNext PROVE WizardInv'
<1>1. CASE MenuKeys
  BY <1>1, EntryKeys, ConfigMenuKeys, CursorKeys DEF MenuKeys
<1>2. CASE ModelKeys
  BY <1>2, ProviderKeys, ModelKeysPlace, TaskKeys, AuthKeys DEF ModelKeys
<1>3. CASE FormKeys
  BY <1>3, ResumeKeys, FormFieldKeys, SavingKeys DEF FormKeys
<1>4. CASE Messages
  BY <1>4, ModelsKeepPlace, ResumeKeepsPlace, PreviewKeepsPlace DEF Messages
<1> QED BY <1>1, <1>2, <1>3, <1>4 DEF WizardNext

\* What leaves the wizard as it is, whatever is on the screen then.
LEMMA SameWizard ==
    ASSUME WizardInv, UNCHANGED <<setup, asked>>, disk' \in Disks, screen' \in Overlays
    PROVE  WizardInv'
<1>1. setup' = setup /\ asked' = asked
  OBVIOUS
<1>2. Placed(setup)'
  BY <1>1 DEF WizardInv, Placed, Listing, OptionCount, ModelOptions, TaskOptions
<1> QED BY <1>1, <1>2 DEF WizardInv, WizardTypeOK

\* The keys and messages of the list.
LEMMA ListLeavesWizard ==
    ASSUME WizardInv, List \/ CheckPostings \/ CheckEnds
    PROVE  WizardInv'
<1>1. disk \in Disks /\ screen \in Overlays /\ {"none", "status", "filter", "detail", "notice"} \subseteq Overlays
  BY DEF WizardInv, WizardTypeOK, Overlays
<1>2. CASE SameScreen
  BY <1>1, <1>2, SameWizard DEF SameScreen
<1>3. CASE Goes("none") \/ Goes("status") \/ Goes("filter") \/ Goes("detail") \/ Goes("notice")
  BY <1>1, <1>3, SameWizard DEF Goes
<1>4. CASE SaveFilters
  <2>1. disk' \in {disk, [disk EXCEPT !.exists = TRUE]} /\ UNCHANGED <<setup, asked>>
        /\ screen' \in {screen, "notice"}
    BY <1>4 DEF SaveFilters
  <2>2. disk' \in Disks
    BY <1>1, <2>1 DEF Disks
  <2> QED BY <1>1, <2>1, <2>2, SameWizard
<1>5. CASE PostingsChecked
  BY <1>1, <1>5, Closes DEF PostingsChecked
<1>6. SameScreen \/ Goes("none") \/ Goes("status") \/ Goes("filter") \/ Goes("detail")
      \/ Goes("notice") \/ SaveFilters \/ PostingsChecked
  BY DEF List, Move, Wheel, Sort, MarkViewed, Delete, JobEdited, OpenStatusMenu, StatusChosen,
         CloseOverlay, OpenFilterMenu, ToggleFilter, OpenSearch, Search, EndSearch,
         OpenDetails, NextDetails, RowEnriched, CheckPostings, CheckEnds
<1> QED BY <1>2, <1>3, <1>4, <1>5, <1>6

\* The keys and answers of the health windows; an answer may close the wizard.
LEMMA HealthLeavesWizard == ASSUME WizardInv, HealthOfCompanies PROVE WizardInv'
<1>1. disk \in Disks /\ screen \in Overlays /\ {"none", "health"} \subseteq Overlays
  BY DEF WizardInv, WizardTypeOK, Overlays
<1>2. CASE CheckRow \/ RefreshWindow
  <2>1. UNCHANGED <<disk, setup, asked>>
    BY <1>2 DEF CheckRow, RefreshWindow
  <2>2. screen' \in {screen, "none", "health"}
    <3>1. ASSUME NEW job, NEW popup, StartTask(job, popup) PROVE screen' \in {screen, "none"}
      BY <3>1 DEF StartTask
    <3>2. CASE CheckRow
      BY <3>1, <3>2 DEF CheckRow, Show
    <3>3. CASE RefreshWindow
      BY <3>1, <3>3 DEF RefreshWindow, Await
    <3> QED BY <1>2, <3>2, <3>3
  <2> QED BY <1>1, <2>1, <2>2, SameWizard
<1>3. CASE CloseWindow
  BY <1>1, <1>3, SameWizard DEF CloseWindow, Goes
<1>4. CASE TogglePanel \/ PanelMoved \/ Minimize
  BY <1>1, <1>4, SameWizard DEF TogglePanel, PanelMoved, Minimize, SameScreen
<1>5. CASE TaskAnswers \/ LookupAnswers
  <2>1. Remembered \/ \E company, score : Shown(company, score)
    BY <1>5 DEF TaskAnswers, LookupAnswers
  <2>2. CASE Remembered
    BY <1>1, <2>2, SameWizard DEF Remembered
  <2>3. CASE \E company, score : Shown(company, score)
    BY <1>1, <2>3, Closes DEF Shown
  <2> QED BY <2>1, <2>2, <2>3
<1> QED BY <1>2, <1>3, <1>4, <1>5 DEF HealthOfCompanies

\* The command line.
LEMMA CommandsLeaveWizard == ASSUME WizardInv, Commands PROVE WizardInv'
<1>1. disk \in Disks /\ screen \in Overlays /\ "health" \in Overlays
  BY DEF WizardInv, WizardTypeOK, Overlays
<1>2. CASE SameScreen
  BY <1>1, <1>2, SameWizard DEF SameScreen
<1>3. CASE HealthCommand
  BY <1>1, <1>3, SameWizard DEF HealthCommand, Await
<1>4. SameScreen \/ HealthCommand
  BY DEF Commands, OpenCommand, Type, Tab, Space, LeaveCommand, NothingStarted, LineOnly,
         StartFetchCommand, FetchCommand
<1> QED BY <1>2, <1>3, <1>4

\* Notices, the wizard that is opened, and a new start.
LEMMA WizardStep == ASSUME WizardInv, Next PROVE WizardInv'
<1>1. /\ disk \in Disks /\ screen \in Overlays /\ {"none", "setup", "notice"} \subseteq Overlays
      /\ asked \in [resumes: 0..MaxResumes, previews: SUBSET Criteria]
  BY DEF WizardInv, WizardTypeOK, Overlays
<1>2. CASE Wizard
  BY <1>2, WizardKeeps DEF Wizard
<1>3. CASE List \/ CheckPostings \/ CheckEnds
  BY <1>3, ListLeavesWizard
<1>4. CASE HealthOfCompanies
  BY <1>4, HealthLeavesWizard
<1>5. CASE Commands
  BY <1>5, CommandsLeaveWizard
<1>6. CASE OpenEdit
  <2>1. "edit" \in Modes /\ "none" \in Sections
    BY DEF Modes, Sections
  <2>2. Calm(NewSetup(disk, "edit", "none"))
    BY <1>1, <2>1, NewIsCalm
  <2> QED BY <1>1, <1>6, <2>2, CalmIsPlaced DEF OpenEdit
<1>7. CASE StartFetch
  BY <1>1, <1>7, SameWizard DEF StartFetch, wizard
<1>8. CASE FetchEnds
  BY <1>1, <1>8, Closes DEF FetchEnds, Notice
<1>9. CASE AcceptReview
  BY <1>1, <1>9, Closes DEF AcceptReview, CloseWizard
<1>10. CASE DismissNotice
  BY <1>1, <1>10, SameWizard DEF DismissNotice, Goes
<1>11. CASE Reboot
  BY <1>1, <1>11, Boots DEF Reboot, Restart
<1>12. CASE AcceptPreview
  BY <1>12, SavingKeys DEF AcceptPreview
<1> QED BY <1>2, <1>3, <1>4, <1>5, <1>6, <1>7, <1>8, <1>9, <1>10, <1>11, <1>12 DEF Next

\* A configuration that lacks nothing.
LEMMA ReadyIsConfig == ReadyConfig \in Configs
<1>1. PICK v \in Typed[1] : v # Empty /\ v # Invalid
  BY SetupAssumption
<1> DEFINE values == [f \in Fields |-> IF f = 1 THEN v ELSE Empty]
           c == [on |-> FALSE, provider |-> Default, off |-> {}, criteria |-> values]
           d == [exists |-> TRUE, config |-> c, prompt |-> "made"]
<1>2. values \in Criteria /\ values[1] # Empty
  <2>1. \A f \in Fields : Empty \in Typed[f] /\ Empty # Invalid
    BY SetupAssumption DEF Empty, Invalid
  <2>2. 1 \in Fields
    BY DefaultsFit
  <2>3. \A f \in Fields : values[f] \in Typed[f] /\ values[f] # Invalid
    BY <1>1, <2>1
  <2>4. values \in FormValues
    BY <2>3 DEF FormValues
  <2>5. values[1] = v
    BY <2>2
  <2> QED BY <1>1, <2>3, <2>4, <2>5 DEF Criteria, Parses
<1> HIDE DEF values
<1>3. c \in Configs
  BY <1>2, SetupAssumption DEF Configs
<1>4. ProfileReady(c) /\ SourcesReady(c) /\ ~c.on
  BY <1>2 DEF ProfileReady, SourcesReady
<1>5. d.exists /\ d.config = c
  OBVIOUS
<1> HIDE DEF c
<1>6. Issues([exists |-> TRUE, config |-> c, prompt |-> "made"]) = {}
  BY <1>4, <1>5 DEF Issues
<1>7. \E x \in Configs : ~x.on /\ Issues([exists |-> TRUE, config |-> x, prompt |-> "made"]) = {}
  BY <1>3, <1>4, <1>6
<1> QED BY <1>7 DEF ReadyConfig

\* The wizard at the start.
LEMMA WizardStart == ASSUME Init PROVE WizardInv
<1>1. NothingAsked \in [resumes: 0..MaxResumes, previews: SUBSET Criteria]
  BY MaxResumesAssumption DEF NothingAsked
<1>2. asked = NothingAsked /\ screen \in Overlays
  BY DEF Init, WizardInit, Overlays
<1>3. disk \in Disks
  <2>1. \/ disk = [exists |-> TRUE, config |-> ReadyConfig, prompt |-> "made"]
        \/ disk = [exists |-> FALSE, config |-> DefaultConfig, prompt |-> "none"]
    BY DEF Init, WizardInit
  <2>2. [exists |-> TRUE, config |-> ReadyConfig, prompt |-> "made"] \in Disks
    BY ReadyIsConfig DEF Disks, Prompts
  <2>3. [exists |-> FALSE, config |-> DefaultConfig, prompt |-> "none"] \in Disks
    BY DefaultsFit DEF Disks, Prompts
  <2> QED BY <2>1, <2>2, <2>3
<1>4. "bootstrap" \in Modes /\ "criteria" \in Sections
  BY DEF Modes, Sections
<1>5. Calm(setup)
  BY <1>3, <1>4, NewIsCalm, ClosedIsPlaced DEF Init, WizardInit
<1>6. setup \in Wizards /\ Placed(setup)
  BY <1>5, OptionsAreCounted DEF Calm, Placed
<1> QED BY <1>1, <1>2, <1>3, <1>6 DEF WizardInv, WizardTypeOK

\* The types of the wizard, and that its cursor stays on the list it is on.
THEOREM WizardInvariance == FairSpec => []WizardInv
<1>1. Init => WizardInv
  BY WizardStart
<1>2. WizardInv /\ [Next]_vars => WizardInv'
  <2>1. ASSUME WizardInv, UNCHANGED vars PROVE WizardInv'
    <3>1. UNCHANGED <<disk, screen, setup, asked>>
      BY <2>1 DEF vars
    <3>2. disk \in Disks /\ screen \in Overlays
      BY <2>1 DEF WizardInv, WizardTypeOK
    <3> QED BY <2>1, <3>1, <3>2, SameWizard
  <2> QED BY <2>1, WizardStep
<1> QED BY <1>1, <1>2, PTL DEF FairSpec

-----------------------------------------------------------------------------
(* The cursors.                                                            *)

\* The types of the list and its windows.
LEMMA ListIsTyped == ASSUME ListInv PROVE ListTypeOK
<1>1. ASSUME NEW s \in Seq(Row), Len(s) <= Cardinality(Jobs)
      PROVE  s \in Rows(Cardinality(Jobs))
  <2>1. Cardinality(Jobs) \in Nat
    BY FS_CardinalityType, JobListAssumption
  <2>2. Len(s) \in 0..Cardinality(Jobs) /\ s \in [1..Len(s) -> Row]
    BY <1>1, <2>1
  <2> QED BY <2>2 DEF Rows
<1>2. list \in Lists /\ Len(list.rows) <= Cardinality(Jobs) /\ Len(list.shown) <= Cardinality(Jobs)
  BY GoodListFacts, RowsFit DEF ListInv, GoodList
<1>3. list.rows \in Rows(Cardinality(Jobs)) /\ list.shown \in Rows(Cardinality(Jobs))
  BY <1>1, <1>2 DEF Lists
<1>4. list \in [rows: Rows(Cardinality(Jobs)), shown: Rows(Cardinality(Jobs)),
                cursor: -1..Cardinality(Jobs), by: SortKeys, desc: BOOLEAN,
                filters: SUBSET Range(Statuses), query: SUBSET Searches,
                menu: SUBSET Range(Statuses)]
  BY <1>2, <1>3 DEF Lists
<1>5. tasks \in UNION {[S -> {"foreground", "background"}] : S \in SUBSET Jobs}
  BY DEF ListInv, WindowTypes
<1> QED BY <1>4, <1>5 DEF ListTypeOK, ListInv, WindowTypes

\* Whether a fetch runs, a review is pending, and postings are checked.
FlagTypes == fetching \in BOOLEAN /\ review \in BOOLEAN /\ checking \in BOOLEAN

\* They are truth values.
LEMMA FlagsAreTyped == FairSpec => []FlagTypes
<1>1. Init => FlagTypes
  BY DEF Init, Quiet, FlagTypes
<1>2. FlagTypes /\ [Next]_vars => FlagTypes'
  <2>1. ASSUME FlagTypes, UNCHANGED <<fetching, review, checking>> PROVE FlagTypes'
    BY <2>1 DEF FlagTypes
  <2>2. ASSUME FlagTypes, Commands PROVE FlagTypes'
    BY <2>2 DEF Commands, StartFetchCommand, FlagTypes
  <2>3. ASSUME FlagTypes, \/ StartFetch \/ FetchEnds \/ AcceptReview \/ DismissNotice
                          \/ CheckPostings \/ CheckEnds \/ Reboot
        PROVE  FlagTypes'
    BY <2>3 DEF StartFetch, FetchEnds, AcceptReview, DismissNotice, CheckPostings, CheckEnds,
                Reboot, FlagTypes
  <2>4. ASSUME \/ Wizard \/ AcceptPreview \/ List \/ HealthOfCompanies \/ OpenEdit
               \/ UNCHANGED vars
        PROVE  UNCHANGED <<fetching, review, checking>>
    BY <2>4 DEF Wizard, AcceptPreview, List, HealthOfCompanies, OpenEdit, vars
  <2> QED BY <2>1, <2>2, <2>3, <2>4 DEF Next
<1> QED BY <1>1, <1>2, PTL DEF FairSpec

\* The option under the cursor of the wizard exists, in whatever order lists of models,
\* resumes, previews and keys come: for any lists, fields and providers.  What is on the
\* screen is of its type.
THEOREM IndexInRangeTheorem == FairSpec => []IndexInRange
<1>1. WizardInv /\ ListInv /\ LineInv /\ FlagTypes => IndexInRange
  BY ListIsTyped DEF IndexInRange, TypeOK, WizardInv, Placed, LineInv, FlagTypes
<1> QED BY <1>1, WizardInvariance, ListInvariance, LineInvariance, FlagsAreTyped, PTL

-----------------------------------------------------------------------------
(* What is saved, and what a preview shows.                                *)

\* Steps that may follow each other in a plan: one comes to the prompt from the summary or
\* the menu, to the preview from the summary or the prompt, and nothing comes after that;
\* a recovery stands alone.
Link(x, y) ==
    /\ y = "prompt_review" => x \in {"summary", "config_menu"}
    /\ y = "preview" => x \in {"summary", "prompt_review"}
    /\ x = "prompt_review" => y = "preview"
    /\ x \notin {"preview", "recovery"} /\ y # "recovery"

\* A part of a plan that ends with one of these steps.
Path(p, ends) ==
    /\ p \in Seq(MainSteps) /\ p # <<>>
    /\ \A i \in 2..Len(p) : Link(p[i - 1], p[i])
    /\ p[Len(p)] \in ends

\* A path that may end in more ways.
LEMMA PathEnds ==
    ASSUME NEW p, NEW ends, Path(p, ends), NEW wide, ends \subseteq wide
    PROVE  Path(p, wide)
BY DEF Path

\* Two parts of a plan.
LEMMA PathGrows ==
    ASSUME NEW p, NEW ends, Path(p, ends), NEW q, NEW last, Path(q, last),
           \A x \in ends : Link(x, q[1])
    PROVE  Path(p \o q, last)
<1> DEFINE r == p \o q
           m == Len(p)
           n == Len(q)
<1>1. p \in Seq(MainSteps) /\ p # <<>> /\ q \in Seq(MainSteps) /\ q # <<>>
  BY DEF Path
<1> HIDE DEF MainSteps
<1>2. m \in Nat /\ n \in Nat /\ m > 0 /\ n > 0
  BY <1>1
<1>3. r \in Seq(MainSteps) /\ Len(r) = m + n /\ r # <<>>
  BY <1>1, <1>2
<1>4. \A i \in 1..(m + n) : r[i] = IF i <= m THEN p[i] ELSE q[i - m]
  BY <1>1, <1>2
<1> HIDE DEF r
<1>5. r[Len(r)] \in last
  <2>1. r[m + n] = q[n]
    BY <1>2, <1>4
  <2> QED BY <1>3, <2>1 DEF Path
<1>6. ASSUME NEW i \in 2..Len(r) PROVE Link(r[i - 1], r[i])
  <2>1. i \in Int /\ i - 1 \in 1..(m + n) /\ i \in 1..(m + n)
    BY <1>2, <1>3
  <2>2. CASE i <= m
    <3>1. r[i - 1] = p[i - 1] /\ r[i] = p[i] /\ i \in 2..Len(p)
      BY <1>2, <1>4, <2>1, <2>2
    <3> QED BY <3>1 DEF Path
  <2>3. CASE i = m + 1
    <3>1. r[i - 1] = p[m] /\ r[i] = q[1]
      BY <1>2, <1>4, <2>1, <2>3
    <3> QED BY <3>1 DEF Path
  <2>4. CASE i > m + 1
    <3>1. r[i - 1] = q[i - m - 1] /\ r[i] = q[i - m] /\ i - m \in 2..Len(q)
      BY <1>2, <1>3, <1>4, <2>1, <2>4
    <3>2. i - m - 1 = (i - m) - 1
      BY <1>2, <2>1
    <3> QED BY <3>1, <3>2 DEF Path
  <2> QED BY <1>2, <2>1, <2>2, <2>3, <2>4
<1> QED BY <1>3, <1>5, <1>6 DEF Path, r

\* The pieces that plans are made of.
LEMMA PathPieces ==
    /\ Path(<<"recovery">>, {"recovery"}) /\ Path(<<"llm_choice">>, {"llm_choice"})
    /\ Path(<<"config_menu">>, {"config_menu"}) /\ Path(<<"criteria", "summary">>, {"summary"})
    /\ Path(<<"prompt_review">>, {"prompt_review"}) /\ Path(<<"preview">>, {"preview"})
    /\ Path(<<"resume_choice", "resume_path">>, {"resume_path"})
    /\ Path(<<"provider", "auth_mode", "auth_value", "model">>, {"model"})
    /\ Path(<<"llm_menu", "provider", "auth_mode", "auth_value", "model", "summary">>, {"summary"})
BY DEF Path, Link, MainSteps, Steps, SideSteps

\* Each plan is a path.
LEMMA PlansArePaths ==
    ASSUME NEW s
    PROVE  /\ Plan(s) \in Seq(MainSteps)
           /\ \A i \in 2..Len(Plan(s)) : Link(Plan(s)[i - 1], Plan(s)[i])
           /\ s.mode = "bootstrap" => Path(Plan(s), {"preview"})
<1>1. ASSUME NEW ends, Path(Plan(s), ends)
      PROVE  /\ Plan(s) \in Seq(MainSteps)
             /\ \A i \in 2..Len(Plan(s)) : Link(Plan(s)[i - 1], Plan(s)[i])
  BY <1>1 DEF Path
<1>2. CASE s.mode = "recovery"
  <2>1. Plan(s) = <<"recovery">>
    BY <1>2 DEF Plan
  <2> QED BY <1>1, <1>2, <2>1, PathPieces
<1>3. CASE s.mode = "bootstrap"
  <2> DEFINE first == <<"llm_choice">>
             resume == <<"resume_choice", "resume_path">>
             models == <<"provider", "auth_mode", "auth_value", "model">>
             more == IF s.prefill THEN resume ELSE <<>>
             llm == IF s.useLLM THEN models \o more ELSE <<>>
             prompt == IF s.useLLM THEN <<"prompt_review">> ELSE <<>>
             form == <<"criteria", "summary">>
             last == <<"preview">>
             D == {"llm_choice", "model", "resume_path"}
  <2>1. Plan(s) = first \o llm \o form \o prompt \o last
    BY <1>3 DEF Plan, BootstrapPlan
  <2>2. /\ Path(first, {"llm_choice"}) /\ Path(resume, {"resume_path"}) /\ Path(models, {"model"})
        /\ Path(form, {"summary"}) /\ Path(last, {"preview"})
        /\ Path(<<"prompt_review">>, {"prompt_review"})
    BY PathPieces
  <2>3. /\ resume[1] = "resume_choice" /\ models[1] = "provider" /\ form[1] = "criteria"
        /\ last[1] = "preview" /\ <<"prompt_review">>[1] = "prompt_review"
    OBVIOUS
  <2> HIDE DEF first, resume, models, form, last
  <2>4. ASSUME NEW p, NEW ends, Path(p, ends), ends \subseteq D PROVE Path(p, D)
    BY <2>4 DEF Path
  <2>5. Path(first \o llm, D)
    <3>1. CASE ~s.useLLM
      <4>1. first \in Seq(MainSteps)
        BY <2>2 DEF Path
      <4> HIDE DEF MainSteps
      <4>2. first \o llm = first
        BY <3>1, <4>1
      <4> QED BY <2>2, <2>4, <4>2
    <3>2. CASE s.useLLM /\ ~s.prefill
      <4>1. models \in Seq(MainSteps)
        BY <2>2 DEF Path
      <4>2. models \o more = models
        <5> HIDE DEF MainSteps
        <5> QED BY <3>2, <4>1
      <4>3. llm = models
        BY <3>2, <4>2
      <4>4. Path(first \o models, {"model"})
        BY <2>2, <2>3, PathGrows DEF Link
      <4> QED BY <2>4, <4>3, <4>4
    <3>3. CASE s.useLLM /\ s.prefill
      <4>1. llm = models \o resume
        BY <3>3
      <4>2. Path(models \o resume, {"resume_path"})
        BY <2>2, <2>3, PathGrows DEF Link
      <4>3. (models \o resume)[1] = "provider"
        <5>1. models \in Seq(MainSteps) /\ resume \in Seq(MainSteps) /\ models # <<>>
          BY <2>2 DEF Path
        <5> HIDE DEF MainSteps
        <5> QED BY <2>3, <5>1
      <4> HIDE DEF llm
      <4>4. Path(first \o llm, {"resume_path"})
        BY <2>2, <4>1, <4>2, <4>3, PathGrows DEF Link
      <4> QED BY <2>4, <4>4
    <3> QED BY <3>1, <3>2, <3>3
  <2> HIDE DEF llm
  <2>6. Path(first \o llm \o form, {"summary"})
    BY <2>2, <2>3, <2>5, PathGrows DEF Link
  <2> DEFINE p == first \o llm \o form
  <2> HIDE DEF p
  <2>7. Path(p \o prompt, {"summary", "prompt_review"})
    <3>1. CASE ~s.useLLM
      <4>1. p \in Seq(MainSteps)
        BY <2>6 DEF Path, p
      <4>2. p \o prompt = p
        <5> HIDE DEF MainSteps
        <5> QED BY <3>1, <4>1
      <4>3. Path(p, {"summary"})
        BY <2>6 DEF p
      <4>4. {"summary"} \subseteq {"summary", "prompt_review"}
        OBVIOUS
      <4>5. Path(p, {"summary", "prompt_review"})
        BY <4>3, <4>4, PathEnds
      <4> QED BY <4>2, <4>5
    <3>2. CASE s.useLLM
      <4>1. prompt = <<"prompt_review">>
        BY <3>2
      <4> HIDE DEF prompt
      <4>2. Path(p \o prompt, {"prompt_review"})
        BY <2>2, <2>3, <2>6, <4>1, PathGrows DEF Link, p
      <4>3. {"prompt_review"} \subseteq {"summary", "prompt_review"}
        OBVIOUS
      <4> QED BY <4>2, <4>3, PathEnds
    <3> QED BY <3>1, <3>2
  <2> HIDE DEF prompt
  <2>8. Path(p \o prompt \o last, {"preview"})
    BY <2>2, <2>3, <2>7, PathGrows DEF Link
  <2> QED BY <1>1, <2>1, <2>8 DEF p
<1>4. CASE s.mode \notin {"recovery", "bootstrap"}
  <2> DEFINE menu == <<"config_menu">>
             section == SectionPlan(s.section)
  <2>1. Plan(s) = menu \o section
    BY <1>4 DEF Plan
  <2>2. Path(menu, {"config_menu"})
    BY PathPieces
  <2>3. \/ section = <<>>
        \/ Path(section, {"summary", "prompt_review"}) /\ section[1] \in {"criteria", "llm_menu", "prompt_review"}
    <3> DEFINE to == {"summary", "prompt_review"}
    <3>1. ASSUME NEW q, NEW ends, Path(q, ends), ends \subseteq to PROVE Path(q, to)
      BY <3>1 DEF Path
    <3>2. /\ Path(<<"criteria", "summary">>, to) /\ Path(<<"prompt_review">>, to)
          /\ Path(<<"llm_menu", "provider", "auth_mode", "auth_value", "model", "summary">>, to)
      <4> HIDE DEF to
      <4>1. {"summary"} \subseteq to /\ {"prompt_review"} \subseteq to
        BY DEF to
      <4> QED BY <3>1, <4>1, PathPieces
    <3>3. /\ <<"criteria", "summary">>[1] = "criteria" /\ <<"prompt_review">>[1] = "prompt_review"
          /\ <<"llm_menu", "provider", "auth_mode", "auth_value", "model", "summary">>[1] = "llm_menu"
      OBVIOUS
    <3>4. section \in {<<>>, <<"criteria", "summary">>, <<"prompt_review">>,
              <<"llm_menu", "provider", "auth_mode", "auth_value", "model", "summary">>}
      BY DEF SectionPlan
    <3> HIDE DEF section
    <3> QED BY <3>2, <3>3, <3>4
  <2> HIDE DEF menu, section
  <2>4. CASE section = <<>>
    <3>1. menu \in Seq(MainSteps)
      BY <2>2 DEF Path
    <3>2. menu \o section = menu
      <4> HIDE DEF MainSteps
      <4> QED BY <2>4, <3>1
    <3> QED BY <1>1, <1>4, <2>1, <2>2, <3>2
  <2>5. CASE Path(section, {"summary", "prompt_review"})
             /\ section[1] \in {"criteria", "llm_menu", "prompt_review"}
    <3>1. Path(menu \o section, {"summary", "prompt_review"})
      BY <2>2, <2>5, PathGrows DEF Link
    <3> QED BY <1>1, <1>4, <2>1, <3>1
  <2> QED BY <2>3, <2>4, <2>5
<1> QED BY <1>2, <1>3, <1>4


\* The sections of an edit or a repair.
Edits(s, sections) == s.mode \in {"edit", "repair"} /\ s.section \in sections

\* The steps a wizard of this mode and section may be on.
Fits(s, x) ==
    /\ x = "recovery" => s.mode = "recovery"
    /\ x = "summary" => s.mode = "bootstrap" \/ Edits(s, {"criteria", "llm"})
    /\ x = "prompt_review" => s.mode = "bootstrap" \/ Edits(s, {"prompt"})
    /\ x = "preview" => s.mode = "bootstrap"

\* Nothing is shown but on the step of the preview, and what the prompt and the preview
\* were made from is what the form has.
InOrder(s) ==
    /\ Fits(s, s.step)
    /\ s.step \in {"prompt_review", "preview"} => s.generated \subseteq {s.fields}
    /\ s.preview # {} => s.step = "preview"

\* Which steps are in a plan.
LEMMA PlanMembers ==
    ASSUME NEW s, s.mode \in Modes, NEW i \in 1..Len(Plan(s))
    PROVE  Fits(s, Plan(s)[i])
<1>1. CASE s.mode = "bootstrap"
  <2> DEFINE p == Plan(s)
  <2>1. /\ p \in Seq(MainSteps) /\ p[Len(p)] = "preview"
        /\ \A j \in 2..Len(p) : Link(p[j - 1], p[j])
    BY <1>1, PlansArePaths DEF Path
  <2>2. Len(p) \in Nat /\ i \in 1..Len(p)
    BY <2>1
  <2> HIDE DEF p
  <2>3. p[i] # "recovery"
    <3>1. CASE i = Len(p)
      BY <2>1, <3>1
    <3>2. CASE i < Len(p)
      <4>1. i + 1 \in 2..Len(p) /\ (i + 1) - 1 = i
        BY <2>2, <3>2
      <4>2. Link(p[i], p[i + 1])
        BY <2>1, <4>1
      <4> QED BY <4>2 DEF Link
    <3> QED BY <2>2, <3>1, <3>2
  <2> QED BY <1>1, <2>3 DEF Fits, p
<1>2. CASE s.mode = "recovery"
  <2>1. Plan(s) = <<"recovery">>
    BY <1>2 DEF Plan
  <2> QED BY <1>2, <2>1 DEF Fits
<1>3. CASE s.mode \in {"edit", "repair"}
  <2> DEFINE menu == <<"config_menu">>
             q == SectionPlan(s.section)
  <2>1. Plan(s) = menu \o q
    BY <1>3 DEF Plan
  <2>2. \A j \in 1..Len(q) : /\ q[j] = "summary" => s.section \in {"criteria", "llm"}
                             /\ q[j] = "prompt_review" => s.section = "prompt"
                             /\ q[j] \notin {"preview", "recovery"}
    <3>1. CASE s.section = "criteria"
      BY <3>1 DEF SectionPlan
    <3>2. CASE s.section = "llm"
      BY <3>2 DEF SectionPlan
    <3>3. CASE s.section = "prompt"
      BY <3>3 DEF SectionPlan
    <3>4. CASE s.section \notin {"criteria", "llm", "prompt"}
      BY <3>4 DEF SectionPlan
    <3> QED BY <3>1, <3>2, <3>3, <3>4
  <2>3. q \in Seq(MainSteps)
    <3>1. /\ <<>> \in Seq(MainSteps)
          /\ Path(<<"criteria", "summary">>, {"summary"})
          /\ Path(<<"prompt_review">>, {"prompt_review"})
          /\ Path(<<"llm_menu", "provider", "auth_mode", "auth_value", "model", "summary">>, {"summary"})
      BY PathPieces
    <3> QED BY <3>1 DEF SectionPlan, Path
  <2>4. menu[1] = "config_menu" /\ Len(menu) = 1
    OBVIOUS
  <2>6. menu \in Seq(MainSteps)
    BY PathPieces DEF Path
  <2> HIDE DEF menu, q
  <2>5. Plan(s)[i] = "config_menu" \/ \E j \in 1..Len(q) : Plan(s)[i] = q[j]
    <3> HIDE DEF MainSteps
    <3> DEFINE r == menu \o q
    <3>0. /\ Len(r) = Len(menu) + Len(q) /\ Len(q) \in Nat
          /\ \A j \in 1..Len(r) : r[j] = IF j <= Len(menu) THEN menu[j] ELSE q[j - Len(menu)]
      BY <2>3, <2>6
    <3>1. Len(r) = 1 + Len(q) /\ Len(q) \in Nat
      BY <2>4, <3>0
    <3>2. \A j \in 1..Len(r) : r[j] = IF j <= 1 THEN menu[j] ELSE q[j - 1]
      BY <2>4, <3>0
    <3>3. Plan(s) = r
      BY <2>1
    <3> HIDE DEF r
    <3>4. i \in 1..Len(r) /\ Plan(s)[i] = r[i]
      BY <3>3
    <3>5. i = 1 \/ i - 1 \in 1..Len(q)
      BY <3>1, <3>4
    <3>6. r[i] = menu[1] \/ \E j \in 1..Len(q) : r[i] = q[j]
      BY <3>1, <3>2, <3>4, <3>5
    <3> QED BY <2>4, <3>4, <3>6
  <2> QED BY <1>3, <2>2, <2>5 DEF Fits, Edits
<1> QED BY <1>1, <1>2, <1>3 DEF Modes

\* The fields of a wizard and of its configuration.
Shape(s) ==
    /\ DOMAIN s = {"mode", "step", "section", "idx", "field", "useLLM", "config", "fields",
                   "generated", "prompt", "busy", "preview", "known", "open", "return",
                   "prefill"}
    /\ DOMAIN s.config = {"on", "provider", "off", "criteria"}

\* The same wizard, with the criteria it was opened with and no preview.
Carried(s) ==
    /\ Shape(s)
    /\ s.mode = setup.mode /\ s.mode \in Modes
    /\ s.preview = {}
    /\ s.config.criteria = setup.config.criteria

\* What the wizard may become by a key.
Went(s) == Carried(s) /\ InOrder(s)

\* A wizard that asks for something else than what is to be saved, whatever was made of
\* its form.
Watched == {"summary", "prompt_review", "preview"}
Elsewhere(s) == Carried(s) /\ s.step \notin Watched /\ Fits(s, s.step)

\* Such a wizard is in order.
LEMMA ElsewhereIsInOrder == ASSUME NEW s, Elsewhere(s) PROVE Went(s)
BY DEF Elsewhere, Carried, Went, InOrder, Watched

\* What keys change in it.
LEMMA CarriedParts ==
    ASSUME NEW s, Carried(s)
    PROVE  /\ \A x : Carried([s EXCEPT !.step = x]) /\ Carried([s EXCEPT !.section = x])
           /\ \A x : Carried([s EXCEPT !.idx = x]) /\ Carried([s EXCEPT !.field = x])
           /\ \A x : Carried([s EXCEPT !.fields = x]) /\ Carried([s EXCEPT !.generated = x])
           /\ \A x : Carried([s EXCEPT !.prompt = x]) /\ Carried([s EXCEPT !.busy = x])
           /\ \A x : Carried([s EXCEPT !.known = x]) /\ Carried([s EXCEPT !.open = x])
           /\ \A x : Carried([s EXCEPT !.return = x]) /\ Carried([s EXCEPT !.prefill = x])
BY DEF Carried, Shape

\* What keys change in it, away from the criteria.
LEMMA ElsewhereParts ==
    ASSUME NEW s, Elsewhere(s)
    PROVE  /\ \A x : x \notin Watched \cup {"recovery"} => Elsewhere([s EXCEPT !.step = x])
           /\ \A x : Elsewhere([s EXCEPT !.section = x])
           /\ \A x : Elsewhere([s EXCEPT !.idx = x]) /\ Elsewhere([s EXCEPT !.field = x])
           /\ \A x : Elsewhere([s EXCEPT !.fields = x]) /\ Elsewhere([s EXCEPT !.generated = x])
           /\ \A x : Elsewhere([s EXCEPT !.prompt = x]) /\ Elsewhere([s EXCEPT !.busy = x])
           /\ \A x : Elsewhere([s EXCEPT !.known = x]) /\ Elsewhere([s EXCEPT !.open = x])
           /\ \A x : Elsewhere([s EXCEPT !.return = x]) /\ Elsewhere([s EXCEPT !.prefill = x])
           /\ \A x : Elsewhere([s EXCEPT !.useLLM = x])
           /\ \A x : Elsewhere([s EXCEPT !.config.off = x])
           /\ \A x : Elsewhere(SetUse(s, x)) /\ Elsewhere(SetProvider(s, x))
           /\ \A x : Elsewhere(Shut(s, x)) /\ Elsewhere(Opened(s, x))
<1> USE DEF Elsewhere, Carried, Shape, Fits, Watched
<1>1. \A x : x \notin Watched \cup {"recovery"} => Elsewhere([s EXCEPT !.step = x])
  OBVIOUS
<1>2. \A x : Elsewhere([s EXCEPT !.section = x]) /\ Elsewhere([s EXCEPT !.idx = x])
             /\ Elsewhere([s EXCEPT !.field = x]) /\ Elsewhere([s EXCEPT !.fields = x])
  OBVIOUS
<1>3. \A x : Elsewhere([s EXCEPT !.generated = x]) /\ Elsewhere([s EXCEPT !.prompt = x])
             /\ Elsewhere([s EXCEPT !.busy = x]) /\ Elsewhere([s EXCEPT !.known = x])
  OBVIOUS
<1>4. \A x : Elsewhere([s EXCEPT !.open = x]) /\ Elsewhere([s EXCEPT !.return = x])
             /\ Elsewhere([s EXCEPT !.prefill = x]) /\ Elsewhere([s EXCEPT !.useLLM = x])
  OBVIOUS
<1>5. \A x : Elsewhere([s EXCEPT !.config.off = x])
  OBVIOUS
<1>6. \A x : Elsewhere(SetUse(s, x)) /\ Elsewhere(SetProvider(s, x))
  BY DEF SetUse, SetProvider
<1>7. \A x : Elsewhere(Shut(s, x)) /\ Elsewhere(Opened(s, x))
  BY DEF Shut, Opened
<1> HIDE DEF Elsewhere, Carried, Shape, Fits, Watched
<1> QED BY <1>1, <1>2, <1>3, <1>4, <1>5, <1>6, <1>7

\* A step the wizard may be on, if what is saved there was made from the form.
LEMMA StepFits ==
    ASSUME NEW s, Carried(s), NEW x, Fits(s, x),
           x \in {"prompt_review", "preview"} => s.generated \subseteq {s.fields}
    PROVE  Went([s EXCEPT !.step = x])
<1> DEFINE t == [s EXCEPT !.step = x]
<1>1. Carried(t)
  BY CarriedParts
<1>2. /\ t.step = x /\ t.mode = s.mode /\ t.section = s.section /\ t.preview = {}
      /\ t.generated = s.generated /\ t.fields = s.fields
  BY DEF Carried, Shape
<1> HIDE DEF t
<1>3. Fits(t, x)
  BY <1>2 DEF Fits, Edits
<1> QED BY <1>1, <1>2, <1>3 DEF Went, InOrder, t

\* A recovery begins a plan of its own.
LEMMA HeadOfPlan ==
    ASSUME NEW s, s.mode \in Modes, s.mode # "recovery"
    PROVE  Head(Plan(s)) # "recovery"
<1>1. Plan(s) \in Seq(MainSteps) /\ Plan(s) # <<>>
  <2>1. CASE s.mode = "bootstrap"
    BY <2>1, PlansArePaths DEF Path
  <2>2. CASE s.mode # "bootstrap"
    <3> DEFINE q == SectionPlan(s.section)
               menu == <<"config_menu">>
    <3>1. Plan(s) = menu \o q
      BY <2>2 DEF Plan
    <3>2. /\ <<>> \in Seq(MainSteps) /\ menu \in Seq(MainSteps) /\ menu # <<>>
          /\ Path(<<"criteria", "summary">>, {"summary"})
          /\ Path(<<"prompt_review">>, {"prompt_review"})
          /\ Path(<<"llm_menu", "provider", "auth_mode", "auth_value", "model", "summary">>, {"summary"})
      BY PathPieces DEF Path
    <3>3. q \in Seq(MainSteps)
      BY <3>2 DEF SectionPlan, Path
    <3> HIDE DEF q, menu
    <3> QED BY <3>1, <3>2, <3>3, PlanPieces
  <2> QED BY <2>1, <2>2
<1> HIDE DEF MainSteps
<1>2. Len(Plan(s)) > 0 /\ 1 \in 1..Len(Plan(s)) /\ Head(Plan(s)) = Plan(s)[1]
  BY <1>1
<1>3. Fits(s, Plan(s)[1])
  BY <1>2, PlanMembers
<1> QED BY <1>2, <1>3 DEF Fits

\* Where it goes: to a step the wizard may be on.
LEMMA SetStepFits ==
    ASSUME NEW s, Carried(s), NEW step
    PROVE  \E x : /\ SetStep(s, step) = [s EXCEPT !.step = x]
                  /\ Fits(s, x)
                  /\ x = step \/ x \notin Watched
<1>1. Plan(s) \in Seq(MainSteps) /\ s.mode \in Modes /\ Head(Plan(s)) \in Firsts
  BY PlanSteps DEF Carried
<1>2. CASE InPlan(s, step)
  <2>1. PICK i \in 1..Len(Plan(s)) : Plan(s)[i] = step
    BY <1>2 DEF InPlan, Contains
  <2>2. Fits(s, step)
    BY <1>1, <2>1, PlanMembers
  <2> QED BY <1>2, <2>2 DEF SetStep
<1>3. CASE ~InPlan(s, step)
  <2> DEFINE x == Head(Plan(s))
  <2>1. x \notin Watched
    BY <1>1 DEF Watched, Firsts
  <2>2. x = "recovery" => s.mode = "recovery"
    BY <1>1, HeadOfPlan
  <2>3. SetStep(s, step) = [s EXCEPT !.step = x]
    BY <1>3 DEF SetStep
  <2> HIDE DEF x
  <2>4. Fits(s, x)
    BY <2>1, <2>2 DEF Fits, Watched
  <2> QED BY <2>1, <2>3, <2>4
<1> QED BY <1>2, <1>3

\* A step away from the criteria.
LEMMA SetElsewhere ==
    ASSUME NEW s, Carried(s), NEW step, step \notin Watched
    PROVE  Elsewhere(SetStep(s, step))
<1>1. PICK x : /\ SetStep(s, step) = [s EXCEPT !.step = x] /\ Fits(s, x) /\ x \notin Watched
  BY SetStepFits
<1> DEFINE t == [s EXCEPT !.step = x]
<1>2. Carried(t)
  BY CarriedParts
<1>3. t.step = x /\ t.mode = s.mode
  BY DEF Carried, Shape
<1> HIDE DEF t
<1>4. Fits(t, x)
  BY <1>1, <1>3 DEF Fits, Watched
<1> QED BY <1>1, <1>2, <1>3, <1>4 DEF Elsewhere, t

\* Forward to a step the wizard may be on, with what was generated.
LEMMA AdvanceFits ==
    ASSUME NEW s, Carried(s)
    PROVE  \E x : /\ Advance(s) = [s EXCEPT !.step = x]
                  /\ x = s.step \/ (Fits(s, x) /\ Link(s.step, x))
<1>1. /\ Plan(s) \in Seq(MainSteps)
      /\ \A i \in 2..Len(Plan(s)) : Link(Plan(s)[i - 1], Plan(s)[i])
  BY PlansArePaths
<1>2. Len(Plan(s)) \in Nat /\ s.mode \in Modes
  BY <1>1 DEF Carried
<1>3. CASE Ahead(s) = {}
  BY <1>3 DEF Advance
<1>4. CASE Ahead(s) # {}
  <2> DEFINE i == CHOOSE i \in Ahead(s) : TRUE
  <2>1. i \in 2..Len(Plan(s)) /\ Plan(s)[i - 1] = s.step
    BY <1>4 DEF Ahead
  <2>2. Advance(s) = [s EXCEPT !.step = Plan(s)[i]]
    BY <1>4 DEF Advance
  <2> HIDE DEF i
  <2>3. i \in 1..Len(Plan(s))
    BY <1>2, <2>1
  <2>4. Fits(s, Plan(s)[i]) /\ Link(s.step, Plan(s)[i])
    BY <1>1, <1>2, <2>1, <2>3, PlanMembers
  <2> QED BY <2>2, <2>4
<1> QED BY <1>3, <1>4

\* Back to a step the wizard may be on.
LEMMA RetreatFits ==
    ASSUME NEW s, Carried(s)
    PROVE  \E x : /\ Retreat(s) = [s EXCEPT !.step = x]
                  /\ x = s.step \/ (Fits(s, x) /\ Link(x, s.step))
<1>1. /\ Plan(s) \in Seq(MainSteps)
      /\ \A i \in 2..Len(Plan(s)) : Link(Plan(s)[i - 1], Plan(s)[i])
  BY PlansArePaths
<1>2. Len(Plan(s)) \in Nat /\ s.mode \in Modes
  BY <1>1 DEF Carried
<1>3. CASE Behind(s) = {}
  BY <1>3 DEF Retreat
<1>4. CASE Behind(s) # {}
  <2> DEFINE i == CHOOSE i \in Behind(s) : TRUE
  <2>1. i \in 1..(Len(Plan(s)) - 1) /\ Plan(s)[i + 1] = s.step
    BY <1>4 DEF Behind
  <2>2. Retreat(s) = [s EXCEPT !.step = Plan(s)[i]]
    BY <1>4 DEF Retreat
  <2> HIDE DEF i
  <2>3. i + 1 \in 2..Len(Plan(s)) /\ (i + 1) - 1 = i /\ i \in 1..Len(Plan(s))
    BY <1>2, <2>1
  <2>4. Fits(s, Plan(s)[i]) /\ Link(Plan(s)[i], s.step)
    BY <1>1, <1>2, <2>1, <2>3, PlanMembers
  <2> QED BY <2>2, <2>4
<1> QED BY <1>3, <1>4

\* Forward from elsewhere, but for the menu, and back from all steps but the preview.
LEMMA GoesOn ==
    ASSUME NEW s, Elsewhere(s), s.step # "config_menu"
    PROVE  Went(Advance(s))
<1>1. PICK x : Advance(s) = [s EXCEPT !.step = x] /\ (x = s.step \/ (Fits(s, x) /\ Link(s.step, x)))
  BY AdvanceFits DEF Elsewhere
<1>2. Fits(s, x) /\ x \notin {"prompt_review", "preview"}
  BY <1>1 DEF Elsewhere, Watched, Link
<1> QED BY <1>1, <1>2, StepFits DEF Elsewhere

\* Back from a step other than the preview the wizard stays in order.
LEMMA GoesBackInOrder ==
    ASSUME NEW s, Went(s), s.step # "preview"
    PROVE  Went(Retreat(s))
<1>1. PICK x : Retreat(s) = [s EXCEPT !.step = x] /\ (x = s.step \/ (Fits(s, x) /\ Link(x, s.step)))
  BY RetreatFits DEF Went
<1>2. Fits(s, x) /\ (x \in {"prompt_review", "preview"} => s.generated \subseteq {s.fields})
  BY <1>1 DEF Went, InOrder, Link
<1> QED BY <1>1, <1>2, StepFits DEF Went


\* Nothing else is under way that may put a notice on the screen.
Undisturbed == ~fetching /\ ~checking /\ DOMAIN tasks = {} /\ lookups = {}

\* A preview is asked for only on its own step, for what is on the disk, and the step waits
\* for it; what is shown is what is on the disk; only an edit may be interrupted by a notice;
\* and the first start waits for the resume it asked for.
PreviewInv ==
    /\ asked.previews # {} =>
          /\ screen = "setup" /\ setup.mode = "bootstrap" /\ setup.step = "preview"
          /\ "preview" \in setup.busy
          /\ asked.previews = {disk.config.criteria}
    /\ screen = "setup" =>
          /\ InOrder(setup)
          /\ setup.preview # {} => setup.preview = {disk.config.criteria}
          /\ setup.mode # "edit" => Undisturbed
          /\ setup.mode = "bootstrap" /\ asked.resumes > 0 =>
                asked.resumes = 1 /\ setup.step = "resume_path" /\ "resume" \in setup.busy

\* What a step may write.
Written ==
    disk'.config.criteria # disk.config.criteria =>
        disk'.config.criteria = IF setup.step \in Confirming THEN setup.fields
                                ELSE setup.config.criteria

\* What a step must show: the invariant afterwards, and what it wrote.
Sound == PreviewInv' /\ Written

\* A step of the wizard alone.
Besides == UNCHANGED <<fetching, checking, tasks, lookups>>

\* Neither a preview nor, on a first start, a resume is asked for.
Unasked == asked.previews = {} /\ (setup.mode = "bootstrap" => asked.resumes = 0)

\* The wizard on the screen.
OnSetup == WizardInv /\ PreviewInv /\ screen = "setup"

\* A wizard has the fields of one.
LEMMA ShapeOfWizard == ASSUME NEW s \in Wizards PROVE Shape(s) /\ s.mode \in Modes
BY DEF Wizards, Configs, Shape

\* Away from the steps that wait, nothing is asked for.
LEMMA QuietKey ==
    ASSUME OnSetup, setup.step # "preview",
           setup.step # "resume_path" \/ "resume" \notin setup.busy
    PROVE  Unasked /\ Went(setup) /\ (setup.step \notin Watched => Elsewhere(setup))
<1>1. setup \in Wizards /\ asked.resumes \in Nat
  BY DEF OnSetup, WizardInv, WizardTypeOK
<1>2. Shape(setup) /\ setup.mode \in Modes
  BY <1>1, ShapeOfWizard
<1>3. asked.previews = {} /\ InOrder(setup)
  BY DEF OnSetup, PreviewInv
<1>4. setup.mode = "bootstrap" => asked.resumes = 0
  BY <1>1 DEF OnSetup, PreviewInv
<1>5. setup.preview = {}
  BY <1>3 DEF InOrder
<1>6. Carried(setup)
  BY <1>2, <1>5 DEF Carried
<1>7. Fits(setup, setup.step)
  BY <1>3 DEF InOrder
<1> QED BY <1>3, <1>4, <1>6, <1>7 DEF Unasked, Went, Elsewhere

\* Settling changes nothing that matters here.
LEMMA SettledWent ==
    ASSUME NEW s, Went(s), NEW t \in Settled(s)
    PROVE  Went(t)
<1> DEFINE i == IF Listing(s) THEN s.idx ELSE 0
           f == IF s.step = "criteria" THEN s.field ELSE 1
<1>1. PICK k : t = [s EXCEPT !.idx = i, !.field = f, !.known = k]
  BY DEF Settled
<1> HIDE DEF i, f
<1>2. Shape(s)
  BY DEF Went, Carried
<1>3. /\ Shape(t) /\ t.mode = s.mode /\ t.step = s.step /\ t.section = s.section
      /\ t.generated = s.generated /\ t.fields = s.fields /\ t.preview = s.preview
      /\ t.config = s.config
  BY <1>1, <1>2 DEF Shape
<1> QED BY <1>3 DEF Went, Carried, InOrder, Fits, Edits

\* A wizard that shows no preview and waits for none.
LEMMA Lands ==
    ASSUME OnSetup, Went(setup'), screen' = screen, Besides,
           asked'.previews = {}, setup.mode = "bootstrap" => asked'.resumes = 0
    PROVE  PreviewInv'
<1>1. /\ setup'.mode = setup.mode /\ setup'.preview = {} /\ InOrder(setup')
  BY DEF Went, Carried
<1>2. InOrder(setup)'
  BY <1>1 DEF InOrder, Fits, Edits
<1>3. setup'.mode # "edit" => Undisturbed'
  BY <1>1 DEF OnSetup, PreviewInv, Undisturbed, Besides
<1> QED BY <1>1, <1>2, <1>3 DEF PreviewInv

\* A key that changes nothing but the wizard.
LEMMA BecomesSound ==
    ASSUME OnSetup, Unasked, NEW s, Went(s), Become(s), Besides
    PROVE  Sound
<1>1. Went(setup') /\ UNCHANGED <<disk, screen, asked>>
  BY SettledWent DEF Become
<1> QED BY <1>1, Lands DEF Unasked, Written, Sound

\* A key of another step than those of the form: it writes the criteria that were opened.
LEMMA SavesSound ==
    ASSUME OnSetup, Unasked, Elsewhere(setup), NEW s, Went(s), SaveConfig(s), Besides
    PROVE  Sound
<1>1. Went(setup') /\ UNCHANGED <<screen, asked>>
  BY SettledWent DEF SaveConfig
<1>2. Written
  <2>1. disk' \in {disk, [disk EXCEPT !.exists = TRUE, !.config = s.config]}
    BY DEF SaveConfig
  <2>2. disk \in Disks
    BY DEF OnSetup, WizardInv, WizardTypeOK
  <2>3. disk' = disk \/ disk'.config = s.config
    BY <2>1, <2>2 DEF Disks
  <2>4. s.config.criteria = setup.config.criteria
    BY DEF Went, Carried
  <2>5. setup.step \notin Confirming
    BY DEF Elsewhere, Watched, Confirming
  <2> QED BY <2>3, <2>4, <2>5 DEF Written
<1> QED BY <1>1, <1>2, Lands DEF Unasked, Sound

\* A step that leaves the screen to something else.
LEMMA LeavesSound ==
    ASSUME asked'.previews = {}, screen' # "setup", disk'.config.criteria = disk.config.criteria
    PROVE  Sound
BY DEF PreviewInv, Written, Sound

\* The wizard closes.
LEMMA ClosesSound ==
    ASSUME Unasked, NEW next, next # "setup", CloseWizard(next), UNCHANGED <<disk, asked>>
    PROVE  Sound
BY LeavesSound DEF CloseWizard, Unasked

\* The steps that neither save nor wait.
Plainly(x) == OnSetup /\ setup.step = x /\ x \notin Watched \cup {"resume_path"}

\* On such a step nothing is asked for.
LEMMA PlainStep ==
    ASSUME NEW x, Plainly(x)
    PROVE  OnSetup /\ Unasked /\ Elsewhere(setup) /\ Went(setup)
BY QuietKey DEF Plainly, Watched

\* Each step that is set in another way than by the plan.
LEMMA StepsElsewhere ==
    \A x \in {"provider_menu", "auth_mode", "model_value", "task_menu", "task_choice",
              "task_value", "llm_menu", "model", "auth_value", "resume_path", "provider",
              "criteria", "config_menu", "resume_choice"} :
        x \notin Watched \cup {"recovery"} /\ x \notin Watched
BY DEF Watched

\* Esc on such a step.
LEMMA BackSound ==
    ASSUME OnSetup, Unasked, Went(setup), setup.step # "preview", Back(setup), Besides
    PROVE  Sound
<1> DEFINE s == Retreat(setup)
           t == [s EXCEPT !.idx = IF Behind(setup) = {} THEN s.idx ELSE 0]
<1>1. Become(t)
  BY DEF Back
<1>2. Went(s)
  BY GoesBackInOrder
<1> HIDE DEF s
<1>3. Went(t)
  BY <1>2 DEF Went, Carried, Shape, InOrder, Fits, Edits
<1> HIDE DEF t
<1> QED BY <1>1, <1>3, BecomesSound

\* The first question and the configuration menu.
LEMMA QuestionSound == ASSUME OnSetup, Besides, LLMChoiceEnter PROVE Sound
<1>1. Unasked /\ Elsewhere(setup)
  BY PlainStep DEF LLMChoiceEnter, At, Plainly, Watched
<1>2. CASE Become(SetStep(SetUse(setup, TRUE), "provider"))
  <2>1. Carried(SetUse(setup, TRUE))
    BY <1>1, ElsewhereParts DEF Elsewhere
  <2>2. Went(SetStep(SetUse(setup, TRUE), "provider"))
    BY <2>1, SetElsewhere, StepsElsewhere, ElsewhereIsInOrder
  <2> QED BY <1>1, <1>2, <2>2, BecomesSound
<1>3. CASE Become(Advance([SetUse(setup, FALSE)
                    EXCEPT !.section = IF @ = "none" THEN "criteria" ELSE @]))
  <2> DEFINE s == SetUse(setup, FALSE)
             x == IF s.section = "none" THEN "criteria" ELSE s.section
             t == [s EXCEPT !.section = x]
  <2>1. Become(Advance(t))
    BY <1>3
  <2>2. Elsewhere(s) /\ s.step = "llm_choice"
    <3>1. setup.step = "llm_choice" /\ Shape(setup)
      BY <1>1 DEF LLMChoiceEnter, At, Elsewhere, Carried
    <3>2. s.step = "llm_choice"
      BY <3>1 DEF SetUse, Shape
    <3> QED BY <1>1, <3>2, ElsewhereParts
  <2> HIDE DEF s, x
  <2>3. Elsewhere(t) /\ t.step = "llm_choice"
    <3>1. t.step = s.step
      BY <2>2 DEF Elsewhere, Carried, Shape
    <3> QED BY <2>2, <3>1, ElsewhereParts
  <2> HIDE DEF t
  <2>4. Went(Advance(t))
    BY <2>3, GoesOn
  <2> QED BY <1>1, <2>1, <2>4, BecomesSound
<1> QED BY <1>2, <1>3 DEF LLMChoiceEnter

\* The configuration menu.
LEMMA MenuSound ==
    ASSUME OnSetup, Besides,
           ChooseCriteria \/ ChooseResume \/ ChooseLLM \/ ToggleSource \/ ConfigMenuEsc
    PROVE  Sound
<1>1. Unasked /\ Elsewhere(setup)
  BY PlainStep DEF ChooseCriteria, ChooseResume, ChooseLLM, ToggleSource, ConfigMenuEsc, At,
                   Plainly, Watched
<1>2. \A x : Elsewhere([setup EXCEPT !.section = x]) /\ Carried([setup EXCEPT !.section = x])
  BY <1>1, ElsewhereParts DEF Elsewhere
<1>3. \A x, y : y \notin Watched => Went(SetStep([setup EXCEPT !.section = x], y))
  BY <1>2, SetElsewhere, ElsewhereIsInOrder
<1>4. CASE ChooseCriteria
  <2>1. Went(SetStep([setup EXCEPT !.section = "criteria"], "criteria"))
    BY <1>3, StepsElsewhere
  <2> QED BY <1>1, <1>4, <2>1, BecomesSound DEF ChooseCriteria
<1>5. Went(SetStep([setup EXCEPT !.section = "llm"], "llm_menu"))
  BY <1>3, StepsElsewhere
<1>6. CASE ChooseResume
  <2> DEFINE s == [setup EXCEPT !.section = "criteria"]
             t == [s EXCEPT !.step = "resume_path"]
  <2>1. [setup EXCEPT !.section = "criteria", !.step = "resume_path"] = t
    BY <1>1 DEF Elsewhere, Carried, Shape
  <2>2. \/ Become([setup EXCEPT !.section = "criteria", !.step = "resume_path"])
        \/ Become(SetStep([setup EXCEPT !.section = "llm"], "llm_menu"))
    BY <1>6 DEF ChooseResume
  <2>3. Elsewhere(s)
    BY <1>2
  <2> HIDE DEF s
  <2>4. Went(t)
    BY <2>3, ElsewhereParts, StepsElsewhere, ElsewhereIsInOrder
  <2> HIDE DEF t
  <2> QED BY <1>1, <1>5, <2>1, <2>2, <2>4, BecomesSound
<1>7. CASE ChooseLLM
  BY <1>1, <1>5, <1>7, BecomesSound DEF ChooseLLM
<1>8. CASE ToggleSource
  <2>1. PICK x \in Switches :
           SaveConfig([setup EXCEPT !.config.off = IF x = "builtins" THEN setup.config.off
                                     ELSE (setup.config.off \ {x}) \cup ({x} \ setup.config.off)])
    BY <1>8 DEF ToggleSource
  <2> DEFINE off == IF x = "builtins" THEN setup.config.off
                    ELSE (setup.config.off \ {x}) \cup ({x} \ setup.config.off)
  <2>2. SaveConfig([setup EXCEPT !.config.off = off])
    BY <2>1
  <2> HIDE DEF off
  <2>3. Went([setup EXCEPT !.config.off = off])
    BY <1>1, ElsewhereParts, ElsewhereIsInOrder
  <2> QED BY <1>1, <2>2, <2>3, SavesSound
<1>9. CASE ConfigMenuEsc
  BY <1>1, <1>9, ClosesSound DEF ConfigMenuEsc
<1> QED BY <1>4, <1>6, <1>7, <1>8, <1>9

\* On the way to the prompt what is generated is what the form has, or nothing.
LEMMA ChoosePromptSound == ASSUME OnSetup, Besides, ChoosePrompt PROVE Sound
<1>1. Unasked /\ Elsewhere(setup)
  BY PlainStep DEF ChoosePrompt, At, Plainly, Watched
<1> DEFINE s == [setup EXCEPT !.section = "prompt"]
           full == Refreshed(s, FALSE)
           empty == [s EXCEPT !.generated = {}, !.prompt = "made"]
           t == IF Parses(s.fields) THEN full ELSE empty
<1>2. Become(IF t.useLLM THEN SetStep(t, "prompt_review") ELSE t)
  BY DEF ChoosePrompt
<1>3. Elsewhere(s)
  BY <1>1, ElsewhereParts
<1> HIDE DEF s
<1>4. Elsewhere(full) /\ full.generated \subseteq {full.fields}
  BY <1>3 DEF Refreshed, Elsewhere, Carried, Shape, Fits, Watched
<1>5. Elsewhere(empty) /\ empty.generated \subseteq {empty.fields}
  BY <1>3 DEF Elsewhere, Carried, Shape, Fits, Watched
<1> HIDE DEF full, empty
<1>6. Elsewhere(t) /\ t.generated \subseteq {t.fields}
  BY <1>4, <1>5
<1> HIDE DEF t
<1>7. Went(SetStep(t, "prompt_review"))
  <2>1. PICK x : SetStep(t, "prompt_review") = [t EXCEPT !.step = x] /\ Fits(t, x)
    BY <1>6, SetStepFits DEF Elsewhere
  <2> QED BY <1>6, <2>1, StepFits DEF Elsewhere
<1> QED BY <1>1, <1>2, <1>6, <1>7, ElsewhereIsInOrder, BecomesSound


\* The language model and its provider.
LEMMA ProviderSound ==
    ASSUME OnSetup, Besides,
           ToggleLLM \/ PickProvider \/ OpenProviderMenu \/ LLMMenuEsc \/ ProviderMenuEnter
               \/ ProviderMenuEsc \/ ProviderEnter \/ ProviderEsc
    PROVE  Sound
<1>1. Unasked /\ Elsewhere(setup) /\ Went(setup) /\ setup.step # "preview"
  <2>1. setup.step \in {"llm_menu", "provider_menu", "provider"}
    BY DEF ToggleLLM, PickProvider, OpenProviderMenu, LLMMenuEsc, ProviderMenuEnter,
           ProviderMenuEsc, ProviderEnter, ProviderEsc, At
  <2>2. Plainly(setup.step) /\ setup.step # "preview"
    BY <2>1 DEF Plainly, Watched
  <2> QED BY <2>2, PlainStep
<1>2. \A menus : Elsewhere(Shut(setup, menus)) /\ Elsewhere(Opened(setup, menus))
  BY <1>1, ElsewhereParts
<1>3. CASE ToggleLLM
  <2>1. Went(SetUse(Shut(setup, {"llm_menu"}), ~setup.useLLM))
    BY <1>2, ElsewhereParts, ElsewhereIsInOrder
  <2> QED BY <1>1, <1>3, <2>1, SavesSound DEF ToggleLLM
<1>4. CASE PickProvider
  <2>1. CASE "llm_menu" \notin setup.open
    BY <1>1, <1>2, <1>4, <2>1, ElsewhereIsInOrder, BecomesSound DEF PickProvider
  <2>2. CASE "llm_menu" \in setup.open
    <3>1. PICK p \in Providers :
             SaveConfig(SetProvider(SetUse(Shut(setup, {"llm_menu"}), TRUE), p))
      BY <1>4, <2>2 DEF PickProvider
    <3>2. Elsewhere(SetUse(Shut(setup, {"llm_menu"}), TRUE))
      BY <1>2, ElsewhereParts
    <3>3. Went(SetProvider(SetUse(Shut(setup, {"llm_menu"}), TRUE), p))
      BY <3>2, ElsewhereParts, ElsewhereIsInOrder
    <3> QED BY <1>1, <3>1, <3>3, SavesSound
  <2> QED BY <2>1, <2>2
<1>5. CASE OpenProviderMenu
  <2> DEFINE s == SetUse(Shut(setup, {"llm_menu"}), TRUE)
             t == [s EXCEPT !.step = "provider_menu"]
             u == [t EXCEPT !.return = FALSE]
  <2>1. Become([s EXCEPT !.step = "provider_menu", !.return = FALSE])
    BY <1>5 DEF OpenProviderMenu
  <2>2. Elsewhere(s)
    BY <1>2, ElsewhereParts
  <2> HIDE DEF s
  <2>3. [s EXCEPT !.step = "provider_menu", !.return = FALSE] = u
    BY <2>2 DEF Elsewhere, Carried, Shape
  <2>4. Elsewhere(t)
    BY <2>2, ElsewhereParts, StepsElsewhere
  <2> HIDE DEF t
  <2>5. Went(u)
    BY <2>4, ElsewhereParts, ElsewhereIsInOrder
  <2> HIDE DEF u
  <2> QED BY <1>1, <2>1, <2>3, <2>5, BecomesSound
<1>6. CASE LLMMenuEsc
  BY <1>1, <1>2, <1>6, BackSound, BecomesSound, ElsewhereIsInOrder DEF LLMMenuEsc
<1>7. CASE ProviderMenuEnter
  <2> DEFINE s == [setup EXCEPT !.return = TRUE]
             t == Shut(s, {"provider_menu"})
             hosted == t.config.provider \in Hosted
             menu == Shut(t, {"task_menu"})
  <2>1. \/ Become([t EXCEPT !.step = IF hosted THEN "auth_mode" ELSE t.step])
        \/ Become(Opened(s, "provider_menu"))
        \/ SaveConfig(t)
        \/ Become([t EXCEPT !.step = "model_value"])
        \/ Become([menu EXCEPT !.step = "task_menu"])
    BY <1>7 DEF ProviderMenuEnter
  <2>2. Elsewhere(s)
    BY <1>1, ElsewhereParts
  <2> HIDE DEF s
  <2>3. Elsewhere(t) /\ Elsewhere(Opened(s, "provider_menu"))
    BY <2>2, ElsewhereParts
  <2> HIDE DEF t, hosted
  <2>4. Elsewhere(menu)
    BY <2>3, ElsewhereParts
  <2> HIDE DEF menu
  <2>5. /\ Went([t EXCEPT !.step = "auth_mode"]) /\ Went([t EXCEPT !.step = "model_value"])
        /\ Went([menu EXCEPT !.step = "task_menu"])
    BY <2>3, <2>4, ElsewhereParts, StepsElsewhere, ElsewhereIsInOrder
  <2>6. Went([t EXCEPT !.step = t.step])
    <3>1. Elsewhere([t EXCEPT !.step = t.step])
      BY <2>3 DEF Elsewhere, Carried, Shape, Fits, Watched
    <3> QED BY <3>1, ElsewhereIsInOrder
  <2>7. Went([t EXCEPT !.step = IF hosted THEN "auth_mode" ELSE t.step])
    BY <2>5, <2>6
  <2>8. Went(t) /\ Went(Opened(s, "provider_menu"))
    BY <2>3, ElsewhereIsInOrder
  <2> QED BY <1>1, <2>1, <2>5, <2>7, <2>8, BecomesSound, SavesSound
<1>8. CASE ProviderMenuEsc
  <2> DEFINE t == [setup EXCEPT !.step = "llm_menu"]
             u == [t EXCEPT !.return = FALSE]
  <2>1. \/ Become(Shut(setup, {"provider_menu"}))
        \/ Become([setup EXCEPT !.step = "llm_menu", !.return = FALSE])
    BY <1>8 DEF ProviderMenuEsc
  <2>2. [setup EXCEPT !.step = "llm_menu", !.return = FALSE] = u
    BY <1>1 DEF Elsewhere, Carried, Shape
  <2>3. Elsewhere(t)
    BY <1>1, ElsewhereParts, StepsElsewhere
  <2> HIDE DEF t
  <2>4. Went(u)
    BY <2>3, ElsewhereParts, ElsewhereIsInOrder
  <2> HIDE DEF u
  <2> QED BY <1>1, <1>2, <2>1, <2>2, <2>4, ElsewhereIsInOrder, BecomesSound
<1>9. CASE ProviderEnter
  <2>1. PICK p \in Providers :
           \/ SaveConfig(SetStep(SetProvider(setup, p), "llm_menu"))
           \/ Become(SetStep(SetProvider(setup, p), "auth_mode"))
           \/ Become([SetStep(SetProvider(setup, p), "model") EXCEPT !.idx = 0])
    BY <1>9 DEF ProviderEnter
  <2> DEFINE s == SetProvider(setup, p)
  <2>2. Carried(s)
    BY <1>1, ElsewhereParts DEF Elsewhere
  <2>3. \/ SaveConfig(SetStep(s, "llm_menu"))
        \/ Become(SetStep(s, "auth_mode"))
        \/ Become([SetStep(s, "model") EXCEPT !.idx = 0])
    BY <2>1
  <2> HIDE DEF s
  <2>4. /\ Elsewhere(SetStep(s, "llm_menu")) /\ Elsewhere(SetStep(s, "auth_mode"))
        /\ Elsewhere(SetStep(s, "model"))
    BY <2>2, SetElsewhere, StepsElsewhere
  <2>5. Elsewhere([SetStep(s, "model") EXCEPT !.idx = 0])
    BY <2>4, ElsewhereParts
  <2> QED BY <1>1, <2>3, <2>4, <2>5, ElsewhereIsInOrder, BecomesSound, SavesSound
<1>10. CASE ProviderEsc
  BY <1>1, <1>10, BackSound DEF ProviderEsc
<1> QED BY <1>3, <1>4, <1>5, <1>6, <1>7, <1>8, <1>9, <1>10

\* The models.
LEMMA ModelChosenSound ==
    ASSUME OnSetup, Besides, Unasked, Elsewhere(setup), NEW s, Elsewhere(s),
           s.step # "config_menu", ModelChosen(s)
    PROVE  Sound
<1>1. Went([s EXCEPT !.step = "provider_menu"])
  BY ElsewhereParts, StepsElsewhere, ElsewhereIsInOrder
<1>2. Went(Advance(s))
  BY GoesOn
<1>3. \/ SaveConfig([s EXCEPT !.step = "provider_menu"])
      \/ CloseWizard("none") /\ UNCHANGED <<disk, asked>>
      \/ Become(Advance(s))
  BY DEF ModelChosen
<1> QED BY <1>1, <1>2, <1>3, BecomesSound, SavesSound, ClosesSound

\* Entering a model by hand, and Esc.
LEMMA ModelSound ==
    ASSUME OnSetup, Besides, ModelEnter \/ ModelEsc \/ ModelValueEnter \/ ModelValueEsc
    PROVE  Sound
<1>1. /\ Unasked /\ Elsewhere(setup) /\ Went(setup) /\ setup.step # "preview"
      /\ setup.step # "config_menu"
  <2>1. setup.step \in {"model", "model_value"}
    BY DEF ModelEnter, ModelEsc, ModelValueEnter, ModelValueEsc, At
  <2>2. Plainly(setup.step) /\ setup.step \notin {"preview", "config_menu"}
    BY <2>1 DEF Plainly, Watched
  <2> QED BY <2>2, PlainStep
<1>2. \A x \in {"model_value", "provider_menu", "model"} : Elsewhere([setup EXCEPT !.step = x])
  BY <1>1, ElsewhereParts, StepsElsewhere
<1>3. /\ Went([setup EXCEPT !.step = "model_value"]) /\ Went([setup EXCEPT !.step = "provider_menu"])
      /\ Elsewhere([setup EXCEPT !.step = "model"])
  BY <1>2, ElsewhereIsInOrder
<1>4. Went(SetStep(setup, "provider"))
  BY <1>1, SetElsewhere, StepsElsewhere, ElsewhereIsInOrder DEF Elsewhere
<1>5. CASE ModelEnter
  BY <1>1, <1>3, <1>5, BecomesSound, ModelChosenSound DEF ModelEnter
<1>6. CASE ModelEsc
  BY <1>1, <1>3, <1>4, <1>6, BecomesSound, BackSound DEF ModelEsc
<1> DEFINE s == [setup EXCEPT !.step = "model"]
<1>7. s.step = "model" /\ [setup EXCEPT !.step = "model", !.idx = 0] = [s EXCEPT !.idx = 0]
  BY <1>1 DEF Elsewhere, Carried, Shape
<1>8. CASE ModelValueEnter
  <2>1. ModelChosen(s)
    BY <1>8 DEF ModelValueEnter
  <2>2. Elsewhere(s) /\ s.step = "model"
    BY <1>3, <1>7
  <2> HIDE DEF s
  <2> QED BY <1>1, <2>1, <2>2, ModelChosenSound
<1>9. CASE ModelValueEsc
  <2>1. Elsewhere(s)
    BY <1>3
  <2>2. \/ Become([setup EXCEPT !.step = "provider_menu"])
        \/ Become([setup EXCEPT !.step = "model", !.idx = 0])
    BY <1>9 DEF ModelValueEsc
  <2> HIDE DEF s
  <2>3. Went([s EXCEPT !.idx = 0])
    BY <2>1, ElsewhereParts, ElsewhereIsInOrder
  <2> QED BY <1>1, <1>3, <1>7, <2>2, <2>3, BecomesSound
<1> QED BY <1>5, <1>6, <1>8, <1>9

\* The models of the tasks, and the credentials.
LEMMA TaskSound ==
    ASSUME OnSetup, Besides,
           TaskMenuEnter \/ TaskMenuEsc \/ TaskChoiceEnter \/ TaskChoiceEsc \/ TaskValueEnter
               \/ TaskValueEsc
    PROVE  Sound
<1>1. Unasked /\ Elsewhere(setup)
  <2>1. setup.step \in {"task_menu", "task_choice", "task_value"}
    BY DEF TaskMenuEnter, TaskMenuEsc, TaskChoiceEnter, TaskChoiceEsc, TaskValueEnter,
           TaskValueEsc, At
  <2>2. Plainly(setup.step)
    BY <2>1 DEF Plainly, Watched
  <2> QED BY <2>2, PlainStep
<1> DEFINE s == Shut(setup, {"task_menu"})
           t == [setup EXCEPT !.step = "task_choice"]
<1>2. Elsewhere(s) /\ Elsewhere(Opened(setup, "task_menu")) /\ Elsewhere(t)
  BY <1>1, ElsewhereParts, StepsElsewhere
<1>3. [setup EXCEPT !.step = "task_choice", !.idx = 0] = [t EXCEPT !.idx = 0]
  BY <1>1 DEF Elsewhere, Carried, Shape
<1>4. \/ Become(Opened(setup, "task_menu")) \/ SaveConfig(s)
      \/ Become([s EXCEPT !.step = "task_value"]) \/ Become(s)
      \/ Become([setup EXCEPT !.step = "provider_menu"])
      \/ Become([setup EXCEPT !.step = "task_value"])
      \/ SaveConfig([setup EXCEPT !.step = "task_menu"])
      \/ Become([setup EXCEPT !.step = "task_menu"])
      \/ Become([setup EXCEPT !.step = "task_choice", !.idx = 0])
  BY DEF TaskMenuEnter, TaskMenuEsc, TaskChoiceEnter, TaskChoiceEsc, TaskValueEnter, TaskValueEsc
<1> HIDE DEF s, t
<1>5. /\ Went([s EXCEPT !.step = "task_value"]) /\ Went([setup EXCEPT !.step = "provider_menu"])
      /\ Went([setup EXCEPT !.step = "task_value"]) /\ Went([setup EXCEPT !.step = "task_menu"])
      /\ Went([t EXCEPT !.idx = 0]) /\ Went(s) /\ Went(Opened(setup, "task_menu"))
  BY <1>1, <1>2, ElsewhereParts, StepsElsewhere, ElsewhereIsInOrder
<1> QED BY <1>1, <1>3, <1>4, <1>5, BecomesSound, SavesSound

\* The credentials.
LEMMA AuthSound ==
    ASSUME OnSetup, Besides, AuthModeEnter \/ AuthModeEsc \/ AuthValueEnter \/ AuthValueEsc
    PROVE  Sound
<1>1. /\ Unasked /\ Elsewhere(setup) /\ Went(setup) /\ setup.step # "preview"
      /\ setup.step # "config_menu"
  <2>1. setup.step \in {"auth_mode", "auth_value"}
    BY DEF AuthModeEnter, AuthModeEsc, AuthValueEnter, AuthValueEsc, At
  <2>2. Plainly(setup.step) /\ setup.step \notin {"preview", "config_menu"}
    BY <2>1 DEF Plainly, Watched
  <2> QED BY <2>2, PlainStep
<1>2. /\ Went([setup EXCEPT !.step = "auth_value"]) /\ Went([setup EXCEPT !.step = "auth_mode"])
      /\ Went([setup EXCEPT !.step = "provider_menu"])
  BY <1>1, ElsewhereParts, StepsElsewhere, ElsewhereIsInOrder
<1>3. Went(Advance(setup))
  BY <1>1, GoesOn
<1>4. Went([Advance(setup) EXCEPT !.idx = 0])
  <2> DEFINE s == Advance(setup)
  <2>1. Went(s)
    BY <1>3
  <2> HIDE DEF s
  <2>2. Went([s EXCEPT !.idx = 0])
    BY <2>1 DEF Went, Carried, Shape, InOrder, Fits, Edits
  <2> QED BY <2>2 DEF s
<1>5. \/ Become([setup EXCEPT !.step = "auth_value"])
      \/ Become([setup EXCEPT !.step = "auth_mode"])
      \/ Become([setup EXCEPT !.step = "provider_menu"])
      \/ SaveConfig([setup EXCEPT !.step = "provider_menu"])
      \/ Become(Advance(setup)) \/ Become([Advance(setup) EXCEPT !.idx = 0])
      \/ Back(setup)
  <2>1. CASE AuthModeEnter
    BY <2>1 DEF AuthModeEnter
  <2>2. CASE AuthModeEsc
    BY <2>2 DEF AuthModeEsc
  <2>3. CASE AuthValueEnter
    BY <2>3 DEF AuthValueEnter
  <2>4. CASE AuthValueEsc
    BY <2>4 DEF AuthValueEsc
  <2> QED BY <2>1, <2>2, <2>3, <2>4
<1> QED BY <1>1, <1>2, <1>3, <1>4, <1>5, BecomesSound, SavesSound, BackSound

\* The cursor, and the fields of the form.
LEMMA FieldsSound ==
    ASSUME OnSetup, Besides,
           MoveCursor \/ ResumeChoiceEnter \/ ResumeChoiceEsc \/ CriteriaEnter \/ CriteriaEsc
    PROVE  Sound
<1>1. /\ Unasked /\ Elsewhere(setup) /\ Went(setup) /\ setup.step # "preview"
      /\ setup.step # "config_menu"
  <2>1. setup.step \in {"model", "task_choice", "resume_choice", "criteria"}
    BY DEF MoveCursor, Listing, ResumeChoiceEnter, ResumeChoiceEsc, CriteriaEnter, CriteriaEsc, At
  <2>2. Plainly(setup.step) /\ setup.step \notin {"preview", "config_menu"}
    BY <2>1 DEF Plainly, Watched
  <2> QED BY <2>2, PlainStep
<1>2. CASE MoveCursor
  <2>1. PICK i : Become([setup EXCEPT !.idx = i])
    BY <1>2 DEF MoveCursor
  <2>2. Went([setup EXCEPT !.idx = i])
    BY <1>1, ElsewhereParts, ElsewhereIsInOrder
  <2> QED BY <1>1, <2>1, <2>2, BecomesSound
<1>3. CASE ResumeChoiceEnter
  <2>1. Went(SetStep(setup, "resume_path"))
    BY <1>1, SetElsewhere, StepsElsewhere, ElsewhereIsInOrder DEF Elsewhere
  <2>2. Carried([setup EXCEPT !.prefill = FALSE])
    BY <1>1, ElsewhereParts DEF Elsewhere
  <2>3. Went(SetStep([setup EXCEPT !.prefill = FALSE], "criteria"))
    BY <2>2, SetElsewhere, StepsElsewhere, ElsewhereIsInOrder
  <2> QED BY <1>1, <1>3, <2>1, <2>3, BecomesSound DEF ResumeChoiceEnter
<1>4. CASE ResumeChoiceEsc
  BY <1>1, <1>4, BackSound DEF ResumeChoiceEsc
<1>5. CASE CriteriaEnter
  <2>1. PICK v \in Typed[setup.field] :
           LET s == [setup EXCEPT !.fields[setup.field] = v]
           IN  Become(IF s.field = FieldCount THEN Advance(s) ELSE [s EXCEPT !.field = @ + 1])
    BY <1>5 DEF CriteriaEnter
  <2> DEFINE fields == [setup.fields EXCEPT ![setup.field] = v]
             s == [setup EXCEPT !.fields = fields]
  <2>2. [setup EXCEPT !.fields[setup.field] = v] = s
    OBVIOUS
  <2>3. Become(IF s.field = FieldCount THEN Advance(s) ELSE [s EXCEPT !.field = s.field + 1])
    BY <2>1, <2>2
  <2> HIDE DEF fields
  <2>4. Elsewhere(s) /\ s.step # "config_menu"
    <3>1. s.step = setup.step
      BY <1>1 DEF Elsewhere, Carried, Shape
    <3> QED BY <1>1, <3>1, ElsewhereParts
  <2> HIDE DEF s
  <2>5. Went(Advance(s)) /\ Went([s EXCEPT !.field = s.field + 1])
    BY <2>4, GoesOn, ElsewhereParts, ElsewhereIsInOrder
  <2>6. Become(Advance(s)) \/ Become([s EXCEPT !.field = s.field + 1])
    BY <2>3
  <2> QED BY <1>1, <2>5, <2>6, BecomesSound
<1>6. CASE CriteriaEsc
  <2>1. Went(SetStep(setup, "config_menu"))
    BY <1>1, SetElsewhere, StepsElsewhere, ElsewhereIsInOrder DEF Elsewhere
  <2>2. CASE Become(SetStep(setup, "config_menu")) \/ Back(setup)
    BY <1>1, <2>1, <2>2, BecomesSound, BackSound
  <2>3. ASSUME NEW v \in Typed[setup.field],
               Become([setup EXCEPT !.fields[setup.field] = v, !.field = @ - 1])
        PROVE  Sound
    <3> DEFINE fields == [setup.fields EXCEPT ![setup.field] = v]
               s == [setup EXCEPT !.fields = fields]
    <3>1. [setup EXCEPT !.fields[setup.field] = v, !.field = setup.field - 1]
          = [s EXCEPT !.field = setup.field - 1]
      BY <1>1 DEF Elsewhere, Carried, Shape
    <3>2. Become([s EXCEPT !.field = setup.field - 1])
      BY <2>3, <3>1
    <3> HIDE DEF fields
    <3>3. Elsewhere(s)
      BY <1>1, ElsewhereParts
    <3> HIDE DEF s
    <3>4. Went([s EXCEPT !.field = setup.field - 1])
      BY <3>3, ElsewhereParts, ElsewhereIsInOrder
    <3> QED BY <1>1, <3>2, <3>4, BecomesSound
  <2> QED BY <1>6, <2>2, <2>3 DEF CriteriaEsc
<1> QED BY <1>2, <1>3, <1>4, <1>5, <1>6


\* What is to be saved is what the form has, or nothing that parses was made from it.
Ready(s) == Went(s) /\ s.generated \subseteq {s.fields} /\ s.fields = setup.fields

\* What is missing is made from the form, and the form is written.
LEMMA FilledIsForm ==
    ASSUME NEW s, Ready(s)
    PROVE  /\ Ready(Filled(s)) /\ Filled(s).generated = {setup.fields}
           /\ Filled(s).mode = s.mode
           /\ Artifacts(Filled(s)).config.criteria = setup.fields
<1> DEFINE t == Filled(s)
<1>1. Shape(s)
  BY DEF Ready, Went, Carried
<1>2. /\ Shape(t) /\ t.mode = s.mode /\ t.step = s.step /\ t.section = s.section
      /\ t.fields = s.fields /\ t.preview = s.preview /\ t.config = s.config
      /\ t.generated = IF s.generated = {} THEN {s.fields} ELSE s.generated
  BY <1>1 DEF Filled, Shape
<1>3. t.generated = {setup.fields}
  BY <1>2 DEF Ready
<1> HIDE DEF t
<1>4. Went(t)
  BY <1>2, <1>3 DEF Ready, Went, Carried, InOrder, Fits, Edits
<1>5. (CHOOSE c \in t.generated : TRUE) = setup.fields
  BY <1>3
<1>6. Artifacts(t).config.criteria = setup.fields
  <2>1. Artifacts(t).config = [t.config EXCEPT !.criteria = CHOOSE c \in t.generated : TRUE]
    BY DEF Artifacts
  <2> QED BY <1>2, <1>5, <2>1 DEF Shape
<1> QED BY <1>2, <1>3, <1>4, <1>6 DEF Ready, t

\* A save that fails may have written the configuration already: it has the form too.
LEMMA FailedSaveSound ==
    ASSUME OnSetup, Besides, Unasked, setup.step \in Confirming, NEW s, Ready(s), SaveFails(s)
    PROVE  Sound
<1>1. CASE ~Savable(s)
  BY <1>1, BecomesSound DEF SaveFails, Ready
<1>2. CASE Savable(s)
  <2> DEFINE t == Filled(s)
             d == [Artifacts(t) EXCEPT !.prompt = disk.prompt]
  <2>1. setup' = t /\ disk' \in {disk, d} /\ UNCHANGED <<screen, asked>>
    BY <1>2 DEF SaveFails
  <2>2. d.config.criteria = setup.fields
    <3>1. d.config = Artifacts(t).config
      BY DEF Artifacts
    <3> HIDE DEF d
    <3> QED BY <3>1, FilledIsForm
  <2>3. Went(t)
    BY FilledIsForm DEF Ready
  <2> HIDE DEF t, d
  <2>4. Written
    BY <2>1, <2>2 DEF Written
  <2> QED BY <2>1, <2>3, <2>4, Lands DEF Unasked, Sound
<1> QED BY <1>1, <1>2

\* The steps of the form write it.
LEMMA FormIsWritten ==
    ASSUME setup.step \in Confirming, NEW s, Ready(s), Saves(s)
    PROVE  Written /\ disk'.config.criteria = setup.fields
BY FilledIsForm DEF Saves, Written

\* The wizard on another step, or another section, once the form is saved.
LEMMA SentElsewhere ==
    ASSUME NEW s, Ready(s), NEW section, NEW x, x \notin Watched
    PROVE  Went(SetStep([s EXCEPT !.section = section], x))
<1>1. Carried([s EXCEPT !.section = section])
  BY CarriedParts DEF Ready, Went
<1> QED BY <1>1, SetElsewhere, ElsewhereIsInOrder

\* The wizard is through: it closes, or the next thing that is missing opens.
LEMMA CompletedSound ==
    ASSUME OnSetup, Besides, Unasked, setup.step \in Confirming, NEW s, Ready(s),
           SaveAndComplete(s)
    PROVE  Sound
<1>1. CASE SaveFails(s)
  BY <1>1, FailedSaveSound
<1>2. CASE Saves(s) /\ Complete(Filled(s)) /\ asked' = asked
  <2> DEFINE t == Filled(s)
  <2>1. Written /\ Ready(t)
    BY <1>2, FormIsWritten, FilledIsForm
  <2>2. Complete(t)
    BY <1>2
  <2> HIDE DEF t
  <2>3. \/ setup' = SetStep([t EXCEPT !.section = SectionFor(disk')], "config_menu") /\ screen' = screen
        \/ CloseWizard("notice") \/ CloseWizard("none")
        \/ setup' = t /\ screen' = screen
    <3>1. CASE t.mode = "repair"
      BY <2>2, <3>1 DEF Complete
    <3>2. CASE t.mode = "edit"
      BY <2>2, <3>2 DEF Complete
    <3>3. CASE t.mode \notin {"repair", "edit"}
      BY <2>2, <3>3 DEF Complete
    <3> QED BY <3>1, <3>2, <3>3
  <2>4. CASE setup' = SetStep([t EXCEPT !.section = SectionFor(disk')], "config_menu")
             /\ screen' = screen
    <3>1. Went(setup')
      BY <2>1, <2>4, SentElsewhere, StepsElsewhere
    <3> QED BY <1>2, <2>1, <2>4, <3>1, Lands DEF Unasked, Sound
  <2>5. CASE CloseWizard("notice") \/ CloseWizard("none")
    BY <1>2, <2>1, <2>5 DEF CloseWizard, Unasked, PreviewInv, Sound
  <2>6. CASE setup' = t /\ screen' = screen
    BY <1>2, <2>1, <2>6, Lands DEF Unasked, Sound, Ready
  <2> QED BY <2>3, <2>4, <2>5, <2>6
<1> QED BY <1>1, <1>2 DEF SaveAndComplete

\* Something is missing still: the wizard goes where it is asked for.
LEMMA RedirectedSound ==
    ASSUME OnSetup, Besides, Unasked, setup.step \in Confirming, NEW s, Ready(s),
           RedirectToAuth(s)
    PROVE  Sound
<1>1. CASE SaveFails(s)
  BY <1>1, FailedSaveSound
<1>2. CASE /\ Saves(s)
           /\ setup' = SetStep([Filled(s) EXCEPT !.section = "llm"], "auth_mode")
           /\ UNCHANGED <<screen, asked>>
  <2>1. Written /\ Ready(Filled(s))
    BY <1>2, FormIsWritten, FilledIsForm
  <2>2. Went(setup')
    BY <1>2, <2>1, SentElsewhere, StepsElsewhere
  <2> QED BY <1>2, <2>1, <2>2, Lands DEF Unasked, Sound
<1> QED BY <1>1, <1>2 DEF RedirectToAuth

\* The preview asks for what was saved just before.
LEMMA PreviewedSound ==
    ASSUME OnSetup, Besides, Unasked, setup.step \in Confirming, NEW s, Ready(s),
           s.mode = "bootstrap", SaveAndPreview(s)
    PROVE  Sound
<1>1. CASE SaveFails(s)
  BY <1>1, FailedSaveSound
<1>2. CASE BeginPreview(s)
  <2> DEFINE t == Filled(s)
             u == SetStep(t, "preview")
             v == [u EXCEPT !.busy = u.busy \cup {"preview"}, !.preview = {}]
  <2>1. /\ Ready(t) /\ t.generated = {setup.fields} /\ t.mode = "bootstrap"
        /\ Written /\ disk'.config.criteria = setup.fields
    BY <1>2, FilledIsForm, FormIsWritten DEF BeginPreview
  <2>2. /\ setup' \in Settled(v) /\ screen' = screen
        /\ asked' = [asked EXCEPT !.previews = asked.previews \cup t.generated]
    BY <1>2 DEF BeginPreview
  <2> HIDE DEF t
  <2>3. u = [t EXCEPT !.step = "preview"]
    <3>1. InPlan(t, "preview")
      <4>1. Path(Plan(t), {"preview"})
        BY <2>1, PlansArePaths
      <4> DEFINE p == Plan(t)
      <4>2. p \in Seq(MainSteps) /\ p # <<>> /\ p[Len(p)] = "preview"
        BY <4>1 DEF Path
      <4>3. Len(p) \in 1..Len(p)
        <5> HIDE DEF MainSteps, p
        <5> QED BY <4>2
      <4> QED BY <4>2, <4>3 DEF InPlan, Contains
    <3> QED BY <3>1 DEF SetStep
  <2>4. Shape(t)
    BY <2>1 DEF Ready, Went, Carried
  <2>5. /\ v.mode = "bootstrap" /\ v.step = "preview" /\ v.preview = {} /\ "preview" \in v.busy
        /\ v.generated = t.generated /\ v.fields = t.fields /\ Shape(v)
    BY <2>1, <2>3, <2>4 DEF Shape
  <2> HIDE DEF u, v
  <2>6. /\ setup'.mode = "bootstrap" /\ setup'.step = "preview" /\ setup'.preview = {}
        /\ "preview" \in setup'.busy /\ setup'.generated = t.generated /\ setup'.fields = t.fields
    <3>1. PICK k : setup' = [v EXCEPT !.idx = IF Listing(v) THEN @ ELSE 0,
                                      !.field = IF v.step = "criteria" THEN @ ELSE 1,
                                      !.known = k]
      BY <2>2 DEF Settled
    <3> QED BY <2>5, <3>1 DEF Shape
  <2>7. InOrder(setup')
    BY <2>1, <2>6 DEF InOrder, Fits, Ready
  <2>8. InOrder(setup)'
    BY <2>7 DEF InOrder, Fits, Edits
  <2>9. /\ asked'.previews = {disk'.config.criteria} /\ asked'.resumes = asked.resumes
    <3>1. asked \in [resumes: 0..MaxResumes, previews: SUBSET Criteria]
      BY DEF OnSetup, WizardInv, WizardTypeOK
    <3> QED BY <2>1, <2>2, <3>1 DEF Unasked
  <2>10. setup.mode = "bootstrap"
    BY <2>1 DEF Ready, Went, Carried
  <2>11. Undisturbed'
    BY <2>10 DEF OnSetup, PreviewInv, Undisturbed, Besides
  <2>12. asked'.resumes = 0
    BY <2>9, <2>10 DEF Unasked
  <2>13. screen' = "setup"
    BY <2>2 DEF OnSetup
  <2> QED BY <2>1, <2>6, <2>8, <2>9, <2>11, <2>12, <2>13 DEF PreviewInv, Sound
<1> QED BY <1>1, <1>2 DEF SaveAndPreview

\* The summary and the prompt.
LEMMA SummarySound == ASSUME OnSetup, Besides, SummaryEnter \/ SummaryEsc PROVE Sound
<1>1. setup.step = "summary" /\ setup.step \in Confirming /\ Unasked /\ Went(setup)
  BY QuietKey DEF SummaryEnter, SummaryEsc, At, Confirming
<1>2. CASE SummaryEsc
  <2> DEFINE s == Retreat(setup)
  <2>1. Went(s)
    BY <1>1, GoesBackInOrder
  <2>2. CASE Become([s EXCEPT !.field = FieldCount])
    <3> HIDE DEF s
    <3>1. Went([s EXCEPT !.field = FieldCount])
      BY <2>1 DEF Went, Carried, Shape, InOrder, Fits, Edits
    <3> QED BY <1>1, <2>2, <3>1, BecomesSound
  <2>3. CASE Back(setup)
    BY <1>1, <2>3, BackSound
  <2> QED BY <1>2, <2>2, <2>3 DEF SummaryEsc
<1>3. CASE SummaryEnter
  <2> DEFINE s == Refreshed(setup, TRUE)
  <2>1. Shape(setup)
    BY <1>1 DEF Went, Carried
  <2>2. /\ Shape(s) /\ s.mode = setup.mode /\ s.step = "summary" /\ s.section = setup.section
        /\ s.fields = setup.fields /\ s.preview = setup.preview /\ s.config = setup.config
        /\ s.generated = {setup.fields}
    BY <1>1, <2>1 DEF Refreshed, Shape
  <2>3. \/ RedirectToAuth(s)
        \/ SaveAndComplete(s)
        \/ /\ ~(s.mode = "repair" \/ (s.mode = "edit" /\ s.section \in {"criteria", "llm"}))
           /\ Become(Advance(s)) \/ SaveAndPreview(s)
    BY <1>3 DEF SummaryEnter
  <2> HIDE DEF s
  <2>4. Ready(s)
    BY <1>1, <2>2 DEF Ready, Went, Carried, InOrder, Fits, Edits
  <2>5. CASE /\ ~(s.mode = "repair" \/ (s.mode = "edit" /\ s.section \in {"criteria", "llm"}))
             /\ Become(Advance(s)) \/ SaveAndPreview(s)
    <3>1. s.mode = "bootstrap"
      BY <2>2, <2>4, <2>5 DEF Ready, Went, InOrder, Fits, Edits
    <3>2. Went(Advance(s))
      <4>1. PICK x : Advance(s) = [s EXCEPT !.step = x] /\ (x = s.step \/ Fits(s, x))
        BY <2>4, AdvanceFits DEF Ready, Went
      <4>2. Fits(s, x)
        BY <2>4, <4>1 DEF Ready, Went, InOrder
      <4> QED BY <2>4, <4>1, <4>2, StepFits DEF Ready, Went
    <3> QED BY <1>1, <2>4, <2>5, <3>1, <3>2, BecomesSound, PreviewedSound
  <2> QED BY <1>1, <2>3, <2>4, <2>5, RedirectedSound, CompletedSound
<1> QED BY <1>2, <1>3

\* The prompt.
LEMMA PromptSound == ASSUME OnSetup, Besides, PromptEnter \/ PromptEsc PROVE Sound
<1>1. setup.step = "prompt_review" /\ setup.step \in Confirming /\ Unasked /\ Went(setup)
  BY QuietKey DEF PromptEnter, PromptEsc, At, Confirming
<1>2. CASE PromptEsc
  BY <1>1, <1>2, BackSound DEF PromptEsc
<1>3. CASE PromptEnter
  <2>1. Ready(setup)
    BY <1>1 DEF Ready, Went, InOrder
  <2>2. setup.mode = "bootstrap" \/ Edits(setup, {"prompt"})
    BY <1>1 DEF Went, InOrder, Fits
  <2>3. \/ RedirectToAuth(setup) \/ SaveAndComplete(setup)
        \/ setup.mode = "bootstrap" /\ SaveAndPreview(setup)
    BY <1>3, <2>2 DEF PromptEnter, Edits
  <2> QED BY <1>1, <2>1, <2>3, RedirectedSound, CompletedSound, PreviewedSound
<1> QED BY <1>2, <1>3


\* A change behind a wizard that is being edited.
LEMMA BehindSound ==
    ASSUME PreviewInv, screen = "setup", UNCHANGED <<disk, screen, setup, asked>>,
           setup.mode = "edit" \/ Besides
    PROVE  Sound
<1>1. InOrder(setup)'
  BY DEF PreviewInv, InOrder, Fits, Edits
<1>2. setup'.mode # "edit" => Undisturbed'
  BY DEF PreviewInv, Undisturbed, Besides
<1> QED BY <1>1, <1>2 DEF PreviewInv, Written, Sound

\* The preview, once it was answered.
LEMMA PreviewKeysSound == ASSUME OnSetup, Besides, PreviewEsc \/ PreviewEnter PROVE Sound
<1>1. setup.step = "preview" /\ "preview" \notin setup.busy
  BY DEF PreviewEsc, PreviewEnter, At, Answered
<1>2. asked.previews = {} /\ InOrder(setup)
  BY <1>1 DEF OnSetup, PreviewInv
<1>3. setup.mode = "bootstrap" /\ setup.generated \subseteq {setup.fields}
  BY <1>1, <1>2 DEF InOrder, Fits
<1>4. Unasked
  <2>1. asked.resumes \in Nat
    BY DEF OnSetup, WizardInv, WizardTypeOK
  <2> QED BY <1>1, <1>2, <1>3, <2>1 DEF OnSetup, PreviewInv, Unasked
<1>5. CASE PreviewEnter
  <2>1. CASE CloseWizard("notice")
    BY <1>4, <1>5, <2>1, ClosesSound DEF PreviewEnter
  <2>2. CASE UNCHANGED <<screen, setup>>
    BY <1>5, <2>2, BehindSound DEF OnSetup, PreviewEnter
  <2> QED BY <1>5, <2>1, <2>2 DEF PreviewEnter
<1>6. CASE PreviewEsc
  <2> DEFINE s == [setup EXCEPT !.preview = {}]
             r == Retreat(setup)
             t == [r EXCEPT !.preview = {}]
  <2>1. setup \in Wizards
    BY DEF OnSetup, WizardInv, WizardTypeOK
  <2>2. Become(t)
    BY <1>6 DEF PreviewEsc
  <2>3. /\ Carried(s) /\ s.step = setup.step /\ s.mode = setup.mode /\ s.section = setup.section
        /\ s.generated = setup.generated /\ s.fields = setup.fields
    <3>1. Shape(setup) /\ setup.mode \in Modes
      BY <2>1, ShapeOfWizard
    <3> QED BY <3>1 DEF Carried, Shape
  <2>4. PICK x \in {setup.step} \cup MainSteps : r = [setup EXCEPT !.step = x]
    BY RetreatGoes
  <2>5. t = [s EXCEPT !.step = x]
    BY <2>1, <2>4 DEF Wizards
  <2>6. x # "recovery"
    <3>1. PICK y : Retreat(s) = [s EXCEPT !.step = y] /\ (y = s.step \/ (Fits(s, y) /\ Link(y, s.step)))
      BY <2>3, RetreatFits
    <3>2. Plan(s) = Plan(setup)
      BY <2>1 DEF Plan, Wizards
    <3>3. Behind(s) = Behind(setup)
      BY <2>3, <3>2 DEF Behind
    <3>4. Retreat(s) = t
      BY <2>1, <3>2, <3>3 DEF Retreat, Wizards
    <3>5. t.step = x /\ [s EXCEPT !.step = y].step = y
      BY <2>3, <2>5 DEF Carried, Shape
    <3>6. x = y
      BY <3>1, <3>4, <3>5
    <3> QED BY <1>1, <2>3, <3>1, <3>6 DEF Link
  <2>7. Fits(s, x)
    BY <1>3, <2>3, <2>6 DEF Fits
  <2> HIDE DEF s, r, t
  <2>8. Went(t)
    BY <1>3, <2>3, <2>5, <2>7, StepFits
  <2> QED BY <1>4, <2>2, <2>8, BecomesSound
<1> QED BY <1>5, <1>6

\* A resume that is asked for.
LEMMA ResumeKeysSound == ASSUME OnSetup, Besides, ResumePathEnter \/ ResumePathEsc PROVE Sound
<1>1. setup.step = "resume_path" /\ "resume" \notin setup.busy
  BY DEF ResumePathEnter, ResumePathEsc, At
<1>2. Unasked /\ Elsewhere(setup)
  BY <1>1, QuietKey DEF Watched
<1>3. CASE ResumePathEsc
  <2>1. Went(SetStep(setup, "config_menu")) /\ Went(SetStep(setup, "resume_choice"))
    BY <1>2, SetElsewhere, StepsElsewhere, ElsewhereIsInOrder DEF Elsewhere
  <2>2. Become(SetStep(setup, "config_menu")) \/ Become(SetStep(setup, "resume_choice"))
    BY <1>3 DEF ResumePathEsc
  <2> QED BY <1>2, <2>1, <2>2, BecomesSound
<1>4. CASE ResumePathEnter
  <2> DEFINE t == [setup EXCEPT !.busy = setup.busy \cup {"resume"}]
  <2>1. /\ setup' = t /\ UNCHANGED <<disk, screen>>
        /\ asked' = [asked EXCEPT !.resumes = asked.resumes + 1]
    BY <1>4 DEF ResumePathEnter
  <2>2. Elsewhere(t)
    BY <1>2, ElsewhereParts
  <2>3. t.step = "resume_path" /\ "resume" \in t.busy
    BY <1>1, <1>2 DEF Elsewhere, Carried, Shape
  <2> HIDE DEF t
  <2>4. InOrder(setup') /\ setup'.preview = {} /\ setup'.mode = setup.mode
    BY <2>1, <2>2, ElsewhereIsInOrder DEF Went, Carried
  <2>5. InOrder(setup)'
    BY <2>4 DEF InOrder, Fits, Edits
  <2>6. asked'.previews = {} /\ (setup.mode = "bootstrap" => asked'.resumes = 1)
    <3>1. asked \in [resumes: 0..MaxResumes, previews: SUBSET Criteria]
      BY DEF OnSetup, WizardInv, WizardTypeOK
    <3> QED BY <1>2, <2>1, <3>1 DEF Unasked
  <2>7. setup'.mode # "edit" => Undisturbed'
    BY <2>4 DEF OnSetup, PreviewInv, Undisturbed, Besides
  <2>8. Written
    BY <2>1 DEF Written
  <2> QED BY <2>1, <2>3, <2>4, <2>5, <2>6, <2>7, <2>8 DEF PreviewInv, Sound
<1> QED BY <1>3, <1>4

\* A new wizard shows nothing and saves nothing.
LEMMA NewIsInOrder ==
    ASSUME NEW d, NEW wizardMode \in Modes, NEW section
    PROVE  LET s == NewSetup(d, wizardMode, section)
           IN  InOrder(s) /\ s.preview = {} /\ s.mode = wizardMode
<1> DEFINE config == IF d.exists THEN d.config ELSE DefaultConfig
           s == [mode |-> wizardMode, step |-> "llm_choice", section |-> section,
                 idx |-> 0, field |-> 1, useLLM |-> config.on, config |-> config,
                 fields |-> config.criteria, generated |-> {}, prompt |-> d.prompt,
                 busy |-> {}, preview |-> {}, known |-> FALSE, open |-> {},
                 return |-> FALSE, prefill |-> FALSE]
           t == SetStep(s, "llm_choice")
<1>1. /\ s.mode = wizardMode /\ s.preview = {}
      /\ DOMAIN s = {"mode", "step", "section", "idx", "field", "useLLM", "config", "fields",
                     "generated", "prompt", "busy", "preview", "known", "open", "return",
                     "prefill"}
  OBVIOUS
<1>2. NewSetup(d, wizardMode, section) = t
  BY DEF NewSetup
<1> HIDE DEF s
<1>3. PICK x \in Firsts : t = [s EXCEPT !.step = x] /\ (x = "recovery" => wizardMode = "recovery")
  <2>1. PICK x \in {"llm_choice"} \cup Firsts : t = [s EXCEPT !.step = x]
    BY SetStepGoes
  <2>2. CASE InPlan(s, "llm_choice")
    BY <2>2 DEF SetStep, Firsts
  <2>3. CASE ~InPlan(s, "llm_choice")
    <3>1. t = [s EXCEPT !.step = Head(Plan(s))] /\ Head(Plan(s)) \in Firsts
      BY <2>3, PlanSteps DEF SetStep
    <3>2. Head(Plan(s)) = "recovery" => wizardMode = "recovery"
      BY <1>1, HeadOfPlan
    <3> QED BY <3>1, <3>2
  <2> QED BY <2>2, <2>3
<1>4. t.step = x /\ t.mode = wizardMode /\ t.preview = {}
  BY <1>1, <1>3
<1> HIDE DEF t
<1>5. InOrder(t)
  BY <1>3, <1>4 DEF InOrder, Fits, Firsts
<1> QED BY <1>2, <1>4, <1>5

\* A wizard is opened.
LEMMA OpensSound ==
    ASSUME NEW d, NEW wizardMode \in Modes, NEW section,
           setup' = NewSetup(d, wizardMode, section) \/ setup' \in Settled(NewSetup(d, wizardMode, section)),
           d \in Disks, section \in Sections,
           disk' = disk, asked'.previews = {}, wizardMode = "bootstrap" => asked'.resumes = 0,
           wizardMode # "edit" => Undisturbed'
    PROVE  Sound
<1> DEFINE s == NewSetup(d, wizardMode, section)
<1>1. InOrder(s) /\ s.preview = {} /\ s.mode = wizardMode
  BY NewIsInOrder
<1>2. s \in Wizards
  BY NewIsCalm DEF Calm
<1>3. setup' = s \/ setup' \in Settled(s)
  OBVIOUS
<1> HIDE DEF s
<1>4. /\ setup'.mode = wizardMode /\ setup'.preview = {} /\ InOrder(setup')
  <2>1. CASE setup' = s
    BY <1>1, <2>1
  <2>2. CASE setup' \in Settled(s)
    <3>1. PICK k : setup' = [s EXCEPT !.idx = IF Listing(s) THEN @ ELSE 0,
                                      !.field = IF s.step = "criteria" THEN @ ELSE 1,
                                      !.known = k]
      BY <2>2 DEF Settled
    <3>2. /\ setup'.mode = s.mode /\ setup'.preview = s.preview /\ setup'.step = s.step
          /\ setup'.section = s.section /\ setup'.generated = s.generated
          /\ setup'.fields = s.fields
      BY <1>2, <3>1 DEF Wizards
    <3> QED BY <1>1, <3>2 DEF InOrder, Fits, Edits
  <2> QED BY <1>3, <2>1, <2>2
<1>5. InOrder(setup)'
  BY <1>4 DEF InOrder, Fits, Edits
<1> QED BY <1>4, <1>5 DEF PreviewInv, Written, Sound

\* A start of the program.
LEMMA BootsSound ==
    ASSUME WizardInv, Restart, Undisturbed'
    PROVE  Sound
<1>1. disk \in Disks /\ disk' = disk /\ asked'.previews = {} /\ asked'.resumes = 0
  BY DEF WizardInv, WizardTypeOK, Restart, Boot, NothingAsked
<1>2. \/ screen' = "none"
      \/ \E wizardMode \in Modes, section \in Sections :
            setup' = NewSetup(disk, wizardMode, section)
  <2>1. SectionFor(disk) \in Sections
    BY DEF SectionFor, Sections
  <2>2. "recovery" \in Modes /\ "repair" \in Modes /\ "bootstrap" \in Modes /\ "llm" \in Sections
    BY DEF Modes, Sections
  <2> QED BY <2>1, <2>2 DEF Restart, Boot
<1>3. CASE screen' = "none"
  BY <1>1, <1>3, LeavesSound
<1>4. ASSUME NEW wizardMode \in Modes, NEW section \in Sections,
             setup' = NewSetup(disk, wizardMode, section)
      PROVE  Sound
  BY <1>1, <1>4, OpensSound
<1> QED BY <1>2, <1>3, <1>4

\* The choice of a recovery.
LEMMA RecoverySound == ASSUME OnSetup, Besides, RecoveryEnter PROVE Sound
<1>1. setup.step = "recovery" /\ Unasked
  BY QuietKey DEF RecoveryEnter, At
<1>2. setup.mode = "recovery" /\ disk \in Disks /\ WizardInv
  BY <1>1 DEF OnSetup, PreviewInv, InOrder, Fits, WizardInv, WizardTypeOK
<1>3. Undisturbed'
  BY <1>2 DEF OnSetup, PreviewInv, Undisturbed, Besides
<1>4. CASE CloseWizard("notice") /\ UNCHANGED <<disk, asked>>
  BY <1>1, <1>4, ClosesSound
<1>5. CASE Become(NewSetup(disk, "repair", "llm"))
  <2>1. setup' \in Settled(NewSetup(disk, "repair", "llm")) /\ disk' = disk /\ asked'.previews = {}
    BY <1>1, <1>5 DEF Become, Unasked
  <2>2. "repair" \in Modes /\ "llm" \in Sections
    BY DEF Modes, Sections
  <2> QED BY <1>2, <1>3, <2>1, <2>2, OpensSound
<1>6. CASE Restart
  BY <1>2, <1>3, <1>6, BootsSound
<1> QED BY <1>4, <1>5, <1>6 DEF RecoveryEnter

\* The messages.  A list of models changes nothing that is shown.
LEMMA ModelsArriveSound == ASSUME OnSetup, Besides, ModelsArrive PROVE Sound
<1> DEFINE p == setup.prefill \/ (setup.mode # "edit" /\ setup.useLLM)
           s == [setup EXCEPT !.known = Listing(setup), !.prefill = p]
           i == IF Listing(s) /\ s.idx >= OptionCount(s) THEN OptionCount(s) - 1 ELSE s.idx
           t == [s EXCEPT !.idx = i]
<1>1. setup' \in Settled(t) /\ UNCHANGED <<disk, screen, asked>>
  BY DEF ModelsArrive, Clamp, Become
<1>2. setup \in Wizards
  BY DEF OnSetup, WizardInv, WizardTypeOK
<1> HIDE DEF p
<1>3. /\ Shape(s) /\ s.mode = setup.mode /\ s.preview = setup.preview /\ s.step = setup.step
      /\ s.section = setup.section /\ s.generated = setup.generated /\ s.fields = setup.fields
      /\ s.busy = setup.busy
  BY <1>2 DEF Wizards, Configs, Shape
<1> HIDE DEF s, i
<1>4. /\ Shape(t) /\ t.mode = setup.mode /\ t.preview = setup.preview /\ t.step = setup.step
      /\ t.section = setup.section /\ t.generated = setup.generated /\ t.fields = setup.fields
      /\ t.busy = setup.busy
  BY <1>3 DEF Shape
<1> HIDE DEF t
<1>5. PICK k : setup' = [t EXCEPT !.idx = IF Listing(t) THEN @ ELSE 0,
                                  !.field = IF t.step = "criteria" THEN @ ELSE 1,
                                  !.known = k]
  BY <1>1 DEF Settled
<1>6. /\ setup'.mode = setup.mode /\ setup'.preview = setup.preview /\ setup'.step = setup.step
      /\ setup'.section = setup.section /\ setup'.generated = setup.generated
      /\ setup'.fields = setup.fields /\ setup'.busy = setup.busy
  BY <1>4, <1>5 DEF Shape
<1>7. InOrder(setup)'
  BY <1>6 DEF OnSetup, PreviewInv, InOrder, Fits, Edits
<1>8. setup'.mode # "edit" => Undisturbed'
  BY <1>6 DEF OnSetup, PreviewInv, Undisturbed, Besides
<1>9. UNCHANGED <<disk, screen, asked>>
  BY <1>1
<1> QED BY <1>6, <1>7, <1>8, <1>9 DEF OnSetup, PreviewInv, Written, Sound

\* A resume.
LEMMA ResumeArrivesSound ==
    ASSUME WizardInv, PreviewInv, Besides, ResumeArrives
    PROVE  Sound
<1>1. asked \in [resumes: 0..MaxResumes, previews: SUBSET Criteria] /\ setup \in Wizards
  BY DEF WizardInv, WizardTypeOK
<1>2. /\ asked.resumes > 0 /\ asked'.resumes = asked.resumes - 1
      /\ asked'.previews = asked.previews /\ UNCHANGED <<disk, screen>>
  BY <1>1 DEF ResumeArrives
<1>3. asked.previews = {}
  BY <1>2 DEF PreviewInv
<1>4. CASE screen # "setup"
  BY <1>2, <1>3, <1>4, LeavesSound
<1>5. CASE screen = "setup"
  <2>1. setup.preview = {} /\ (setup.mode = "bootstrap" => asked'.resumes = 0)
    BY <1>1, <1>2, <1>5 DEF PreviewInv, InOrder, Fits
  <2>2. Carried(setup)
    BY <1>1, <2>1, ShapeOfWizard DEF Carried
  <2> DEFINE s == [setup EXCEPT !.busy = setup.busy \ {"resume"}]
  <2>3. Carried(s)
    BY <2>2, CarriedParts
  <2>4. Went(setup')
    <3>1. CASE setup' \in Settled(ResumeFails(setup))
      <4>1. ResumeFails(setup) = SetStep(s, "resume_path")
        BY DEF ResumeFails
      <4> HIDE DEF s
      <4>2. Went(SetStep(s, "resume_path"))
        BY <2>3, SetElsewhere, StepsElsewhere, ElsewhereIsInOrder
      <4> QED BY <3>1, <4>1, <4>2, SettledWent
    <3>2. ASSUME NEW c \in Criteria, setup' \in Settled(ResumeRead(setup, c)) PROVE Went(setup')
      <4> DEFINE u == [setup EXCEPT !.busy = @ \ {"resume"}, !.fields = c, !.generated = {c},
                                    !.prompt = "made"]
                 r == SetStep(u, "criteria")
      <4>1. ResumeRead(setup, c) = [r EXCEPT !.field = 1]
        BY DEF ResumeRead
      <4>2. Carried(u)
        BY <2>2 DEF Carried, Shape
      <4> HIDE DEF u
      <4>3. Elsewhere(r)
        BY <4>2, SetElsewhere, StepsElsewhere
      <4> HIDE DEF r
      <4>4. Went([r EXCEPT !.field = 1])
        BY <4>3, ElsewhereParts, ElsewhereIsInOrder
      <4> QED BY <3>2, <4>1, <4>4, SettledWent
    <3> QED BY <1>5, <3>1, <3>2 DEF ResumeArrives
  <2> QED BY <1>2, <1>3, <1>5, <2>1, <2>4, Lands DEF OnSetup, Written, Sound
<1> QED BY <1>4, <1>5

\* A preview: it is the one of what is on the disk.
LEMMA PreviewArrivesSound ==
    ASSUME WizardInv, PreviewInv, Besides, PreviewArrives
    PROVE  Sound
<1>1. asked \in [resumes: 0..MaxResumes, previews: SUBSET Criteria] /\ setup \in Wizards
  BY DEF WizardInv, WizardTypeOK
<1>2. asked.previews # {}
  BY DEF PreviewArrives
<1>3. /\ screen = "setup" /\ setup.mode = "bootstrap" /\ setup.step = "preview"
      /\ asked.previews = {disk.config.criteria} /\ InOrder(setup) /\ Undisturbed
      /\ asked.resumes = 0
  BY <1>1, <1>2 DEF PreviewInv
<1> DEFINE c == disk.config.criteria
           s == [setup EXCEPT !.busy = setup.busy \ {"preview"}]
<1>4. /\ asked' = [asked EXCEPT !.previews = asked.previews \ {c}]
      /\ \/ setup' = [s EXCEPT !.preview = {}]
         \/ setup' \in Settled([s EXCEPT !.preview = {c}, !.step = "preview"])
      /\ UNCHANGED <<disk, screen>>
  BY <1>3 DEF PreviewArrives
<1>5. asked'.previews = {} /\ asked'.resumes = 0
  BY <1>1, <1>3, <1>4
<1>6. /\ setup'.mode = "bootstrap" /\ setup'.step = "preview" /\ setup'.preview \in {{}, {c}}
      /\ setup'.generated = setup.generated /\ setup'.fields = setup.fields
  <2>1. CASE setup' = [s EXCEPT !.preview = {}]
    BY <1>1, <1>3, <2>1 DEF Wizards
  <2>2. CASE setup' \in Settled([s EXCEPT !.preview = {c}, !.step = "preview"])
    <3> DEFINE t == [s EXCEPT !.preview = {c}, !.step = "preview"]
    <3>1. /\ Shape(t) /\ t.mode = "bootstrap" /\ t.step = "preview" /\ t.preview = {c}
          /\ t.generated = setup.generated /\ t.fields = setup.fields
      BY <1>1, <1>3 DEF Wizards, Configs, Shape
    <3>2. setup' \in Settled(t)
      BY <2>2
    <3> HIDE DEF t
    <3>3. PICK k : setup' = [t EXCEPT !.idx = IF Listing(t) THEN @ ELSE 0,
                                      !.field = IF t.step = "criteria" THEN @ ELSE 1,
                                      !.known = k]
      BY <3>2 DEF Settled
    <3> QED BY <3>1, <3>3 DEF Shape
  <2> QED BY <1>4, <2>1, <2>2
<1>7. InOrder(setup)'
  BY <1>3, <1>6 DEF InOrder, Fits, Edits
<1>8. Undisturbed'
  BY <1>3 DEF Undisturbed, Besides
<1>9. UNCHANGED <<disk, screen>> /\ setup'.preview \in {{}, {disk.config.criteria}}
  BY <1>4, <1>6
<1> QED BY <1>3, <1>5, <1>6, <1>7, <1>8, <1>9 DEF PreviewInv, Written, Sound


\* The keys and messages of the wizard.
LEMMA WizardSound == ASSUME WizardInv, PreviewInv, Besides, WizardNext PROVE Sound
<1>1. ASSUME MenuKeys PROVE Sound
  <2>1. OnSetup
    BY <1>1 DEF OnSetup, MenuKeys, RecoveryEnter, LLMChoiceEnter, ChooseCriteria, ChooseResume,
                ChooseLLM, ToggleSource, ChoosePrompt, ConfigMenuEsc, MoveCursor, At
  <2> QED BY <1>1, <2>1, RecoverySound, QuestionSound, MenuSound, ChoosePromptSound, FieldsSound
          DEF MenuKeys
<1>2. ASSUME ModelKeys PROVE Sound
  <2>1. OnSetup
    BY <1>2 DEF OnSetup, ModelKeys, ToggleLLM, PickProvider, OpenProviderMenu, LLMMenuEsc,
                ProviderMenuEnter, ProviderMenuEsc, ProviderEnter, ProviderEsc, ModelEnter,
                ModelEsc, ModelValueEnter, ModelValueEsc, TaskMenuEnter, TaskMenuEsc,
                TaskChoiceEnter, TaskChoiceEsc, TaskValueEnter, TaskValueEsc, AuthModeEnter,
                AuthModeEsc, AuthValueEnter, AuthValueEsc, At
  <2> QED BY <1>2, <2>1, ProviderSound, ModelSound, TaskSound, AuthSound DEF ModelKeys
<1>3. ASSUME FormKeys PROVE Sound
  <2>1. OnSetup
    BY <1>3 DEF OnSetup, FormKeys, ResumeChoiceEnter, ResumeChoiceEsc, ResumePathEnter,
                ResumePathEsc, CriteriaEnter, CriteriaEsc, SummaryEnter, SummaryEsc, PromptEsc,
                PromptEnter, PreviewEsc, At
  <2> QED BY <1>3, <2>1, FieldsSound, ResumeKeysSound, SummarySound, PromptSound,
             PreviewKeysSound DEF FormKeys
<1>4. ASSUME Messages PROVE Sound
  <2>1. CASE ModelsArrive
    BY <2>1, ModelsArriveSound DEF OnSetup, ModelsArrive
  <2> QED BY <1>4, <2>1, ResumeArrivesSound, PreviewArrivesSound DEF Messages
<1> QED BY <1>1, <1>2, <1>3, <1>4 DEF WizardNext

\* What happens away from the wizard, and behind one that is being edited.
LEMMA AwaySound ==
    ASSUME PreviewInv, screen # "setup", screen' # "setup", asked' = asked,
           disk'.config = disk.config
    PROVE  Sound
BY LeavesSound DEF PreviewInv

\* A notice may interrupt nothing but an edit.
LEMMA NoticeSound ==
    ASSUME PreviewInv, screen = "setup" => setup.mode = "edit", screen' # "setup",
           UNCHANGED <<disk, asked>>
    PROVE  Sound
<1>1. asked.previews = {}
  BY DEF PreviewInv
<1> QED BY <1>1, LeavesSound

\* The keys and messages of the list.
LEMMA ListSound ==
    ASSUME WizardInv, PreviewInv, List
    PROVE  Sound
<1>1. /\ asked' = asked /\ disk'.config = disk.config
      /\ screen' \in {screen, "none", "status", "filter", "detail", "notice"}
  <2>1. CASE SaveFilters
    <3>1. disk \in Disks
      BY DEF WizardInv, WizardTypeOK
    <3>2. [disk EXCEPT !.exists = TRUE].config = disk.config
      BY <3>1 DEF Disks
    <3> QED BY <2>1, <3>2 DEF SaveFilters
  <2>2. SameScreen \/ Goes("none") \/ Goes("status") \/ Goes("filter") \/ Goes("detail")
        \/ SaveFilters
    BY DEF List, Move, Wheel, Sort, MarkViewed, Delete, JobEdited, OpenStatusMenu, StatusChosen,
           CloseOverlay, OpenFilterMenu, ToggleFilter, OpenSearch, Search, EndSearch,
           OpenDetails, NextDetails, RowEnriched
  <2> QED BY <2>1, <2>2 DEF SameScreen, Goes
<1>2. CASE screen # "setup"
  <2>1. screen' # "setup"
    BY <1>1, <1>2
  <2> QED BY <1>1, <1>2, <2>1, AwaySound
<1>3. CASE screen = "setup"
  <2>1. UNCHANGED <<disk, screen, setup, asked>>
    BY <1>3 DEF List, Move, Wheel, Sort, MarkViewed, Delete, JobEdited, OpenStatusMenu,
           StatusChosen, CloseOverlay, OpenFilterMenu, ToggleFilter, SaveFilters, OpenSearch,
           Search, EndSearch, OpenDetails, NextDetails, RowEnriched, SameScreen, OnRow, MainKeys,
           Searching
  <2>2. UNCHANGED <<tasks, lookups>>
    BY <1>3 DEF List, Move, Wheel, Sort, MarkViewed, Delete, JobEdited, OpenStatusMenu,
           StatusChosen, CloseOverlay, OpenFilterMenu, ToggleFilter, SaveFilters, OpenSearch,
           Search, EndSearch, OpenDetails, NextDetails, RowEnriched, windowVars, listVars
  <2>3. Besides
    BY <2>2 DEF List, Besides
  <2> QED BY <1>3, <2>1, <2>3, BehindSound
<1> QED BY <1>2, <1>3

\* A posting check: it ends in a notice.
LEMMA PostingsSound ==
    ASSUME WizardInv, PreviewInv, CheckPostings \/ CheckEnds
    PROVE  Sound
<1>1. CASE CheckPostings
  <2>1. screen # "setup" /\ screen' \in {screen, "notice"} /\ UNCHANGED <<disk, asked>>
    BY <1>1 DEF CheckPostings, MainKeys, SameScreen, Goes
  <2> QED BY <2>1, AwaySound
<1>2. CASE CheckEnds
  <2>1. checking /\ UNCHANGED <<disk, asked>>
    BY <1>2 DEF CheckEnds, PostingsChecked, SameScreen
  <2>2. screen = "setup" => setup.mode = "edit"
    BY <2>1 DEF PreviewInv, Undisturbed
  <2>3. CASE PostingsChecked
    BY <2>1, <2>2, <2>3, NoticeSound DEF PostingsChecked, CloseWizard
  <2>4. CASE SameScreen
    <3>1. screen # "setup" \/ screen = "setup"
      OBVIOUS
    <3> QED BY <2>2, <2>4, <3>1, AwaySound, BehindSound DEF SameScreen
  <2> QED BY <1>2, <2>3, <2>4 DEF CheckEnds
<1> QED BY <1>1, <1>2

\* The keys and answers of the health windows.
LEMMA HealthSound ==
    ASSUME WizardInv, PreviewInv, HealthOfCompanies
    PROVE  Sound
<1>1. CASE CheckRow \/ RefreshWindow \/ CloseWindow \/ TogglePanel \/ Minimize
  <2>1. screen # "setup"
    BY <1>1 DEF CheckRow, OnRow, MainKeys, RefreshWindow, InWindow, CloseWindow, TogglePanel,
                Minimize
  <2>2. UNCHANGED <<disk, asked>>
    BY <1>1 DEF CheckRow, RefreshWindow, CloseWindow, TogglePanel, Minimize, SameScreen, Goes
  <2>3. screen' \in {screen, "none", "health"}
    <3>1. ASSUME NEW job, NEW popup, StartTask(job, popup) PROVE screen' \in {screen, "none"}
      BY <3>1 DEF StartTask
    <3>2. CASE CheckRow
      BY <3>1, <3>2 DEF CheckRow, Show
    <3>3. CASE RefreshWindow
      BY <3>1, <3>3 DEF RefreshWindow, Await
    <3>4. CASE CloseWindow \/ TogglePanel \/ Minimize
      BY <3>4 DEF CloseWindow, TogglePanel, Minimize, SameScreen, Goes
    <3> QED BY <1>1, <3>2, <3>3, <3>4
  <2> QED BY <2>1, <2>2, <2>3, AwaySound
<1>2. CASE PanelMoved
  <2>1. SameScreen /\ Besides
    BY <1>2 DEF PanelMoved, HealthOfCompanies, Besides
  <2>2. CASE screen = "setup"
    BY <2>1, <2>2, BehindSound DEF SameScreen
  <2>3. CASE screen # "setup"
    BY <2>1, <2>3, AwaySound DEF SameScreen
  <2> QED BY <2>2, <2>3
<1>3. CASE TaskAnswers \/ LookupAnswers
  <2>1. DOMAIN tasks # {} \/ lookups # {}
    BY <1>3 DEF TaskAnswers, LookupAnswers
  <2>2. screen = "setup" => setup.mode = "edit"
    BY <2>1 DEF PreviewInv, Undisturbed
  <2>3. Remembered \/ \E company, score : Shown(company, score)
    BY <1>3 DEF TaskAnswers, LookupAnswers
  <2>4. CASE \E company, score : Shown(company, score)
    BY <2>2, <2>4, NoticeSound DEF Shown, CloseWizard
  <2>5. CASE Remembered
    <3>1. UNCHANGED <<disk, setup, asked>> /\ (screen = "setup" => screen' = screen)
          /\ screen' \in {screen, "none"}
      BY <2>5 DEF Remembered
    <3>2. CASE screen = "setup"
      BY <2>2, <3>1, <3>2, BehindSound
    <3>3. CASE screen # "setup"
      BY <3>1, <3>3, AwaySound
    <3> QED BY <3>2, <3>3
  <2> QED BY <2>3, <2>4, <2>5
<1> QED BY <1>1, <1>2, <1>3 DEF HealthOfCompanies

\* The command line.
LEMMA CommandsSound == ASSUME PreviewInv, Commands PROVE Sound
<1>1. screen # "setup"
  BY DEF Commands, OpenCommand, Type, Tab, Space, LeaveCommand, NothingStarted, HealthCommand,
         StartFetchCommand, FetchCommand, Commanding, MainKeys
<1>2. UNCHANGED <<disk, asked>> /\ screen' \in {screen, "health"}
  BY DEF Commands, OpenCommand, Type, Tab, Space, LeaveCommand, NothingStarted, HealthCommand,
         StartFetchCommand, FetchCommand, LineOnly, SameScreen, Await
<1> QED BY <1>1, <1>2, AwaySound

\* Every step keeps the invariant and writes what it may.
LEMMA PreviewStep == ASSUME WizardInv, PreviewInv, Next PROVE Sound
<1>1. CASE Wizard
  <2>1. Besides
    BY <1>1 DEF Wizard, listVars, Besides
  <2> QED BY <1>1, <2>1, WizardSound DEF Wizard
<1>2. CASE OpenEdit
  <2>1. /\ screen # "setup" /\ setup' = NewSetup(disk, "edit", "none") /\ UNCHANGED <<disk, asked>>
    BY <1>2 DEF OpenEdit, MainKeys
  <2>2. asked'.previews = {}
    BY <2>1 DEF PreviewInv
  <2>3. "edit" \in Modes /\ "none" \in Sections /\ disk \in Disks
    BY DEF Modes, Sections, WizardInv, WizardTypeOK
  <2> QED BY <2>1, <2>2, <2>3, OpensSound
<1>3. CASE StartFetch
  <2>1. screen # "setup" /\ UNCHANGED <<disk, screen, asked>>
    BY <1>3 DEF StartFetch, MainKeys, wizard
  <2> QED BY <2>1, AwaySound
<1>4. CASE FetchEnds
  <2>1. screen = "setup" => setup.mode = "edit"
    BY <1>4 DEF FetchEnds, PreviewInv, Undisturbed
  <2> QED BY <1>4, <2>1, NoticeSound DEF FetchEnds, Notice, CloseWizard
<1>5. CASE AcceptReview \/ DismissNotice
  <2>1. screen # "setup" /\ screen' \in {"none", "notice"} /\ UNCHANGED <<disk, asked>>
    BY <1>5 DEF AcceptReview, DismissNotice, Goes
  <2> QED BY <2>1, AwaySound
<1>6. CASE Reboot
  <2>1. DOMAIN << >> = {}
    OBVIOUS
  <2>2. Undisturbed'
    BY <1>6, <2>1 DEF Reboot, Undisturbed
  <2> QED BY <1>6, <2>2, BootsSound DEF Reboot
<1>7. CASE AcceptPreview
  <2>1. OnSetup /\ Besides /\ PreviewEnter
    BY <1>7 DEF AcceptPreview, PreviewEnter, At, OnSetup, Besides
  <2> QED BY <2>1, PreviewKeysSound
<1> QED BY <1>1, <1>2, <1>3, <1>4, <1>5, <1>6, <1>7, ListSound, PostingsSound, HealthSound,
           CommandsSound DEF Next

\* The program starts within it.
LEMMA PreviewStart == ASSUME Init PROVE PreviewInv
<1>1. asked.previews = {} /\ asked.resumes = 0
  BY DEF Init, WizardInit, NothingAsked
<1>2. Undisturbed
  <2>1. DOMAIN << >> = {}
    OBVIOUS
  <2> QED BY <2>1 DEF Init, Quiet, Undisturbed
<1>3. screen = "setup" => InOrder(setup) /\ setup.preview = {}
  <2>1. "bootstrap" \in Modes
    BY DEF Modes
  <2>2. screen = "setup" => setup = NewSetup(disk, "bootstrap", "criteria")
    BY DEF Init, WizardInit
  <2> QED BY <2>1, <2>2, NewIsInOrder
<1> QED BY <1>1, <1>2, <1>3 DEF PreviewInv

\* The preview that is shown and accepted is the one of the criteria on the disk; the
\* summary and the prompt save the criteria of the form, and any other save leaves them
\* or puts back those of the configuration that was opened.
THEOREM WizardSavesWhatItShowsTheorem == FairSpec => WizardSavesWhatItShows
<1>1. Init => PreviewInv
  BY PreviewStart
<1>2. WizardInv /\ PreviewInv /\ [Next]_vars =>
         PreviewInv' /\ [disk'.config.criteria # disk.config.criteria =>
             disk'.config.criteria = IF setup.step \in Confirming THEN setup.fields
                                     ELSE setup.config.criteria]_vars
  <2>1. ASSUME WizardInv, PreviewInv, Next
        PROVE  PreviewInv' /\ (disk'.config.criteria # disk.config.criteria =>
                   disk'.config.criteria = IF setup.step \in Confirming THEN setup.fields
                                           ELSE setup.config.criteria)
    BY <2>1, PreviewStep DEF Sound, Written
  <2>2. ASSUME PreviewInv, UNCHANGED vars PROVE PreviewInv'
    <3>1. UNCHANGED <<disk, screen, setup, asked>> /\ Besides
      BY <2>2 DEF vars, Besides
    <3>2. screen # "setup" \/ screen = "setup"
      OBVIOUS
    <3> QED BY <2>2, <3>1, <3>2, BehindSound, AwaySound DEF Sound
  <2> QED BY <2>1, <2>2
<1>3. PreviewInv => (screen = "setup" /\ setup.preview # {} => setup.preview = {disk.config.criteria})
  BY DEF PreviewInv
<1> QED BY <1>1, <1>2, <1>3, WizardInvariance, PTL DEF FairSpec, WizardSavesWhatItShows
=============================================================================
