---------------------------- MODULE FetchProofs ----------------------------
(***************************************************************************)
(* Proofs about a fetch, for any sources, listings, configurations and     *)
(* limits.                                                                 *)
(***************************************************************************)
EXTENDS Fetch, Induction, TLAPS

-----------------------------------------------------------------------------
(* Types.                                                                  *)

\* Of a running filter only the jobs it began with and asks about matter to the rest
\* of a fetch.
FilterShape ==
    /\ DOMAIN filter = {"before", "works", "asked", "open", "kept", "against"}
    /\ filter = [n \in DOMAIN filter |-> filter[n]]
    /\ filter.before \subseteq Listings
    /\ filter.asked \subseteq Listings

\* The types, with the shape of the batches of the filter.
FetchTypes == SiteTypeOK /\ FlowTypeOK /\ FilterShape

\* The lists of a result.
ResultLists == [found: SUBSET Listings, kept: SUBSET Listings, failing: SUBSET Listings,
                other: SUBSET Listings, repeated: SUBSET Listings, text: [Listings -> Texts]]

\* Lists that grow by listings stay lists of listings.
LEMMA AddedTypes ==
    ASSUME results \in ResultLists, NEW S, NEW F, NEW O, NEW R,
           S \subseteq Listings, F \subseteq Listings, O \subseteq Listings,
           R \subseteq Listings, Added(S, F, O, R)
    PROVE  results' \in ResultLists
BY DEF Added, ResultLists

\* What a page reports are listings, if what it showed are.
LEMMA ReportTypes ==
    ASSUME results \in ResultLists, NEW S, NEW F, NEW O, NEW R,
           S \subseteq Listings, F \subseteq Listings, O \subseteq Listings,
           R \subseteq Listings, Report(S, F, O, R)
    PROVE  results' \in ResultLists
<1>1. PICK invalid \in SUBSET S :
         Added({l \in S \ invalid : KeyOf[l] \notin run.snapshot}, F,
               O \cup (S \ {l \in S \ invalid : KeyOf[l] \notin run.snapshot}), R)
  BY DEF Report
<1> QED
  BY <1>1, AddedTypes

\* Rows that are written are rows.
LEMMA UpsertedTypes ==
    ASSUME NEW c \in Caches, NEW S \in SUBSET Listings, NEW text \in [Listings -> Texts],
           NEW d \in Upserted(c, S, text)
    PROVE  d \in Caches /\ d.rejected = c.rejected /\ d.judged = c.judged
<1>1. PICK f \in [KeysOf(S) -> Texts] : d = [c EXCEPT !.rows = Overwritten(@, f)]
  BY DEF Upserted
<1>2. PICK K \in SUBSET Keys : c.rows \in [K -> Texts]
  BY DEF Caches
<1>3. KeysOf(S) \subseteq Keys
  BY DEF KeysOf, Keys
<1>4. Overwritten(c.rows, f) \in [KeysOf(S) \cup K -> Texts]
  BY <1>1, <1>2 DEF Overwritten
<1> QED
  BY <1>1, <1>2, <1>3, <1>4 DEF Caches

\* What a write of rows leaves of a cache.
Like(c) == {d \in Caches : d.rejected = c.rejected /\ d.judged = c.judged}

\* A write of rows that may fail, or that is made in part, leaves a cache alike.
LEMMA FiledTypes ==
    ASSUME NEW c, NEW D, D \subseteq Like(c), NEW S \in SUBSET Listings,
           NEW text \in [Listings -> Texts]
    PROVE  Filed(D, S, text) \subseteq Like(c) /\ FiledInPart(D, S, text) \subseteq Like(c)
<1>1. ASSUME NEW d \in D, NEW F \in SUBSET S, NEW e \in Upserted(d, F, text)
      PROVE  e \in Like(c)
  BY <1>1, UpsertedTypes DEF Like
<1>2. Filed(D, S, text) \subseteq Like(c)
  BY <1>1 DEF Filed
<1>3. FiledInPart(D, S, text) \subseteq Like(c)
  BY <1>1 DEF FiledInPart
<1> QED
  BY <1>2, <1>3

\* The caches that reads, writes and deletions may leave are caches; none of them makes
\* a rejection up.
LEMMA SeenTypes ==
    ASSUME NEW c \in Caches, NEW S \in SUBSET Listings, NEW F \in SUBSET Listings,
           NEW T \in SUBSET Listings, NEW text \in [Listings -> Texts],
           NEW d \in Seen(c, S, F, T, text)
    PROVE  d \in Caches /\ d.rejected = c.rejected /\ d.judged = c.judged
<1> DEFINE first == Filed({c}, S, text)
<1>1. first \subseteq Like(c)
  BY FiledTypes DEF Like
<1> HIDE DEF first
<1>2. Filed(FiledInPart(first, F, Description), T, text) \subseteq Like(c)
  BY <1>1, FiledTypes, CandidateCacheAssumption
<1>3. FiledInPart(Filed(first, T, text), F, Description) \subseteq Like(c)
  BY <1>1, FiledTypes, CandidateCacheAssumption
<1> QED
  BY <1>2, <1>3 DEF Seen, Like, first

\* Types of what is written to the cache.
LEMMA StoredTypes ==
    ASSUME NEW c \in Caches, NEW new \in Caches, NEW S \in SUBSET Listings,
           NEW R \in SUBSET Listings, NEW text \in [Listings -> Texts],
           NEW d \in Stored(c, new, S, R, text)
    PROVE  /\ d \in Caches
           /\ d.rejected \in {c.rejected, new.rejected}
<1>1. CASE d = c
  BY <1>1
<1>2. CASE d # c
  <2>1. PICK e \in Upserted(c, S, text) :
          \E w \in Upserted(e, R, text) : d \in {w, [new EXCEPT !.rows = w.rows]}
    BY <1>2 DEF Stored
  <2>2. PICK w \in Upserted(e, R, text) : d \in {w, [new EXCEPT !.rows = w.rows]}
    BY <2>1
  <2>3. e \in Caches /\ e.rejected = c.rejected
    BY UpsertedTypes
  <2>4. w \in Caches /\ w.rejected = c.rejected
    BY <2>2, <2>3, UpsertedTypes
  <2>5. [new EXCEPT !.rows = w.rows] \in Caches /\ [new EXCEPT !.rows = w.rows].rejected = new.rejected
    BY <2>4 DEF Caches
  <2> QED
    BY <2>2, <2>4, <2>5
<1> QED
  BY <1>1, <1>2

\* Types after rows were refreshed.
LEMMA RefreshedTypes ==
    ASSUME NEW c \in Caches, NEW k \in Keys, NEW t \in Texts, NEW d \in Refreshed(c, k, t)
    PROVE  d \in Caches /\ d.rejected = c.rejected
<1>1. PICK K \in SUBSET Keys : c.rows \in [K -> Texts]
  BY DEF Caches
<1>2. Overwritten(c.rows, [key \in {k} |-> t]) \in [{k} \cup K -> Texts]
  BY <1>1 DEF Overwritten
<1> QED
  BY <1>1, <1>2 DEF Refreshed, Caches

\* Types after the pruning.
LEMMA PrunedTypes ==
    ASSUME NEW c \in Caches, NEW d \in Pruned(c)
    PROVE  d \in Caches /\ d.rejected \subseteq c.rejected
<1>1. PICK K \in SUBSET Keys : c.rows \in [K -> Texts]
  BY DEF Caches
<1> DEFINE Kept(gone) == [c EXCEPT !.rows = Restrict(@, DOMAIN @ \ gone)]
           Without(old, gone) == {x \in old : x[1] \notin gone}
<1>2. PICK gone \in SUBSET DOMAIN c.rows :
         d \in {Kept(gone), [Kept(gone) EXCEPT !.rejected = Without(@, gone),
                                               !.judged = Without(@, gone)]}
  BY DEF Pruned
<1>3. Restrict(c.rows, DOMAIN c.rows \ gone) \in [K \ gone -> Texts]
  BY <1>1 DEF Restrict
<1>4. Kept(gone) \in Caches /\ Kept(gone).rejected = c.rejected
  BY <1>1, <1>3 DEF Caches
<1> QED
  BY <1>2, <1>4 DEF Caches

-----------------------------------------------------------------------------
(* Types of the searches.                                                  *)

\* The searches as they are set up keep their types.
LEMMA ResetTypes ==
    ASSUME NEW T, NEW b \in {"none", "open", "closed"}, SitesReset(T, b)
    PROVE  /\ tasks' \in [Tasks -> {"off", "todo", "listing", "profiles", "details",
                                    "waiting", "probing", "done"}]
           /\ used' \in [Sites -> Nat]
           /\ blocked' \subseteq Hosts
           /\ browser' \in {"none", "open", "closed"}
           /\ need' \in [Tasks -> SUBSET Profiles]
           /\ profiles' \in [Profiles -> [state: {"none", "waiting", "fetching", "found", "failed"},
                                          by: Tasks \cup {"none"}]]
           /\ barred' \in BOOLEAN
BY DEF SitesReset, NoEntry

\* A task takes a number of candidates.
LEMMA TakenTypes ==
    ASSUME used \in [Sites -> Nat], NEW t \in Tasks, NEW S \in SUBSET Listings, NEW K,
           Taken(t, S, K)
    PROVE  /\ K \subseteq S
           /\ used' \in [Sites -> Nat]
<1>1. IsFiniteSet(K) /\ K \subseteq S
  BY FS_Subset, CandidateCacheAssumption DEF Taken
<1>2. Cardinality(K) \in Nat
  BY <1>1, FS_CardinalityType
<1> QED
  BY <1>1, <1>2 DEF Taken, Sites

\* What a probe reports of the candidates it read, when those of known were skipped and
\* those of R passed over.
Probed(read, nameless, known, R) ==
    Report(Fitting(read \ nameless), read \ (nameless \cup Fitting(read \ nameless)),
           known \cup nameless, R)

\* Where listings lead to are listings.
LEMMA ArrivedTypes ==
    ASSUME NEW S, S \subseteq Listings, NEW moved
    PROVE  Arrived(S, moved) \subseteq Listings
BY SiteSearchAssumption DEF Arrived

\* Every step of the searches keeps the types.
LEMMA SiteStepTypes ==
    ASSUME SiteTypeOK, SiteStep
    PROVE  SiteTypeOK'
<1> USE DEF SiteTypeOK, Go
<1>1. ASSUME NEW t \in Tasks, StartTask(t)
      PROVE  SiteTypeOK'
  BY <1>1 DEF StartTask
<1>2. ASSUME NEW t \in Tasks, PageFails(t)
      PROVE  SiteTypeOK'
  BY <1>2 DEF PageFails
<1>3. ASSUME NEW t \in Tasks, GetBrowser(t)
      PROVE  SiteTypeOK'
  BY <1>3 DEF GetBrowser
<1>4. ASSUME NEW t \in Tasks, GiveUp(t)
      PROVE  SiteTypeOK'
  BY <1>4 DEF GiveUp
<1>5. ASSUME NEW t \in Tasks, ProbeIsBlocked(t)
      PROVE  SiteTypeOK'
  BY <1>5 DEF ProbeIsBlocked, Hosts
<1>6. ASSUME NEW t \in Tasks, ProfilesDone(t)
      PROVE  SiteTypeOK'
  BY <1>6 DEF ProfilesDone
<1>7. ASSUME NEW t \in Tasks, NEW S \in SUBSET Posted[t], NEW K \in SUBSET S, ReadCards(t, S, K)
      PROVE  SiteTypeOK'
  <2>1. S \subseteq Listings /\ K \subseteq Listings
    BY SiteSearchAssumption
  <2> DEFINE known == Known(K)
             fit == Fitting(K \ known)
  <2>2. known \subseteq Listings /\ fit \subseteq Listings
    BY <2>1 DEF Known, KnownRejects, Fitting
  <2>3. results' \in ResultLists
    <3>1. Report(fit, K \ (known \cup fit), known \cup (S \ K), {})
      BY <1>7 DEF ReadCards
    <3> QED
      BY <2>1, <2>2, <3>1, ReportTypes DEF ResultLists
  <2>4. used' \in [Sites -> Nat]
    BY <1>7, <2>1, TakenTypes DEF ReadCards
  <2> DEFINE wanted == {ProfileOf[l] : l \in {l \in fit : KeyOf[l] \notin run.snapshot}}
  <2>5. wanted \in SUBSET Profiles
    <3> DEFINE free == {l \in fit : KeyOf[l] \notin run.snapshot}
    <3>1. free \subseteq Listings
      BY <2>2
    <3> HIDE DEF free
    <3>2. {ProfileOf[l] : l \in free} \in SUBSET Profiles
      BY <3>1, SiteSearchAssumption
    <3> QED
      BY <3>2 DEF free
  <2>6. need' = [need EXCEPT ![t] = wanted]
    BY <1>7 DEF ReadCards
  <2>7. need' \in [Tasks -> SUBSET Profiles]
    <3> HIDE DEF wanted
    <3> QED
      BY <2>5, <2>6
  <2> QED
    BY <1>7, <2>3, <2>4, <2>7 DEF ReadCards, ResultLists
<1>8. ASSUME NEW t \in Tasks, NEW S \in SUBSET Posted[t], NEW K \in SUBSET S, NEW R \in SUBSET K,
             ReadLinks(t, S, K, R)
      PROVE  SiteTypeOK'
  <2>1. S \subseteq Listings /\ K \subseteq Listings
    BY SiteSearchAssumption
  <2>2. Known(K) \subseteq Listings /\ Fitting(R) \subseteq Listings /\ R \subseteq Listings
    BY <2>1 DEF Known, KnownRejects, Fitting
  <2>3. results' \in ResultLists
    <3>1. Report(Fitting(R), R \ Fitting(R), Known(K), {})
      BY <1>8 DEF ReadLinks
    <3> QED
      BY <2>1, <2>2, <3>1, ReportTypes DEF ResultLists
  <2>4. used' \in [Sites -> Nat]
    BY <1>8, <2>1, TakenTypes DEF ReadLinks
  <2> QED
    BY <1>8, <2>3, <2>4 DEF ReadLinks, ResultLists
<1>9. ASSUME NEW t \in Tasks, NEW S \in SUBSET Posted[t], NEW K \in SUBSET S, NEW R \in SUBSET K,
             Probe(t, S, K, R)
      PROVE  SiteTypeOK'
  <2>1. S \subseteq Listings /\ K \subseteq Listings /\ R \subseteq Listings
    BY SiteSearchAssumption
  <2>2. Known(K \ R) \subseteq Listings
    BY <2>1 DEF Known, KnownRejects
  <2>3. results' \in ResultLists
    <3>1. PICK moved \in SUBSET ((K \ R) \ Known(K \ R)) :
             \E nameless \in SUBSET Arrived((K \ R) \ Known(K \ R), moved) :
                Probed(Arrived((K \ R) \ Known(K \ R), moved), nameless, Known(K \ R), R)
      BY <1>9 DEF Probe, Probed
    <3>2. Arrived((K \ R) \ Known(K \ R), moved) \subseteq Listings
      BY <2>1, ArrivedTypes
    <3>3. PICK read \in SUBSET Listings, nameless \in SUBSET Listings,
               known \in SUBSET Listings :
             Probed(read, nameless, known, R)
      BY <2>2, <3>1, <3>2
    <3>4. PICK A \in SUBSET Listings, B \in SUBSET Listings, C \in SUBSET Listings :
             Report(A, B, C, R)
      BY <3>3 DEF Probed, Fitting
    <3> QED
      BY <2>1, <3>4, ReportTypes DEF ResultLists
  <2>4. used' \in [Sites -> Nat]
    BY <1>9, <2>1, TakenTypes DEF Probe
  <2> QED
    BY <1>9, <2>3, <2>4 DEF Probe, ResultLists
<1>10. ASSUME NEW t \in Tasks, NEW p \in Profiles, AskProfile(t, p)
       PROVE  SiteTypeOK'
  BY <1>10 DEF AskProfile
<1>11. ASSUME NEW t \in Tasks, NEW p \in Profiles, ShareProfile(t, p)
       PROVE  SiteTypeOK'
  BY <1>11 DEF ShareProfile
<1>12. ASSUME NEW p \in Profiles, ProfileSlot(p)
       PROVE  SiteTypeOK'
  <2>1. profiles[p] \in [state: {"none", "waiting", "fetching", "found", "failed"},
                         by: Tasks \cup {"none"}]
    OBVIOUS
  <2>2. PICK state \in {"fetching", "failed"} : Entry(p, state)
    BY <1>12 DEF ProfileSlot, Answered
  <2>3. profiles' \in [Profiles -> [state: {"none", "waiting", "fetching", "found", "failed"},
                                    by: Tasks \cup {"none"}]]
    BY <2>1, <2>2 DEF Entry
  <2>4. need' \in [Tasks -> SUBSET Profiles]
    BY <1>12 DEF ProfileSlot, Answered
  <2> QED
    BY <1>12, <2>3, <2>4 DEF ProfileSlot
<1>13. ASSUME NEW p \in Profiles, ProfileAnswers(p)
       PROVE  SiteTypeOK'
  <2>1. PICK state \in {"found", "failed"} : Answered(p, state)
    BY <1>13 DEF ProfileAnswers
  <2>2. profiles[p] \in [state: {"none", "waiting", "fetching", "found", "failed"},
                         by: Tasks \cup {"none"}]
    OBVIOUS
  <2>3. profiles' \in [Profiles -> [state: {"none", "waiting", "fetching", "found", "failed"},
                                    by: Tasks \cup {"none"}]]
    BY <2>1, <2>2 DEF Answered, Entry
  <2>4. need' \in [Tasks -> SUBSET Profiles]
    BY <2>1 DEF Answered
  <2>5. barred' \in BOOLEAN
    BY <1>13 DEF ProfileAnswers
  <2> QED
    BY <1>13, <2>3, <2>4, <2>5 DEF ProfileAnswers
<1> QED
  BY <1>1, <1>2, <1>3, <1>4, <1>5, <1>6, <1>7, <1>8, <1>9, <1>10, <1>11, <1>12, <1>13
     DEF SiteStep, TaskStep

-----------------------------------------------------------------------------
(* Types of a fetch.                                                       *)

\* What is written of decisions are decisions.
LEMMA DecisionTypes ==
    ASSUME NEW c \in Caches, NEW s \in Searches, NEW A \in SUBSET Listings,
           NEW F \in SUBSET Listings, NEW O \in SUBSET Listings
    PROVE  Recorded(c, s, A, F, O) \in Caches /\ Judged(c, s, A, F) \in Caches
<1> USE DEF Caches, Decided, KeysOf, Keys
<1>1. Recorded(c, s, A, F, O) \in Caches
  BY DEF Recorded, DeterministicReason
<1>2. Judged(c, s, A, F) \in Caches
  BY DEF Judged
<1> QED
  BY <1>1, <1>2

\* Descriptions that are filled from the cache are descriptions.
LEMMA HydratedTypes ==
    ASSUME NEW c \in Caches, NEW S, NEW text \in [Listings -> Texts]
    PROVE  Hydrated(c, S, text) \in [Listings -> Texts]
<1>1. PICK K \in SUBSET Keys : c.rows \in [K -> Texts]
  BY DEF Caches
<1> QED
  BY <1>1 DEF Hydrated, HasRow

\* A step of the filter leaves the jobs it began with and asks about.
LEMMA FilterStepShape ==
    ASSUME FilterShape, FilterStep
    PROVE  /\ FilterShape'
           /\ filter'.before = filter.before
           /\ filter'.asked = filter.asked
<1>1. ASSUME NEW reply
      PROVE  /\ DOMAIN Applied(reply) = DOMAIN filter
             /\ Applied(reply) = [n \in DOMAIN filter |-> Applied(reply)[n]]
             /\ Applied(reply).before = filter.before
             /\ Applied(reply).asked = filter.asked
  BY DEF Applied, FilterShape
<1>2. ASSUME NEW reply, NEW batch
      PROVE  LET f == Again(Applied(reply), batch)
             IN  /\ DOMAIN f = DOMAIN filter
                 /\ f = [n \in DOMAIN filter |-> f[n]]
                 /\ f.before = filter.before
                 /\ f.asked = filter.asked
  BY <1>1 DEF Again, FilterShape
<1>3. CASE \E answer \in {"match", "reject", "error"} : AskOne(answer)
  BY <1>1, <1>3 DEF AskOne, FilterShape
<1>4. CASE \E reply \in Replies(Head(filter.open)) : AskBatch(reply)
  BY <1>1, <1>2, <1>4 DEF AskBatch, FilterShape
<1> QED
  BY <1>3, <1>4 DEF FilterStep

\* No filter runs.
LEMMA NoFilterShape == filter' = NoFilterRuns => FilterShape'
BY DEF NoFilterRuns, FilterShape

\* A filter that begins asks about jobs it began with.
LEMMA BeginShape ==
    ASSUME NEW S \in SUBSET Listings, NEW T \in SUBSET S, NEW order \in SetToSeqs(T),
           NEW works, filter' = FilterOf(S, order, works)
    PROVE  FilterShape' /\ filter'.before = S
<1>1. Range(order) \subseteq T
  BY DEF SetToSeqs, Range
<1> QED
  BY <1>1 DEF FilterOf, NoFilterRuns, FilterShape

\* The end of the fetch keeps the types.
LEMMA FinalizeTypes ==
    ASSUME FetchTypes, NEW strangers \in SUBSET results.kept, NEW D, NEW E \in SUBSET D,
           Finalize(strangers, D, E)
    PROVE  FetchTypes'
<1> USE DEF FetchTypes
<1> DEFINE text == IF run.cancelled THEN results.text
                   ELSE Hydrated(cache, results.kept, results.text)
           own == results.kept \ strangers
           fresh == own \ Known(own)
           filtered == results.failing \cup results.other
           other == results.other \cup strangers \cup Known(own)
           Decisions(c) == Recorded(c, run.search, fresh, results.failing, other)
<1>1. results \in ResultLists /\ cache \in Caches /\ run.search \in Searches
  BY DEF SiteTypeOK, ResultLists
<1>2. /\ text \in [Listings -> Texts]
      /\ own \in SUBSET Listings
      /\ fresh \in SUBSET Listings
      /\ filtered \in SUBSET Listings
      /\ strangers \in SUBSET Listings
      /\ other \in SUBSET Listings
      /\ results.failing \in SUBSET Listings
  BY <1>1, HydratedTypes DEF ResultLists, Known, KnownRejects
<1>3. cache' \in Caches
  <2>1. CASE run.cancelled
    BY <1>1, <2>1 DEF Finalize
  <2>2. CASE ~run.cancelled
    <3>1. PICK c \in Seen(cache, own, filtered, strangers, text) :
             cache' \in Stored(c, Decisions(c), fresh, results.failing, text)
      BY <2>2 DEF Finalize
    <3>2. c \in Caches
      BY <1>1, <1>2, <3>1, SeenTypes
    <3>3. Decisions(c) \in Caches
      BY <1>1, <1>2, <3>2, DecisionTypes
    <3> QED
      BY <1>2, <3>1, <3>2, <3>3, StoredTypes
  <2> QED
    BY <2>1, <2>2
<1>4. E \subseteq Listings
  BY <1>2 DEF Finalize, Deduped, Unsaved
<1>5. Keep(E, {}, text)
  BY DEF Finalize
<1>6. results' \in ResultLists
  BY <1>1, <1>2, <1>4, <1>5 DEF Keep, ResultLists
<1>7. SitesReset({}, CloseBrowser) /\ UNCHANGED <<run, plan, runs, feeds, saved, filter>> /\ phase' = "filter"
  BY DEF Finalize
<1>8. CloseBrowser \in {"none", "open", "closed"}
  BY DEF SiteTypeOK, CloseBrowser
<1>9. SiteTypeOK'
  BY <1>3, <1>6, <1>7, <1>8, ResetTypes DEF SiteTypeOK, ResultLists
<1>10. FlowTypeOK' /\ FilterShape'
  BY <1>7 DEF FlowTypeOK, FilterShape
<1> QED
  BY <1>9, <1>10

\* What is offered keeps the types.
LEMMA OfferedTypes ==
    ASSUME FetchTypes, NEW S \in SUBSET Listings, NEW O \in SUBSET Listings, Offered(S, O)
    PROVE  /\ results' \in ResultLists
           /\ run' \in [search: Searches, company: BOOLEAN, snapshot: SUBSET Keys,
                         cancelled: BOOLEAN]
           /\ phase' \in {"idle", "offered"}
<1> USE DEF FetchTypes, SiteTypeOK, ResultLists
<1>1. CASE phase' = "idle" /\ results' = NoResults /\ run' = NoRun
  BY <1>1, CandidateCacheAssumption DEF NoResults, NoRun, Searches
<1>2. CASE phase' = "offered" /\ Keep(RemovedExisting(S), O, results.text) /\ UNCHANGED run
  BY <1>2 DEF Keep, RemovedExisting, Unsaved
<1> QED
  BY <1>1, <1>2 DEF Offered

\* A step of the fetch keeps the types.
LEMMA FetchStepTypes ==
    ASSUME FetchTypes, FetchStep
    PROVE  FetchTypes'
<1> USE DEF FetchTypes
<1>1. ASSUME NEW S \in SUBSET Posted["llm"], NEW invalid \in SUBSET S, AskModel(S, invalid)
      PROVE  FetchTypes'
  <2>1. S \subseteq Listings
    BY FetchAssumption DEF Asks
  <2>2. results' \in ResultLists
    BY <1>1, <2>1, AddedTypes DEF AskModel, SiteTypeOK, ResultLists
  <2> QED
    BY <1>1, <2>2 DEF AskModel, SiteTypeOK, FlowTypeOK, FilterShape, ResultLists, siteVars
<1>2. ASSUME NEW S \in SUBSET Posted["web"], NEW invalid \in SUBSET S, AskModelWeb(S, invalid)
      PROVE  FetchTypes'
  <2>1. S \subseteq Listings /\ Fitting(S) \subseteq S
    BY FetchAssumption DEF Asks, Fitting
  <2>2. results' \in ResultLists
    BY <1>2, <2>1, AddedTypes DEF AskModelWeb, SiteTypeOK, ResultLists
  <2> QED
    BY <1>2, <2>2 DEF AskModelWeb, SiteTypeOK, FlowTypeOK, FilterShape, ResultLists, siteVars,
                      SourcesOrFilter
<1>3. ASSUME NEW f \in feeds, NEW S \in SUBSET Posted[f], NEW invalid \in SUBSET S,
             ReadFeed(f, S, invalid)
      PROVE  FetchTypes'
  <2>1. S \subseteq Listings /\ Fitting(S) \subseteq S
    BY FetchAssumption DEF FlowTypeOK, Fitting
  <2>2. results' \in ResultLists
    BY <1>3, <2>1, AddedTypes DEF ReadFeed, SiteTypeOK, ResultLists
  <2> QED
    BY <1>3, <2>2 DEF ReadFeed, SiteTypeOK, FlowTypeOK, FilterShape, ResultLists, siteVars
<1>4. CASE Search
  BY <1>4, SiteStepTypes DEF Search, FlowTypeOK, FilterShape
<1>5. ASSUME NEW strangers \in SUBSET results.kept, NEW D \in SUBSET results.kept,
             NEW E \in SUBSET D, Finalize(strangers, D, E)
      PROVE  FetchTypes'
  BY <1>5, FinalizeTypes
<1>6. ASSUME NEW works \in BOOLEAN, BeginFilter(works)
      PROVE  FetchTypes'
  <2> DEFINE before == results.kept \ JudgedBefore
             asked == {l \in before : NeedsReview(l, run.search, results.text)}
  <2>1. before \in SUBSET Listings /\ asked \in SUBSET before
    BY DEF SiteTypeOK
  <2>2. PICK order \in SetToSeqs(asked) : filter' = FilterOf(before, order, works)
    BY <1>6 DEF BeginFilter
  <2>3. FilterShape'
    <3> HIDE DEF before, asked
    <3> QED
      BY <2>1, <2>2, BeginShape
  <2> QED
    BY <1>6, <2>3 DEF BeginFilter, SiteTypeOK, FlowTypeOK, siteVars
<1>7. CASE AskFilter
  BY <1>7, FilterStepShape DEF AskFilter, SiteTypeOK, FlowTypeOK, siteVars
<1>8. CASE EndFilter
  <2>1. filter.before \in SUBSET Listings /\ Excluded \in SUBSET Listings
    BY DEF FilterShape, Excluded, Dropped
  <2>2. cache' \in Caches
    <3> DEFINE new == Judged(cache, run.search, filter.before, filter.before \ Dropped)
    <3>1. cache' \in {cache} \cup Stored(cache, new, filter.before, {}, results.text)
      BY <1>8 DEF EndFilter
    <3>2. cache \in Caches /\ run.search \in Searches /\ results.text \in [Listings -> Texts]
      BY DEF SiteTypeOK
    <3>3. new \in Caches
      BY <2>1, <3>2, DecisionTypes
    <3> HIDE DEF new
    <3> QED
      BY <2>1, <3>1, <3>2, <3>3, StoredTypes
  <2>3. Offered(filter.before, Excluded)
    BY <1>8 DEF EndFilter
  <2>4. /\ results' \in ResultLists
        /\ run' \in [search: Searches, company: BOOLEAN, snapshot: SUBSET Keys,
                      cancelled: BOOLEAN]
        /\ phase' \in {"idle", "offered"}
    BY <2>1, <2>3, OfferedTypes
  <2>5. filter' = NoFilterRuns /\ UNCHANGED <<siteVars, plan, runs, feeds, saved>>
    BY <1>8 DEF EndFilter
  <2> QED
    BY <2>2, <2>4, <2>5, NoFilterShape DEF SiteTypeOK, FlowTypeOK, ResultLists, siteVars
<1>9. CASE NoFilter
  <2>1. Offered(results.kept, {})
    BY <1>9 DEF NoFilter
  <2>2. /\ results' \in ResultLists
        /\ run' \in [search: Searches, company: BOOLEAN, snapshot: SUBSET Keys,
                      cancelled: BOOLEAN]
        /\ phase' \in {"idle", "offered"}
    <3>1. results.kept \in SUBSET Listings /\ {} \in SUBSET Listings
      BY DEF SiteTypeOK
    <3> QED
      BY <2>1, <3>1, OfferedTypes
  <2> QED
    BY <1>9, <2>2 DEF NoFilter, SiteTypeOK, FlowTypeOK, FilterShape, ResultLists, siteVars
<1> QED
  BY <1>1, <1>2, <1>3, <1>4, <1>5, <1>6, <1>7, <1>8, <1>9 DEF FetchStep

\* So does a step of the user, the end of the time, and a kill.
LEMMA OtherStepTypes ==
    ASSUME FetchTypes, UserStep \/ Timeout \/ Restart
    PROVE  FetchTypes'
<1> USE DEF FetchTypes
<1>1. ASSUME NEW s \in Searches, NEW company \in BOOLEAN, StartFetch(s, company)
      PROVE  FetchTypes'
  <2>1. cache' \in Caches
    BY <1>1, PrunedTypes DEF StartFetch, SiteTypeOK
  <2>2. SitesReset(plan.tasks, "none")
    BY <1>1 DEF StartFetch
  <2>3. runs' \in 0..plan.fetches
    BY <1>1, FetchAssumption DEF StartFetch, FlowTypeOK
  <2>4. feeds' \subseteq Feeds
    BY <1>1, FetchAssumption DEF StartFetch, FlowTypeOK
  <2>5. phase' \in {"llm", "sources", "filter"}
    BY <1>1 DEF StartFetch, FirstStage, SourcesOrFilter
  <2>6. run' \in [search: Searches, company: BOOLEAN, snapshot: SUBSET Keys, cancelled: BOOLEAN]
    BY <1>1 DEF StartFetch, FlowTypeOK
  <2>7. UNCHANGED <<results, plan, saved, filter>>
    BY <1>1 DEF StartFetch
  <2>8. SiteTypeOK'
    BY <2>1, <2>2, <2>6, <2>7, ResetTypes DEF SiteTypeOK
  <2> QED
    BY <2>3, <2>4, <2>5, <2>7, <2>8 DEF FlowTypeOK, FilterShape
<1>2. ASSUME Ended
      PROVE  /\ results' \in ResultLists
             /\ run' \in [search: Searches, company: BOOLEAN, snapshot: SUBSET Keys,
                           cancelled: BOOLEAN]
             /\ phase' = "idle"
  BY <1>2, CandidateCacheAssumption DEF Ended, NoResults, NoRun, ResultLists, Searches
<1>3. CASE Accept
  BY <1>2, <1>3 DEF Accept, SiteTypeOK, FlowTypeOK, FilterShape, siteVars, ResultLists, KeysOf, Keys
<1>4. CASE Dismiss
  BY <1>2, <1>4 DEF Dismiss, SiteTypeOK, FlowTypeOK, FilterShape, siteVars, ResultLists
<1>5. ASSUME NEW k \in Keys, EditList(k)
      PROVE  FetchTypes'
  BY <1>5 DEF EditList, SiteTypeOK, FlowTypeOK, FilterShape, siteVars
<1>6. ASSUME NEW k \in Keys, NEW l \in Listings, RecordCandidate(k, Description[l])
      PROVE  FetchTypes'
  <2>1. Description[l] \in Texts
    BY CandidateCacheAssumption
  <2>2. cache' \in Caches
    BY <1>6, <2>1, RefreshedTypes DEF RecordCandidate, SiteTypeOK
  <2> QED
    BY <1>6, <2>2 DEF RecordCandidate, SiteTypeOK, FlowTypeOK, FilterShape, siteVars
<1>7. CASE Timeout
  BY <1>7 DEF Timeout, SiteTypeOK, FlowTypeOK, FilterShape, siteVars
<1>8. CASE Restart
  <2>1. SitesReset({}, "none") /\ Ended /\ filter' = NoFilterRuns
    BY <1>8 DEF Restart
  <2> QED
    BY <1>2, <1>8, <2>1, ResetTypes, NoFilterShape DEF Restart, SiteTypeOK, FlowTypeOK, ResultLists
<1> QED
  BY <1>1, <1>3, <1>4, <1>5, <1>6, <1>7, <1>8 DEF UserStep

\* Nothing happens.
LEMMA StutterTypes ==
    ASSUME FetchTypes, UNCHANGED vars
    PROVE  FetchTypes'
BY DEF FetchTypes, SiteTypeOK, FlowTypeOK, FilterShape, vars, siteVars

\* A fetch begins with values of their types.
LEMMA InitTypes == Init => FetchTypes
<1> SUFFICES ASSUME Init PROVE FetchTypes
  OBVIOUS
<1>1. cache \in Caches
  <2>1. [k \in {} |-> "none"] \in [{} -> Texts]
    OBVIOUS
  <2>2. {} \in SUBSET Keys
    OBVIOUS
  <2> QED
    BY <2>1, <2>2 DEF Init, EmptyCache, Caches
<1>2. SiteTypeOK
  BY <1>1, CandidateCacheAssumption DEF Init, SiteTypeOK, NoRun, NoResults, NoEntry, Searches
<1>3. FlowTypeOK
  BY FetchAssumption DEF Init, FlowTypeOK
<1>4. FilterShape
  BY DEF Init, FilterShape, NoFilterRuns
<1> QED
  BY <1>2, <1>3, <1>4 DEF FetchTypes

-----------------------------------------------------------------------------
(* The candidate limit.                                                    *)

\* The searches' numbers of candidates grow by what is taken at one site, if at all.
LEMMA UsedChange ==
    ASSUME SiteStep
    PROVE  \/ UNCHANGED used
           \/ \E t \in Tasks : \E S \in SUBSET Posted[t] : \E K \in SUBSET S : Taken(t, S, K)
<1>1. ASSUME NEW t \in Tasks, NEW S \in SUBSET Posted[t], NEW K \in SUBSET S,
             ReadCards(t, S, K) \/ \E R \in SUBSET K : ReadLinks(t, S, K, R) \/ Probe(t, S, K, R)
      PROVE  Taken(t, S, K)
  BY <1>1 DEF ReadCards, ReadLinks, Probe
<1>2. ASSUME NEW t \in Tasks, \/ StartTask(t) \/ PageFails(t) \/ GetBrowser(t) \/ GiveUp(t)
                              \/ ProbeIsBlocked(t) \/ ProfilesDone(t)
      PROVE  UNCHANGED used
  BY <1>2 DEF StartTask, PageFails, GetBrowser, GiveUp, ProbeIsBlocked, ProfilesDone
<1>3. ASSUME NEW p \in Profiles,
             \/ \E t \in Tasks : AskProfile(t, p) \/ ShareProfile(t, p)
             \/ ProfileSlot(p) \/ ProfileAnswers(p)
      PROVE  UNCHANGED used
  BY <1>3 DEF AskProfile, ShareProfile, ProfileSlot, ProfileAnswers
<1> QED
  BY <1>1, <1>2, <1>3 DEF SiteStep, TaskStep

\* What is taken fits into what the limit leaves.
LEMMA TakenHolds ==
    ASSUME SiteTypeOK, LimitHeld, NEW t \in Tasks, NEW S \in SUBSET Posted[t], NEW K \in SUBSET S,
           Taken(t, S, K)
    PROVE  LimitHeld'
<1>1. SUFFICES ASSUME CandidateLimit > 0, NEW s \in Sites
               PROVE  used'[s] <= CandidateLimit
  BY DEF LimitHeld
<1>2. S \subseteq Listings /\ IsFiniteSet(S) /\ IsFiniteSet(K)
  BY FS_Subset, CandidateCacheAssumption, SiteSearchAssumption
<1>3. Cardinality(S) \in Nat /\ Cardinality(K) \in Nat
  BY <1>2, FS_CardinalityType
<1>4. used \in [Sites -> Nat] /\ SiteOf[t] \in Sites /\ CandidateLimit \in Nat
  BY SiteSearchAssumption DEF SiteTypeOK, Sites
<1>5. used[s] <= CandidateLimit /\ used[SiteOf[t]] <= CandidateLimit
  BY <1>1, <1>4 DEF LimitHeld
<1>6. Cardinality(K) <= CandidateLimit - used[SiteOf[t]]
  BY <1>1, <1>3, <1>4, <1>5 DEF Taken, TakeCount, AtMost
<1>7. \/ used'[s] = used[s]
      \/ s = SiteOf[t] /\ used'[s] = used[s] + Cardinality(K)
  BY <1>1, <1>4 DEF Taken
<1> QED
  BY <1>1, <1>3, <1>4, <1>5, <1>6, <1>7

\* The candidates taken at a site in a fetch never exceed the limit (takeCount looks
\* and takes in one step), whatever the number of its searches.
THEOREM LimitHeldTheorem == Spec => []LimitHeld
<1>1. Init => LimitHeld
  BY SiteSearchAssumption DEF Init, LimitHeld
<1>2. ASSUME FetchTypes, LimitHeld, [Next]_vars
      PROVE  LimitHeld'
  <2>1. CASE UNCHANGED used
    BY <1>2, <2>1 DEF LimitHeld
  <2>2. CASE SiteStep
    BY <1>2, <2>1, <2>2, UsedChange, TakenHolds DEF FetchTypes
  <2>3. ASSUME NEW T, NEW b, SitesReset(T, b)
        PROVE  LimitHeld'
    BY <2>3, SiteSearchAssumption DEF SitesReset, LimitHeld
  <2>4. CASE FetchStep
    BY <2>1, <2>2, <2>3, <2>4
       DEF FetchStep, AskModel, AskModelWeb, ReadFeed, Search, Finalize, BeginFilter, AskFilter,
           EndFilter, NoFilter, siteVars
  <2>5. CASE UserStep \/ Timeout \/ Restart
    BY <2>1, <2>3, <2>5
       DEF UserStep, StartFetch, Accept, Dismiss, EditList, RecordCandidate, Timeout, Restart,
           siteVars
  <2>6. CASE UNCHANGED vars
    BY <2>1, <2>6 DEF vars, siteVars
  <2> QED
    BY <1>2, <2>4, <2>5, <2>6 DEF Next
<1>3. FetchTypes /\ [Next]_vars => FetchTypes'
  BY FetchStepTypes, OtherStepTypes, StutterTypes DEF Next
<1> QED
  BY InitTypes, <1>1, <1>2, <1>3, PTL DEF Spec

-----------------------------------------------------------------------------
(* The browser.                                                            *)

\* The browser is opened by a step of the searches only.
THEOREM BrowserIsClosedTheorem == Spec => []BrowserIsClosed
<1>1. Init => BrowserIsClosed
  BY DEF Init, BrowserIsClosed
<1>2. ASSUME BrowserIsClosed, [Next]_vars
      PROVE  BrowserIsClosed'
  <2>1. CASE Search
    BY <2>1 DEF Search, BrowserIsClosed
  <2>2. CASE UNCHANGED browser /\ (phase' = phase \/ phase # "sources")
    BY <1>2, <2>2 DEF BrowserIsClosed
  <2>3. ASSUME NEW T, NEW b, SitesReset(T, b), b # "open"
        PROVE  BrowserIsClosed'
    BY <2>3 DEF SitesReset, BrowserIsClosed
  <2>4. CASE \E strangers, D, E : Finalize(strangers, D, E)
    BY <2>3, <2>4 DEF Finalize, CloseBrowser
  <2>5. CASE \/ \E S, invalid : AskModel(S, invalid) \/ AskModelWeb(S, invalid)
             \/ \E f, S, invalid : ReadFeed(f, S, invalid)
    BY <2>2, <2>5 DEF AskModel, AskModelWeb, ReadFeed, siteVars
  <2>6. CASE (\E works : BeginFilter(works)) \/ AskFilter \/ EndFilter \/ NoFilter
    BY <2>2, <2>6 DEF BeginFilter, AskFilter, EndFilter, NoFilter, siteVars
  <2>7. CASE UserStep \/ Timeout \/ Restart
    BY <2>2, <2>3, <2>7
       DEF UserStep, StartFetch, Accept, Dismiss, EditList, RecordCandidate, Timeout, Restart,
           siteVars
  <2>8. CASE UNCHANGED vars
    BY <2>2, <2>8 DEF vars, siteVars
  <2> QED
    BY <1>2, <2>1, <2>4, <2>5, <2>6, <2>7, <2>8 DEF Next, FetchStep
<1> QED
  BY <1>1, <1>2, PTL DEF Spec

-----------------------------------------------------------------------------
(* Blocked hosts.                                                          *)

\* The searches in the browser are one at most, and their hosts are not blocked.
ProbesAlone ==
    /\ \A t, u \in Tasks : tasks[t] = "probing" /\ tasks[u] = "probing" => t = u
    /\ BlockedIsLeftAlone

\* A search that gets the only browser finds it unused.
LEMMA BrowserIsFree ==
    ASSUME BrowserSlots = 1, NEW t \in Tasks, GetBrowser(t)
    PROVE  \A u \in Tasks : tasks[u] # "probing"
<1> DEFINE probing == {u \in Tasks : tasks[u] = "probing"}
<1>1. IsFiniteSet(probing)
  BY FS_Subset, SiteSearchAssumption
<1>2. Cardinality(probing) \in Nat /\ Cardinality(probing) < 1
  BY <1>1, FS_CardinalityType DEF GetBrowser
<1>3. probing = {}
  <2> HIDE DEF probing
  <2> QED
    BY <1>1, <1>2, FS_EmptySet
<1> QED
  BY <1>3

\* A step keeps whoever looks at a page alone in the browser.
LEMMA ProbesAloneStep ==
    ASSUME BrowserSlots = 1, SiteTypeOK, ProbesAlone, SiteStep
    PROVE  ProbesAlone'
<1> USE DEF ProbesAlone, BlockedIsLeftAlone, SiteTypeOK, Go
<1>1. ASSUME NEW t \in Tasks, GetBrowser(t)
      PROVE  ProbesAlone'
  <2>1. CASE Go(t, "done")
    BY <1>1, <2>1 DEF GetBrowser
  <2>2. CASE ~SkipSearch(t) /\ Go(t, "probing")
    BY <1>1, <2>2, BrowserIsFree DEF GetBrowser, SkipSearch
  <2> QED
    BY <1>1, <2>1, <2>2 DEF GetBrowser
<1>2. ASSUME NEW t \in Tasks, ProbeIsBlocked(t)
      PROVE  ProbesAlone'
  BY <1>2 DEF ProbeIsBlocked
<1>3. ASSUME NEW t \in Tasks, StartTask(t) \/ PageFails(t) \/ GiveUp(t) \/ ProfilesDone(t)
      PROVE  ProbesAlone'
  BY <1>3 DEF StartTask, PageFails, GiveUp, ProfilesDone
<1>4. ASSUME NEW t \in Tasks, NEW S \in SUBSET Posted[t], NEW K \in SUBSET S,
             ReadCards(t, S, K) \/ \E R \in SUBSET K : ReadLinks(t, S, K, R) \/ Probe(t, S, K, R)
      PROVE  ProbesAlone'
  <2>1. /\ tasks' \in {[tasks EXCEPT ![t] = "profiles"], [tasks EXCEPT ![t] = "done"]}
        /\ UNCHANGED blocked
    BY <1>4 DEF ReadCards, ReadLinks, Probe
  <2> QED
    BY <2>1
<1>5. ASSUME NEW p \in Profiles,
             \/ \E t \in Tasks : AskProfile(t, p) \/ ShareProfile(t, p)
             \/ ProfileSlot(p) \/ ProfileAnswers(p)
      PROVE  ProbesAlone'
  BY <1>5 DEF AskProfile, ShareProfile, ProfileSlot, ProfileAnswers
<1> QED
  BY <1>1, <1>2, <1>3, <1>4, <1>5 DEF SiteStep, TaskStep

\* With one search in the browser at a time, as in the code, a host that asked for a
\* verification is not searched again, by whatever number of searches.
THEOREM BlockedIsLeftAloneTheorem ==
    ASSUME BrowserSlots = 1
    PROVE  Spec => []BlockedIsLeftAlone
<1>1. Init => ProbesAlone
  BY DEF Init, ProbesAlone, BlockedIsLeftAlone
<1>2. ASSUME FetchTypes, ProbesAlone, [Next]_vars
      PROVE  ProbesAlone'
  <2>1. CASE UNCHANGED <<tasks, blocked>>
    BY <1>2, <2>1 DEF ProbesAlone, BlockedIsLeftAlone
  <2>2. CASE SiteStep
    BY <1>2, <2>2, ProbesAloneStep DEF FetchTypes
  <2>3. ASSUME NEW T, NEW b, SitesReset(T, b)
        PROVE  ProbesAlone'
    BY <2>3 DEF SitesReset, ProbesAlone, BlockedIsLeftAlone
  <2>4. CASE FetchStep
    BY <2>1, <2>2, <2>3, <2>4
       DEF FetchStep, AskModel, AskModelWeb, ReadFeed, Search, Finalize, BeginFilter, AskFilter,
           EndFilter, NoFilter, siteVars
  <2>5. CASE UserStep \/ Timeout \/ Restart
    BY <2>1, <2>3, <2>5
       DEF UserStep, StartFetch, Accept, Dismiss, EditList, RecordCandidate, Timeout, Restart,
           siteVars
  <2>6. CASE UNCHANGED vars
    BY <2>1, <2>6 DEF vars, siteVars
  <2> QED
    BY <1>2, <2>4, <2>5, <2>6 DEF Next
<1>3. FetchTypes /\ [Next]_vars => FetchTypes'
  BY FetchStepTypes, OtherStepTypes, StutterTypes DEF Next
<1>4. ProbesAlone => BlockedIsLeftAlone
  BY DEF ProbesAlone
<1> QED
  BY InitTypes, <1>1, <1>2, <1>3, <1>4, PTL DEF Spec

-----------------------------------------------------------------------------
(* Profiles.                                                               *)

\* A profile is requested only while Built In has not refused one.
LEMMA ProfilesStopStep ==
    ASSUME FetchTypes, [Next]_vars, NEW p \in Profiles,
           profiles'[p].state = "fetching", profiles[p].state # "fetching"
    PROVE  ~barred
<1>1. profiles \in [Profiles -> [state: {"none", "waiting", "fetching", "found", "failed"},
                                 by: Tasks \cup {"none"}]]
  BY DEF FetchTypes, SiteTypeOK
<1>2. profiles' # profiles
  OBVIOUS
<1>3. ASSUME NEW T, NEW b, SitesReset(T, b)
      PROVE  FALSE
  BY <1>3 DEF SitesReset, NoEntry
<1>4. CASE SiteStep
  <2>1. CASE \E q \in Profiles : ProfileSlot(q)
    BY <1>1, <2>1 DEF ProfileSlot, Entry, Answered, BarredNow
  <2>2. CASE \E q \in Profiles : ProfileAnswers(q)
    BY <1>1, <2>2 DEF ProfileAnswers, Entry, Answered
  <2>3. CASE \E q \in Profiles : \E t \in Tasks : AskProfile(t, q)
    BY <1>1, <2>3 DEF AskProfile
  <2>4. CASE \E q \in Profiles : \E t \in Tasks : ShareProfile(t, q)
    BY <1>2, <2>4 DEF ShareProfile
  <2>5. CASE \E t \in Tasks : \/ StartTask(t) \/ PageFails(t) \/ GetBrowser(t) \/ GiveUp(t)
                               \/ ProbeIsBlocked(t) \/ ProfilesDone(t)
    BY <1>2, <2>5 DEF StartTask, PageFails, GetBrowser, GiveUp, ProbeIsBlocked, ProfilesDone
  <2>6. ASSUME NEW t \in Tasks, NEW S \in SUBSET Posted[t], NEW K \in SUBSET S,
               ReadCards(t, S, K) \/ \E R \in SUBSET K : ReadLinks(t, S, K, R) \/ Probe(t, S, K, R)
        PROVE  FALSE
    BY <1>2, <2>6 DEF ReadCards, ReadLinks, Probe
  <2> QED
    BY <1>4, <2>1, <2>2, <2>3, <2>4, <2>5, <2>6 DEF SiteStep, TaskStep
<1>5. CASE FetchStep
  BY <1>2, <1>3, <1>4, <1>5
     DEF FetchStep, AskModel, AskModelWeb, ReadFeed, Search, Finalize, BeginFilter, AskFilter,
         EndFilter, NoFilter, siteVars
<1>6. CASE UserStep \/ Timeout \/ Restart
  BY <1>2, <1>3, <1>6
     DEF UserStep, StartFetch, Accept, Dismiss, EditList, RecordCandidate, Timeout, Restart, siteVars
<1>7. CASE UNCHANGED vars
  BY <1>2, <1>7 DEF vars, siteVars
<1> QED
  BY <1>5, <1>6, <1>7 DEF Next

\* No profile is requested any more once Built In refused one, by whatever searches.
THEOREM ProfilesStopTheorem == Spec => ProfilesStop
<1>1. FetchTypes /\ [Next]_vars => FetchTypes'
  BY FetchStepTypes, OtherStepTypes, StutterTypes DEF Next
<1>2. FetchTypes /\ [Next]_vars =>
        [\A p \in Profiles :
            profiles'[p].state = "fetching" /\ profiles[p].state # "fetching" => ~barred]_vars
  BY ProfilesStopStep
<1> QED
  BY InitTypes, <1>1, <1>2, PTL DEF Spec, ProfilesStop

-----------------------------------------------------------------------------
(* Rejections.                                                             *)

\* What a fetch lists as failing its filter was read for it and does fail it; between
\* fetches the lists are empty.
FailingFails ==
    /\ \A l \in results.failing : ~Passes(l, run.search) /\ <<l, run.search>> \in shown
    /\ phase = "idle" => results = NoResults

\* Decisions that reject only what was read and fails.
Deserved(decisions, read) ==
    \A d \in decisions :
       \E l \in Listings : KeyOf[l] = d[1] /\ <<l, d[2]>> \in read /\ ~Passes(l, d[2])

\* A part of them is, whatever is read later.
LEMMA DeservedLater ==
    ASSUME NEW D, NEW A, Deserved(D, A), NEW E \in SUBSET D, NEW B, A \subseteq B
    PROVE  Deserved(E, B)
BY DEF Deserved

\* What a page reports as failing fails.
LEMMA ReportFails ==
    ASSUME FailingFails, NEW S, NEW F, NEW O, NEW R, UNCHANGED run, phase' # "idle", Remember,
           \A l \in F : ~Passes(l, run.search), Report(S, F, O, R) \/ Added(S, F, O, R)
    PROVE  FailingFails'
<1>1. results'.failing = results.failing \cup F /\ F \subseteq results'.found
  BY DEF Report, Added
<1>2. shown' = shown \cup (results'.found \X {run.search})
  BY DEF Remember
<1> QED
  BY <1>1, <1>2 DEF FailingFails, Passes

\* A step of the searches lists as failing only what fails.
LEMMA SiteStepFails ==
    ASSUME FailingFails, SiteStep, phase # "idle", UNCHANGED phase, Remember
    PROVE  FailingFails' /\ UNCHANGED <<cache, run>>
<1>1. ASSUME UNCHANGED <<results, run>>
      PROVE  FailingFails'
  BY <1>1 DEF FailingFails, Passes, Remember
<1>2. ASSUME NEW t \in Tasks, NEW S \in SUBSET Posted[t], NEW K \in SUBSET S, ReadCards(t, S, K)
      PROVE  FailingFails' /\ UNCHANGED <<cache, run>>
  <2> DEFINE known == Known(K)
             fit == Fitting(K \ known)
  <2>1. Report(fit, K \ (known \cup fit), known \cup (S \ K), {}) /\ UNCHANGED <<cache, run>>
    BY <1>2 DEF ReadCards
  <2>2. \A l \in K \ (known \cup fit) : ~Passes(l, run.search)
    BY DEF Fitting
  <2> HIDE DEF known, fit
  <2> QED
    BY <2>1, <2>2, ReportFails
<1>3. ASSUME NEW t \in Tasks, NEW S \in SUBSET Posted[t], NEW K \in SUBSET S, NEW R \in SUBSET K,
             ReadLinks(t, S, K, R)
      PROVE  FailingFails' /\ UNCHANGED <<cache, run>>
  <2>1. Report(Fitting(R), R \ Fitting(R), Known(K), {}) /\ UNCHANGED <<cache, run>>
    BY <1>3 DEF ReadLinks
  <2>2. \A l \in R \ Fitting(R) : ~Passes(l, run.search)
    BY DEF Fitting
  <2> QED
    BY <2>1, <2>2, ReportFails
<1>4. ASSUME NEW t \in Tasks, NEW S \in SUBSET Posted[t], NEW K \in SUBSET S, NEW R \in SUBSET K,
             Probe(t, S, K, R)
      PROVE  FailingFails' /\ UNCHANGED <<cache, run>>
  <2>1. PICK read, nameless : Probed(read, nameless, Known(K \ R), R) /\ UNCHANGED <<cache, run>>
    BY <1>4 DEF Probe, Probed
  <2>2. \A l \in read \ (nameless \cup Fitting(read \ nameless)) : ~Passes(l, run.search)
    BY DEF Fitting
  <2> QED
    BY <2>1, <2>2, ReportFails DEF Probed
<1>5. ASSUME NEW t \in Tasks, \/ StartTask(t) \/ PageFails(t) \/ GetBrowser(t) \/ GiveUp(t)
                              \/ ProbeIsBlocked(t) \/ ProfilesDone(t)
      PROVE  UNCHANGED <<cache, results, run>>
  BY <1>5 DEF StartTask, PageFails, GetBrowser, GiveUp, ProbeIsBlocked, ProfilesDone
<1>6. ASSUME NEW p \in Profiles,
             \/ \E t \in Tasks : AskProfile(t, p) \/ ShareProfile(t, p)
             \/ ProfileSlot(p) \/ ProfileAnswers(p)
      PROVE  UNCHANGED <<cache, results, run>>
  BY <1>6 DEF AskProfile, ShareProfile, ProfileSlot, ProfileAnswers
<1> QED
  BY <1>1, <1>2, <1>3, <1>4, <1>5, <1>6 DEF SiteStep, TaskStep

\* The decisions that a fetch writes at its end are deserved.
LEMMA FinalizeDeserves ==
    ASSUME FetchTypes, FailingFails, Deserved(cache.rejected, shown), Remember,
           NEW strangers \in SUBSET results.kept,
           NEW D, NEW E \in SUBSET D, Finalize(strangers, D, E)
    PROVE  FailingFails' /\ Deserved(cache'.rejected, shown')
<1> DEFINE text == IF run.cancelled THEN results.text
                   ELSE Hydrated(cache, results.kept, results.text)
           own == results.kept \ strangers
           fresh == own \ Known(own)
           filtered == results.failing \cup results.other
           other == results.other \cup strangers \cup Known(own)
           Decisions(c) == Recorded(c, run.search, fresh, results.failing, other)
<1>1. results \in ResultLists /\ cache \in Caches /\ run.search \in Searches
  BY DEF FetchTypes, SiteTypeOK, ResultLists
<1>2. /\ text \in [Listings -> Texts]
      /\ own \in SUBSET Listings
      /\ fresh \in SUBSET Listings
      /\ filtered \in SUBSET Listings
      /\ strangers \in SUBSET Listings
      /\ other \in SUBSET Listings
      /\ results.failing \in SUBSET Listings
  BY <1>1, HydratedTypes DEF ResultLists, Known, KnownRejects
<1>3. FailingFails'
  <2>1. Keep(E, {}, text) /\ UNCHANGED run /\ phase' = "filter"
    BY DEF Finalize
  <2>2. results'.failing = results.failing
    BY <1>1, <2>1 DEF Keep, ResultLists
  <2> QED
    BY <2>1, <2>2 DEF FailingFails, Passes, Remember
<1>4. Deserved(cache'.rejected, shown)
  <2>1. CASE run.cancelled
    <3>1. cache' = cache
      BY <2>1 DEF Finalize
    <3> QED
      BY <3>1
  <2>2. CASE ~run.cancelled
    <3>1. PICK c \in Seen(cache, own, filtered, strangers, text) :
             cache' \in Stored(c, Decisions(c), fresh, results.failing, text)
      BY <2>2 DEF Finalize
    <3>2. c \in Caches /\ c.rejected = cache.rejected
      BY <1>1, <1>2, <3>1, SeenTypes
    <3>3. Decisions(c) \in Caches
      BY <1>1, <1>2, <3>2, DecisionTypes
    <3>4. cache'.rejected \in {c.rejected, Decisions(c).rejected}
      BY <1>2, <3>1, <3>2, <3>3, StoredTypes
    <3>5. Decisions(c).rejected \subseteq
             c.rejected \cup {<<k, run.search>> : k \in KeysOf(results.failing)}
      BY <3>2 DEF Recorded, Decided, DeterministicReason, Caches
    <3>6. Deserved(c.rejected, shown)
      BY <3>2
    <3>7. Deserved({<<k, run.search>> : k \in KeysOf(results.failing)}, shown)
      <4>1. SUFFICES ASSUME NEW l \in results.failing, NEW d, d = <<KeyOf[l], run.search>>
                     PROVE  \E m \in Listings : /\ KeyOf[m] = d[1] /\ <<m, d[2]>> \in shown
                                                /\ ~Passes(m, d[2])
        BY DEF Deserved, KeysOf
      <4>2. d[1] = KeyOf[l] /\ d[2] = run.search
        BY <4>1
      <4>3. <<l, run.search>> \in shown /\ ~Passes(l, run.search) /\ l \in Listings
        BY <1>2 DEF FailingFails
      <4> QED
        BY <4>2, <4>3
    <3> QED
      BY <3>4, <3>5, <3>6, <3>7 DEF Deserved
  <2> QED
    BY <2>1, <2>2
<1>5. shown \subseteq shown'
  BY DEF Remember
<1> QED
  BY <1>3, <1>4, <1>5, DeservedLater

\* The filter makes up no rejection.
LEMMA EndFilterDeserves ==
    ASSUME FetchTypes, EndFilter
    PROVE  cache'.rejected = cache.rejected
<1> DEFINE new == Judged(cache, run.search, filter.before, filter.before \ Dropped)
<1>1. cache' \in {cache} \cup Stored(cache, new, filter.before, {}, results.text)
  BY DEF EndFilter
<1>2. /\ cache \in Caches /\ run.search \in Searches /\ results.text \in [Listings -> Texts]
      /\ filter.before \in SUBSET Listings
  BY DEF FetchTypes, SiteTypeOK, FilterShape
<1>3. new \in Caches
  BY <1>2, DecisionTypes
<1>4. new.rejected = cache.rejected
  BY <1>2 DEF Judged, Caches
<1> HIDE DEF new
<1> QED
  BY <1>1, <1>2, <1>3, <1>4, StoredTypes

\* What a search skips as rejected was read for the same criteria as a listing of the
\* same posting that fails them, whatever was written, failed, pruned or interrupted in
\* any number of fetches for any criteria.
THEOREM RejectionsAreDeservedTheorem == Spec => []RejectionsAreDeserved
<1> DEFINE Inv == FailingFails /\ Deserved(cache.rejected, shown)
<1>1. Init => Inv
  BY DEF Init, FailingFails, Deserved, NoResults, EmptyCache
<1>2. ASSUME FetchTypes, Inv, [Next]_vars
      PROVE  Inv'
  <2>1. ASSUME cache'.rejected \subseteq cache.rejected, Remember
        PROVE  Deserved(cache'.rejected, shown')
    BY <1>2, <2>1, DeservedLater DEF Remember
  <2>2. ASSUME results' = NoResults
        PROVE  FailingFails'
    BY <2>2 DEF FailingFails, NoResults
  <2>3. ASSUME UNCHANGED results, run'.search = run.search, phase' = phase \/ phase' # "idle",
               Remember
        PROVE  FailingFails'
    BY <1>2, <2>3 DEF FailingFails, Passes, Remember
  <2>4. ASSUME NEW f, NEW S, NEW invalid, Remember,
               AskModel(S, invalid) \/ AskModelWeb(S, invalid) \/ ReadFeed(f, S, invalid)
        PROVE  Inv'
    <3>1. PICK A, B, C : Added(A, B, C, {}) /\ \A l \in B : ~Passes(l, run.search)
      BY <2>4 DEF AskModel, AskModelWeb, ReadFeed, Fitting
    <3>2. UNCHANGED <<cache, run>> /\ phase' # "idle"
      BY <2>4 DEF AskModel, AskModelWeb, ReadFeed, SourcesOrFilter
    <3>3. FailingFails'
      BY <1>2, <2>4, <3>1, <3>2, ReportFails
    <3> QED
      BY <2>1, <2>4, <3>2, <3>3
  <2>5. CASE Search /\ Remember
    BY <1>2, <2>1, <2>5, SiteStepFails DEF Search
  <2>6. ASSUME NEW strangers \in SUBSET results.kept, NEW D \in SUBSET results.kept,
               NEW E \in SUBSET D, Finalize(strangers, D, E), Remember
        PROVE  Inv'
    BY <1>2, <2>6, FinalizeDeserves
  <2>7. CASE ((\E works \in BOOLEAN : BeginFilter(works)) \/ AskFilter) /\ Remember
    BY <2>1, <2>3, <2>7 DEF BeginFilter, AskFilter
  <2>8. ASSUME NEW S, NEW O, Offered(S, O), Remember
        PROVE  FailingFails'
    <3>1. CASE results' = NoResults
      BY <2>2, <3>1
    <3>2. CASE phase' = "offered" /\ Keep(RemovedExisting(S), O, results.text) /\ UNCHANGED run
      <4>1. results'.failing = results.failing
        BY <1>2, <3>2 DEF Keep, FetchTypes, SiteTypeOK
      <4> QED
        BY <1>2, <2>8, <3>2, <4>1 DEF FailingFails, Passes, Remember
    <3> QED
      BY <2>8, <3>1, <3>2 DEF Offered
  <2>9. CASE EndFilter /\ Remember
    <3>1. cache'.rejected = cache.rejected
      BY <1>2, <2>9, EndFilterDeserves
    <3> QED
      BY <2>1, <2>8, <2>9, <3>1 DEF EndFilter
  <2>10. CASE NoFilter /\ Remember
    BY <2>1, <2>8, <2>10 DEF NoFilter
  <2>11. ASSUME NEW s, NEW company, StartFetch(s, company), Remember
         PROVE  Inv'
    <3>1. results' = NoResults
      BY <1>2, <2>11 DEF StartFetch, FailingFails
    <3>2. cache'.rejected \subseteq cache.rejected
      BY <1>2, <2>11, PrunedTypes DEF StartFetch, FetchTypes, SiteTypeOK
    <3> QED
      BY <2>1, <2>2, <2>11, <3>1, <3>2
  <2>12. CASE (Accept \/ Dismiss \/ Restart) /\ Remember
    BY <2>1, <2>2, <2>12 DEF Accept, Dismiss, Restart, Ended
  <2>13. CASE (\E k \in Keys : EditList(k)) /\ Remember
    BY <2>1, <2>3, <2>13 DEF EditList
  <2>14. CASE Timeout /\ Remember
    <3>1. run'.search = run.search
      BY <1>2, <2>14 DEF Timeout, FetchTypes, SiteTypeOK
    <3> QED
      BY <2>1, <2>3, <2>14, <3>1 DEF Timeout
  <2>15. ASSUME NEW k \in Keys, NEW l \in Listings, RecordCandidate(k, Description[l]), Remember
         PROVE  Inv'
    <3>1. Description[l] \in Texts /\ cache \in Caches
      BY <1>2, CandidateCacheAssumption DEF FetchTypes, SiteTypeOK
    <3>2. cache'.rejected = cache.rejected
      BY <2>15, <3>1, RefreshedTypes DEF RecordCandidate
    <3> QED
      BY <2>1, <2>3, <2>15, <3>2 DEF RecordCandidate
  <2>16. CASE UNCHANGED vars
    BY <1>2, <2>16 DEF vars, FailingFails, Passes
  <2> QED
    BY <1>2, <2>4, <2>5, <2>6, <2>7, <2>9, <2>10, <2>11, <2>12, <2>13, <2>14, <2>15, <2>16
       DEF Next, FetchStep, UserStep
<1>3. FetchTypes /\ [Next]_vars => FetchTypes'
  BY FetchStepTypes, OtherStepTypes, StutterTypes DEF Next
<1>4. Inv => RejectionsAreDeserved
  BY DEF Deserved, RejectionsAreDeserved, KnownRejects, IsRejected
<1> QED
  BY InitTypes, <1>1, <1>2, <1>3, <1>4, PTL DEF Spec

-----------------------------------------------------------------------------
(* Offers.                                                                 *)

\* No two listings of one posting.
Distinct(S) == \A l, m \in S : KeyOf[l] = KeyOf[m] => l = m
\* No more than may be accepted.
Within(S) == AcceptedLimit > 0 => Cardinality(S) <= AcceptedLimit

\* What is kept after the sources has each posting once and is within the limit, the
\* filter works on a part of it, and what is offered is not saved.
OffersAreSound ==
    /\ plan.sources /\ phase \in {"filter", "judging", "offered"} =>
          Distinct(results.kept) /\ Within(results.kept)
    /\ phase = "judging" => filter.before \subseteq results.kept
    /\ phase = "offered" => KeysOf(results.kept) \cap run.snapshot = {}

\* As many listings as postings: each posting once.
LEMMA DistinctCount ==
    ASSUME NEW S \in SUBSET Listings
    PROVE  Distinct(S) <=> Cardinality(S) = Cardinality(KeysOf(S))
<1> DEFINE f == [l \in S |-> KeyOf[l]]
<1>1. IsFiniteSet(S)
  BY FS_Subset, CandidateCacheAssumption
<1>2. f \in Surjection(S, KeysOf(S))
  BY DEF Surjection, KeysOf
<1>3. Cardinality(S) = Cardinality(KeysOf(S)) <=> f \in Injection(S, KeysOf(S))
  BY <1>1, <1>2, FS_Surjection
<1>4. f \in Injection(S, KeysOf(S)) <=> Distinct(S)
  BY <1>2 DEF Injection, IsInjective, Surjection, Distinct
<1> QED
  BY <1>3, <1>4

\* A part of what is sound is sound.
LEMMA PartIsSound ==
    ASSUME NEW S \in SUBSET Listings, NEW T \in SUBSET S, Distinct(S), Within(S)
    PROVE  Distinct(T) /\ Within(T)
<1>1. IsFiniteSet(S) /\ IsFiniteSet(T) /\ Cardinality(T) <= Cardinality(S)
  BY FS_Subset, CandidateCacheAssumption
<1>2. Cardinality(S) \in Nat /\ Cardinality(T) \in Nat
  BY <1>1, FS_CardinalityType
<1> QED
  BY <1>1, <1>2, FetchAssumption DEF Distinct, Within

\* What remains of repetitions and the limit is sound.
LEMMA RemainderIsSound ==
    ASSUME NEW S \in SUBSET Listings, NEW D \in Deduped(S), NEW E \in Capped(D)
    PROVE  Distinct(E) /\ Within(E)
<1>1. D \in SUBSET Listings /\ E \in SUBSET D
  BY DEF Deduped, Capped
<1>2. Distinct(D)
  BY <1>1, DistinctCount DEF Deduped
<1>3. IsFiniteSet(D)
  BY <1>1, FS_Subset, CandidateCacheAssumption
<1>4. Cardinality(D) \in Nat
  BY <1>3, FS_CardinalityType
<1>5. Within(E)
  BY <1>4, FetchAssumption DEF Capped, AtMost, Within
<1> QED
  BY <1>1, <1>2, <1>5 DEF Distinct

\* An offer of a part of what is kept is sound.
LEMMA OfferIsSound ==
    ASSUME FetchTypes, OffersAreSound, phase \in {"filter", "judging"},
           NEW S \in SUBSET results.kept, NEW O, Offered(S, O), UNCHANGED plan
    PROVE  OffersAreSound'
<1>1. CASE phase' = "idle"
  BY <1>1 DEF OffersAreSound
<1>2. CASE phase' = "offered" /\ Keep(RemovedExisting(S), O, results.text) /\ UNCHANGED run
  <2>1. results'.kept = RemovedExisting(S)
    BY <1>2 DEF Keep, FetchTypes, SiteTypeOK
  <2>2. KeysOf(results'.kept) \cap run'.snapshot = {}
    BY <1>2, <2>1 DEF RemovedExisting, Unsaved, KeysOf
  <2>3. ASSUME plan.sources
        PROVE  Distinct(results'.kept) /\ Within(results'.kept)
    <3>1. results.kept \in SUBSET Listings /\ RemovedExisting(S) \in SUBSET results.kept
      BY DEF FetchTypes, SiteTypeOK, RemovedExisting, Unsaved
    <3>2. Distinct(results.kept) /\ Within(results.kept)
      BY <2>3 DEF OffersAreSound
    <3> QED
      BY <2>1, <3>1, <3>2, PartIsSound
  <2> QED
    BY <1>2, <2>2, <2>3 DEF OffersAreSound, Distinct, Within
<1> QED
  BY <1>1, <1>2 DEF Offered

\* A review offers nothing that was saved when the fetch began; with the sources on it
\* has each posting once and no more than the limit, whatever the sources and the model
\* answer and the configuration leaves out.
THEOREM OffersAreNewTheorem == Spec => []OffersAreNew
<1>1. Init => OffersAreSound
  BY DEF Init, OffersAreSound
<1>2. ASSUME FetchTypes, OffersAreSound, [Next]_vars
      PROVE  OffersAreSound'
  <2>1. ASSUME phase' \notin {"filter", "judging", "offered"}
        PROVE  OffersAreSound'
    BY <2>1 DEF OffersAreSound
  <2>2. ASSUME UNCHANGED <<results, plan, phase, filter>>, run'.snapshot = run.snapshot
        PROVE  OffersAreSound'
    BY <1>2, <2>2 DEF OffersAreSound, Distinct, Within, KeysOf
  <2>3. CASE \E S, invalid : AskModel(S, invalid)
    BY <2>1, <2>3 DEF AskModel
  <2>4. CASE \E S, invalid : AskModelWeb(S, invalid)
    BY <2>4 DEF AskModelWeb, SourcesOrFilter, OffersAreSound
  <2>5. CASE (\E f, S, invalid : ReadFeed(f, S, invalid)) \/ Search
    BY <2>1, <2>5 DEF ReadFeed, Search
  <2>6. ASSUME NEW strangers \in SUBSET results.kept, NEW D, NEW E \in SUBSET D,
               Finalize(strangers, D, E)
        PROVE  OffersAreSound'
    <3> DEFINE own == results.kept \ strangers
               fresh == own \ Known(own)
    <3>1. PICK text : Keep(E, {}, text)
      BY <2>6 DEF Finalize
    <3>2. results'.kept = E
      BY <1>2, <3>1 DEF Keep, FetchTypes, SiteTypeOK
    <3>3. D \in Deduped(Unsaved(fresh)) /\ E \in Capped(D) /\ phase' = "filter"
      BY <2>6 DEF Finalize
    <3>4. Unsaved(fresh) \in SUBSET Listings
      BY <1>2 DEF Unsaved, FetchTypes, SiteTypeOK
    <3>5. Distinct(E) /\ Within(E)
      BY <3>3, <3>4, RemainderIsSound
    <3> QED
      BY <3>2, <3>3, <3>5 DEF OffersAreSound, Distinct, Within
  <2>7. ASSUME NEW works, BeginFilter(works)
        PROVE  OffersAreSound'
    <3> DEFINE before == results.kept \ JudgedBefore
               asked == {l \in before : NeedsReview(l, run.search, results.text)}
    <3>1. PICK order \in SetToSeqs(asked) : filter' = FilterOf(before, order, works)
      BY <2>7 DEF BeginFilter
    <3>2. before \in SUBSET Listings /\ asked \in SUBSET before
      BY <1>2 DEF FetchTypes, SiteTypeOK
    <3>3. filter'.before = before
      <4> HIDE DEF before, asked
      <4> QED
        BY <3>1, <3>2, BeginShape
    <3> QED
      BY <1>2, <2>7, <3>3 DEF BeginFilter, OffersAreSound, Distinct, Within
  <2>8. CASE AskFilter
    <3>1. filter'.before = filter.before
      BY <1>2, <2>8, FilterStepShape DEF AskFilter, FetchTypes
    <3> QED
      BY <1>2, <2>8, <3>1 DEF AskFilter, OffersAreSound, Distinct, Within
  <2>9. CASE EndFilter
    <3>1. /\ phase = "judging" /\ filter.before \in SUBSET results.kept
          /\ Offered(filter.before, Excluded) /\ UNCHANGED plan
      BY <1>2, <2>9 DEF EndFilter, OffersAreSound
    <3> QED
      BY <1>2, <3>1, OfferIsSound
  <2>10. CASE NoFilter
    <3>1. /\ phase = "filter" /\ results.kept \in SUBSET results.kept
          /\ Offered(results.kept, {}) /\ UNCHANGED plan
      BY <2>10 DEF NoFilter
    <3> QED
      BY <1>2, <3>1, OfferIsSound
  <2>11. CASE \E s, company : StartFetch(s, company)
    BY <2>11 DEF StartFetch, FirstStage, SourcesOrFilter, OffersAreSound
  <2>12. CASE Accept \/ Dismiss \/ Restart
    BY <2>1, <2>12 DEF Accept, Dismiss, Restart, Ended
  <2>13. CASE \/ \E k : EditList(k)
              \/ \E k, text : RecordCandidate(k, text)
              \/ UNCHANGED vars
    BY <2>2, <2>13 DEF EditList, RecordCandidate, vars
  <2>14. CASE Timeout
    <3>1. run'.snapshot = run.snapshot
      BY <1>2, <2>14 DEF Timeout, FetchTypes, SiteTypeOK
    <3> QED
      BY <2>2, <2>14, <3>1 DEF Timeout
  <2> QED
    BY <1>2, <2>3, <2>4, <2>5, <2>6, <2>7, <2>8, <2>9, <2>10, <2>11, <2>12, <2>13, <2>14
       DEF Next, FetchStep, UserStep
<1>3. FetchTypes /\ [Next]_vars => FetchTypes'
  BY FetchStepTypes, OtherStepTypes, StutterTypes DEF Next
<1>4. FetchTypes /\ OffersAreSound => OffersAreNew
  BY DistinctCount DEF OffersAreSound, OffersAreNew, Within, FetchTypes, SiteTypeOK
<1> QED
  BY InitTypes, <1>1, <1>2, <1>3, <1>4, PTL DEF Spec

-----------------------------------------------------------------------------
(* The batches of the filter and what becomes of them.                     *)

\* The jobs of some batches.
Covered(batches) == UNION {Range(batches[i]) : i \in DOMAIN batches}

\* One job after the batches of others.
LEMMA CoveredAppend ==
    ASSUME NEW E, NEW batches \in Seq(Seq(E)), NEW batch \in Seq(E)
    PROVE  /\ Append(batches, batch) \in Seq(Seq(E))
           /\ Covered(Append(batches, batch)) = Covered(batches) \cup Range(batch)
<1> DEFINE new == Append(batches, batch)
<1>1. /\ new \in Seq(Seq(E))
      /\ DOMAIN new = DOMAIN batches \cup {Len(batches) + 1}
      /\ \A i \in DOMAIN batches : new[i] = batches[i]
      /\ new[Len(batches) + 1] = batch
  OBVIOUS
<1> HIDE DEF new
<1>2. Covered(new) = Covered(batches) \cup Range(batch)
  BY <1>1 DEF Covered
<1> QED
  BY <1>1, <1>2 DEF new

\* A job that is put into a batch is all that is new.
LEMMA PutCovers ==
    ASSUME NEW E, NEW batches \in Seq(Seq(E)), NEW l \in E, NEW rule
    PROVE  /\ Put(rule, batches, l) \in Seq(Seq(E))
           /\ Covered(Put(rule, batches, l)) = Covered(batches) \cup {l}
<1> DEFINE taking == {i \in DOMAIN batches : /\ rule = "source" \/ i = Len(batches)
                                             /\ Joins(rule, batches[i], l)}
<1>1. ASSUME NEW batch \in Seq(E)
      PROVE  Append(batch, l) \in Seq(E) /\ Range(Append(batch, l)) = Range(batch) \cup {l}
  <2>1. /\ Append(batch, l) \in Seq(E)
        /\ DOMAIN Append(batch, l) = DOMAIN batch \cup {Len(batch) + 1}
        /\ \A i \in DOMAIN batch : Append(batch, l)[i] = batch[i]
        /\ Append(batch, l)[Len(batch) + 1] = l
    OBVIOUS
  <2> QED
    BY <2>1 DEF Range
<1>2. CASE taking = {}
  <2>1. Put(rule, batches, l) = Append(batches, <<l>>)
    BY <1>2 DEF Put
  <2> DEFINE one == <<l>>
  <2>2. one \in Seq(E) /\ Range(one) = {l}
    BY DEF Range
  <2> HIDE DEF one
  <2>3. /\ Append(batches, one) \in Seq(Seq(E))
        /\ Covered(Append(batches, one)) = Covered(batches) \cup Range(one)
    BY <2>2, CoveredAppend
  <2> QED
    BY <2>1, <2>2, <2>3 DEF one
<1>3. CASE taking # {}
  <2> DEFINE j == CHOOSE i \in taking : TRUE
             new == [batches EXCEPT ![j] = Append(@, l)]
  <2>1. Put(rule, batches, l) = new
    BY <1>3 DEF Put
  <2>2. j \in DOMAIN batches /\ batches[j] \in Seq(E)
    BY <1>3
  <2> HIDE DEF j
  <2>3. /\ DOMAIN new = DOMAIN batches
        /\ new[j] = Append(batches[j], l)
        /\ \A i \in DOMAIN batches : i # j => new[i] = batches[i]
    BY <2>2
  <2>4. new \in Seq(Seq(E))
    BY <1>1, <2>2
  <2> HIDE DEF new
  <2>5. Range(new[j]) = Range(batches[j]) \cup {l}
    BY <1>1, <2>2, <2>3
  <2>6. Covered(new) = Covered(batches) \cup {l}
    BY <2>2, <2>3, <2>5 DEF Covered
  <2> QED
    BY <2>1, <2>4, <2>6
<1> QED
  BY <1>2, <1>3

\* Each job is in a batch, and no other.
LEMMA DividedCovers ==
    ASSUME NEW E, NEW jobs \in Seq(E), NEW rule
    PROVE  /\ Divided(rule, jobs) \in Seq(Seq(E))
           /\ Covered(Divided(rule, jobs)) = Range(jobs)
<1> DEFINE N == Len(jobs)
           V == Seq(Seq(E))
           step == [i \in 1..N |-> [v \in V |-> Put(rule, v, jobs[i])]]
           raw(g) == g = [s \in SUBSET (1..N) |->
                             IF s = {} THEN <<>> ELSE Put(rule, g[s \ {Max(s)}], jobs[Max(s)])]
           iter == CHOOSE g : raw(g)
<1>0. N \in Nat /\ DOMAIN jobs = 1..N /\ <<>> \in V /\ \A i \in 1..N : jobs[i] \in E
  OBVIOUS
<1>1. step \in [1..N -> [V -> V]]
  BY <1>0, PutCovers
<1>2. Divided(rule, jobs) = iter[1..N]
  BY <1>0 DEF Divided, FoldLeft, MapThenFoldSet
<1>3. \A s \in SUBSET (1..N) : s # {} => Max(s) \in 1..N /\ s \ {Max(s)} \in SUBSET (1..N)
  BY <1>0, GreatestNumber
<1>4. PICK g : Folds(g, N, V, <<>>, step)
  <2> HIDE DEF step, N, V
  <2> QED BY <1>0, <1>1, FoldExists
<1>5. raw(g)
  <2>1. \A s \in SUBSET (1..N) :
           g[s] = IF s = {} THEN <<>> ELSE Put(rule, g[s \ {Max(s)}], jobs[Max(s)])
    BY <1>3, <1>4 DEF Folds
  <2> HIDE DEF N
  <2> QED BY <1>4, <2>1 DEF Folds
<1>6. raw(iter)
  <2> HIDE DEF raw
  <2> QED BY <1>5
<1>7. FoldSteps(iter, N, V, <<>>, step)
  <2> HIDE DEF iter
  <2> QED BY <1>3, <1>6 DEF FoldSteps
<1>8. PICK h : Chain(h, N, V, <<>>, step) /\ h[N] = iter[1..N]
  <2> HIDE DEF step, N, V, iter
  <2> QED BY <1>0, <1>1, <1>7, FoldChain
<1> DEFINE c == [k \in 0..N |-> Covered(h[k])]
           a == [k \in 1..N |-> {jobs[k]}]
<1>9. c[0] = {}
  <2>1. c[0] = Covered(<<>>)
    BY <1>0, <1>8 DEF Chain
  <2>2. Covered(<<>>) = {}
    BY DEF Covered
  <2> QED BY <2>1, <2>2
<1>10. ASSUME NEW k \in 1..N
       PROVE  c[k] = c[k - 1] \cup a[k]
  <2>1. k - 1 \in 0..N /\ k \in 0..N /\ jobs[k] \in E
    BY <1>0
  <2>2. h[k] = Put(rule, h[k - 1], jobs[k]) /\ h[k - 1] \in Seq(Seq(E))
    BY <1>8, <2>1 DEF Chain
  <2>3. Covered(Put(rule, h[k - 1], jobs[k])) = Covered(h[k - 1]) \cup {jobs[k]}
    BY <2>1, <2>2, PutCovers
  <2> QED
    BY <2>1, <2>2, <2>3
<1>11. c[N] = UNION {a[k] : k \in 1..N}
  <2> HIDE DEF c, a, N
  <2>1. Growth(c, a, N)
    BY <1>9, <1>10 DEF Growth
  <2> QED BY <1>0, <2>1, UnionOfSteps
<1>12. Covered(h[N]) = Range(jobs)
  BY <1>0, <1>11 DEF Range
<1>13. h[N] \in Seq(Seq(E))
  BY <1>0, <1>8 DEF Chain
<1> QED
  BY <1>2, <1>8, <1>12, <1>13

\* Batches after others.
LEMMA CoveredConcat ==
    ASSUME NEW E, NEW b \in Seq(Seq(E)), NEW d \in Seq(Seq(E))
    PROVE  /\ b \o d \in Seq(Seq(E))
           /\ Covered(b \o d) = Covered(b) \cup Covered(d)
<1> DEFINE n == b \o d
<1>1. /\ n \in Seq(Seq(E))
      /\ Len(n) = Len(b) + Len(d)
      /\ Len(b) \in Nat /\ Len(d) \in Nat
      /\ DOMAIN n = 1..Len(n) /\ DOMAIN b = 1..Len(b) /\ DOMAIN d = 1..Len(d)
  OBVIOUS
<1>2. \A i \in DOMAIN b : i \in DOMAIN n /\ n[i] = b[i]
  BY <1>1
<1>3. \A i \in DOMAIN d : Len(b) + i \in DOMAIN n /\ n[Len(b) + i] = d[i]
  BY <1>1
<1>4. ASSUME NEW i \in DOMAIN n, i \notin DOMAIN b
      PROVE  \E j \in DOMAIN d : n[i] = d[j]
  <2>1. i - Len(b) \in DOMAIN d /\ Len(b) + (i - Len(b)) = i
    BY <1>1, <1>4
  <2> HIDE DEF n
  <2> QED BY <1>3, <2>1
<1> HIDE DEF n
<1>5. Covered(n) \subseteq Covered(b) \cup Covered(d)
  BY <1>2, <1>4 DEF Covered
<1>6. Covered(b) \cup Covered(d) \subseteq Covered(n)
  BY <1>2, <1>3 DEF Covered
<1> QED
  BY <1>1, <1>5, <1>6 DEF n

\* Dividing the batches of a sequence neither loses a job nor makes one up.
LEMMA RefinedCovers ==
    ASSUME NEW E, NEW batches \in Seq(Seq(E)), NEW rule
    PROVE  /\ Refined(rule, batches) \in Seq(Seq(E))
           /\ Covered(Refined(rule, batches)) = Covered(batches)
<1> DEFINE N == Len(batches)
           V == Seq(Seq(E))
           step == [i \in 1..N |-> [v \in V |-> v \o Divided(rule, batches[i])]]
           raw(g) == g = [s \in SUBSET (1..N) |->
                             IF s = {} THEN <<>>
                             ELSE g[s \ {Max(s)}] \o Divided(rule, batches[Max(s)])]
           iter == CHOOSE g : raw(g)
<1>0. N \in Nat /\ DOMAIN batches = 1..N /\ <<>> \in V /\ \A i \in 1..N : batches[i] \in Seq(E)
  OBVIOUS
<1>1. ASSUME NEW i \in 1..N
      PROVE  Divided(rule, batches[i]) \in V /\ Covered(Divided(rule, batches[i])) = Range(batches[i])
  BY <1>0, DividedCovers
<1>2. step \in [1..N -> [V -> V]]
  BY <1>1, CoveredConcat
<1>3. Refined(rule, batches) = iter[1..N]
  BY <1>0 DEF Refined, FoldLeft, MapThenFoldSet
<1>4. \A s \in SUBSET (1..N) : s # {} => Max(s) \in 1..N /\ s \ {Max(s)} \in SUBSET (1..N)
  BY <1>0, GreatestNumber
<1>5. PICK g : Folds(g, N, V, <<>>, step)
  <2> HIDE DEF step, N, V
  <2> QED BY <1>0, <1>2, FoldExists
<1>6. raw(g)
  <2>1. \A s \in SUBSET (1..N) :
           g[s] = IF s = {} THEN <<>> ELSE g[s \ {Max(s)}] \o Divided(rule, batches[Max(s)])
    BY <1>4, <1>5 DEF Folds
  <2> HIDE DEF N
  <2> QED BY <1>5, <2>1 DEF Folds
<1>7. raw(iter)
  <2> HIDE DEF raw
  <2> QED BY <1>6
<1>8. FoldSteps(iter, N, V, <<>>, step)
  <2> HIDE DEF iter
  <2> QED BY <1>4, <1>7 DEF FoldSteps
<1>9. PICK h : Chain(h, N, V, <<>>, step) /\ h[N] = iter[1..N]
  <2> HIDE DEF step, N, V, iter
  <2> QED BY <1>0, <1>2, <1>8, FoldChain
<1> DEFINE c == [k \in 0..N |-> Covered(h[k])]
           a == [k \in 1..N |-> Range(batches[k])]
<1>10. c[0] = {}
  <2>1. c[0] = Covered(<<>>)
    BY <1>0, <1>9 DEF Chain
  <2>2. Covered(<<>>) = {}
    BY DEF Covered
  <2> QED BY <2>1, <2>2
<1>11. ASSUME NEW k \in 1..N
       PROVE  c[k] = c[k - 1] \cup a[k]
  <2>1. k - 1 \in 0..N /\ k \in 0..N
    BY <1>0
  <2>2. h[k] = h[k - 1] \o Divided(rule, batches[k]) /\ h[k - 1] \in Seq(Seq(E))
    BY <1>9, <2>1 DEF Chain
  <2>3. Covered(h[k - 1] \o Divided(rule, batches[k])) = Covered(h[k - 1]) \cup Range(batches[k])
    BY <1>1, <2>2, CoveredConcat
  <2> QED
    BY <2>1, <2>2, <2>3
<1>12. c[N] = UNION {a[k] : k \in 1..N}
  <2> HIDE DEF c, a, N
  <2>1. Growth(c, a, N)
    BY <1>10, <1>11 DEF Growth
  <2> QED BY <1>0, <2>1, UnionOfSteps
<1>13. Covered(h[N]) = Covered(batches)
  BY <1>0, <1>12 DEF Covered
<1>14. h[N] \in Seq(Seq(E))
  BY <1>0, <1>9 DEF Chain
<1> QED
  BY <1>3, <1>9, <1>13, <1>14

\* The filter asks about every job that it selected, and about no other.
LEMMA BatchesCover ==
    ASSUME NEW E, NEW jobs \in Seq(E)
    PROVE  /\ Batches(jobs) \in Seq(Seq(E))
           /\ Covered(Batches(jobs)) = Range(jobs)
<1>1. /\ Divided("source", jobs) \in Seq(Seq(E))
      /\ Covered(Divided("source", jobs)) = Range(jobs)
  BY DividedCovers
<1>2. /\ Refined("number", Divided("source", jobs)) \in Seq(Seq(E))
      /\ Covered(Refined("number", Divided("source", jobs))) = Range(jobs)
  BY <1>1, RefinedCovers
<1> QED
  BY <1>2, RefinedCovers DEF Batches

-----------------------------------------------------------------------------
(* What the filter asks.                                                   *)

\* Of the jobs that the filter asks about each is in a batch that is still open, kept
\* or judged not to match; the open batches have no other.
Asking ==
    /\ filter.works \in BOOLEAN
    /\ filter.kept \subseteq Listings
    /\ filter.against \subseteq Listings
    /\ filter.open \in Seq(Seq(filter.asked))
    /\ filter.asked \subseteq filter.kept \cup filter.against \cup Covered(filter.open)

\* No filter asks nothing.
LEMMA NoFilterAsks == filter' = NoFilterRuns => Asking'
BY DEF NoFilterRuns, Asking, Covered

\* A filter that begins has all of its jobs in batches.
LEMMA BeginAsks ==
    ASSUME NEW S \in SUBSET Listings, NEW T \in SUBSET S, NEW order \in SetToSeqs(T),
           NEW works \in BOOLEAN, filter' = FilterOf(S, order, works)
    PROVE  Asking'
<1>1. Cardinality(T) \in Nat
  BY FS_Subset, FS_CardinalityType, CandidateCacheAssumption
<1>2. order \in Seq(Range(order))
  <2>1. order \in [1..Cardinality(T) -> Range(order)]
    BY DEF SetToSeqs, Range
  <2> QED
    BY <1>1, <2>1
<1>3. CASE works
  <2>1. /\ filter'.works = works \/ order = <<>>
        /\ filter'.kept = {} /\ filter'.against = {}
        /\ filter'.asked = Range(order)
        /\ filter'.open = Batches(order)
    BY <1>3 DEF FilterOf, NoFilterRuns
  <2>2. Batches(order) \in Seq(Seq(Range(order))) /\ Covered(Batches(order)) = Range(order)
    BY <1>2, BatchesCover
  <2> QED
    BY <1>3, <2>1, <2>2 DEF Asking, FilterOf, NoFilterRuns
<1>4. CASE ~works
  BY <1>4 DEF FilterOf, NoFilterRuns, Asking, Covered
<1> QED
  BY <1>3, <1>4

\* The first of some batches and the others.
LEMMA CoveredHead ==
    ASSUME NEW E, NEW batches \in Seq(Seq(E)), batches # <<>>
    PROVE  /\ Head(batches) \in Seq(E)
           /\ Tail(batches) \in Seq(Seq(E))
           /\ Covered(batches) = Range(Head(batches)) \cup Covered(Tail(batches))
<1> DEFINE t == Tail(batches)
<1>1. /\ Head(batches) = batches[1] /\ 1 \in DOMAIN batches
      /\ Len(batches) \in Nat /\ DOMAIN batches = 1..Len(batches)
      /\ Len(t) = Len(batches) - 1 /\ DOMAIN t = 1..Len(t)
      /\ \A i \in 1..Len(t) : t[i] = batches[i + 1]
      /\ t \in Seq(Seq(E))
  OBVIOUS
<1> HIDE DEF t
<1>2. \A i \in DOMAIN t : i + 1 \in DOMAIN batches /\ t[i] = batches[i + 1]
  BY <1>1
<1>3. ASSUME NEW i \in DOMAIN batches, i # 1
      PROVE  \E j \in DOMAIN t : batches[i] = t[j]
  <2>1. i - 1 \in DOMAIN t /\ (i - 1) + 1 = i
    BY <1>1, <1>3
  <2> QED BY <1>1, <2>1
<1>4. Covered(batches) \subseteq Range(Head(batches)) \cup Covered(t)
  BY <1>1, <1>3 DEF Covered
<1>5. Range(Head(batches)) \cup Covered(t) \subseteq Covered(batches)
  BY <1>1, <1>2 DEF Covered
<1> QED
  BY <1>1, <1>4, <1>5 DEF t

\* A reply to some of the jobs of the first batch.
LEMMA AppliedAsks ==
    ASSUME FilterShape, Asking, filter.open # <<>>,
           NEW R \in SUBSET Range(Head(filter.open)), NEW reply \in [R -> BOOLEAN]
    PROVE  LET f == Applied(reply)
           IN  /\ f.works = filter.works
               /\ f.asked = filter.asked
               /\ f.open = Tail(filter.open)
               /\ f.kept \subseteq Listings /\ f.against \subseteq Listings
               /\ f.kept \cup f.against = filter.kept \cup filter.against \cup R
               /\ DOMAIN f = DOMAIN filter
<1>1. R \subseteq filter.asked
  BY CoveredHead DEF Asking, Range
<1>2. /\ Applied(reply).works = filter.works
      /\ Applied(reply).asked = filter.asked
      /\ Applied(reply).open = Tail(filter.open)
      /\ Applied(reply).kept = filter.kept \cup {l \in R : reply[l]}
      /\ Applied(reply).against = filter.against \cup {l \in R : ~reply[l]}
      /\ DOMAIN Applied(reply) = DOMAIN filter
  BY DEF Applied, FilterShape
<1> QED
  BY <1>1, <1>2 DEF Asking, FilterShape

\* The jobs of a batch one by one.
LEMMA SinglesCover ==
    ASSUME NEW E, NEW batch \in Seq(E)
    PROVE  LET singles == [i \in DOMAIN batch |-> <<batch[i]>>]
           IN  singles \in Seq(Seq(E)) /\ Covered(singles) = Range(batch)
<1> DEFINE singles == [i \in DOMAIN batch |-> <<batch[i]>>]
<1>1. \A l : Range(<<l>>) = {l}
  BY DEF Range
<1>2. \A i \in DOMAIN batch : singles[i] \in Seq(E) /\ Range(singles[i]) = {batch[i]}
  BY <1>1
<1>3. DOMAIN singles = DOMAIN batch /\ DOMAIN batch = 1..Len(batch) /\ Len(batch) \in Nat
  OBVIOUS
<1>4. singles \in Seq(Seq(E))
  <2>1. singles \in [1..Len(batch) -> Seq(E)]
    BY <1>2, <1>3
  <2> HIDE DEF singles
  <2> QED BY <1>3, <2>1
<1> HIDE DEF singles
<1>5. Covered(singles) = Range(batch)
  <2>1. Range(batch) = {batch[i] : i \in DOMAIN batch}
    BY DEF Range
  <2> QED
    BY <1>2, <1>3, <2>1 DEF Covered
<1> QED
  BY <1>4, <1>5 DEF singles

\* Whatever a reply says or leaves out, a job stays in a batch until it is kept or
\* judged not to match.
LEMMA FilterStepAsks ==
    ASSUME FilterShape, Asking, FilterStep
    PROVE  Asking'
<1> DEFINE batch == Head(filter.open)
<1>1. /\ filter.open # <<>>
      /\ batch \in Seq(filter.asked) /\ Tail(filter.open) \in Seq(Seq(filter.asked))
      /\ Covered(filter.open) = Range(batch) \cup Covered(Tail(filter.open))
  BY CoveredHead DEF FilterStep, Asking
<1>2. ASSUME NEW answer, Len(batch) = 1, AskOne(answer)
      PROVE  Asking'
  <2>1. Range(batch) = {batch[1]} /\ batch[1] \in Range(batch)
    BY <1>1, <1>2 DEF Range
  <2> DEFINE R == {batch[1]}
             reply == [asked \in R |-> answer # "reject"]
             f == Applied(reply)
  <2>2. reply \in [R -> BOOLEAN] /\ R \in SUBSET Range(batch)
    BY <2>1
  <2>3. filter' = f
    BY <1>2 DEF AskOne
  <2> HIDE DEF reply, R
  <2>4. /\ f.works = filter.works
        /\ f.asked = filter.asked
        /\ f.open = Tail(filter.open)
        /\ f.kept \subseteq Listings /\ f.against \subseteq Listings
        /\ f.kept \cup f.against = filter.kept \cup filter.against \cup R
    BY <1>1, <2>2, AppliedAsks
  <2>5. R = Range(batch)
    BY <2>1 DEF R
  <2> HIDE DEF f, batch
  <2> QED
    BY <1>1, <2>3, <2>4, <2>5 DEF Asking
<1>3. ASSUME NEW reply \in Replies(batch), AskBatch(reply)
      PROVE  Asking'
  <2> DEFINE R == Reached(batch, reply)
             told == [l \in R |-> reply[l]]
  <2>1. PICK Q \in SUBSET Range(batch) : reply \in [Q -> BOOLEAN]
    BY <1>3 DEF Replies
  <2>2. R \subseteq Q
    <3>1. ASSUME NEW i \in DOMAIN batch, \A k \in 1..i : batch[k] \in DOMAIN reply
          PROVE  batch[i] \in Q
      <4>1. i \in 1..i
        BY <1>1
      <4> QED BY <2>1, <3>1, <4>1
    <3> QED BY <3>1 DEF Reached
  <2>3. R \in SUBSET Range(batch) /\ told \in [R -> BOOLEAN] /\ DOMAIN told = R
    BY <2>1, <2>2
  <2> DEFINE f == Applied(told)
  <2> HIDE DEF told, R
  <2>4. /\ f.works = filter.works
        /\ f.asked = filter.asked
        /\ f.open = Tail(filter.open)
        /\ f.kept \subseteq Listings /\ f.against \subseteq Listings
        /\ f.kept \cup f.against = filter.kept \cup filter.against \cup R
        /\ DOMAIN f = DOMAIN filter
    BY <1>1, <2>3, AppliedAsks
  <2>5. CASE R = Range(batch)
    <3>1. filter' = f
      BY <1>3, <2>3, <2>5 DEF AskBatch, told, R
    <3> HIDE DEF f, batch
    <3> QED
      BY <1>1, <2>4, <2>5, <3>1 DEF Asking
  <2>6. CASE R # Range(batch)
    <3> DEFINE singles == [i \in DOMAIN batch |-> <<batch[i]>>]
    <3>1. filter' = Again(f, batch)
      BY <1>3, <2>3, <2>6 DEF AskBatch, told, R
    <3> HIDE DEF f
    <3>2. filter' = [f EXCEPT !.open = singles \o f.open]
      BY <3>1 DEF Again
    <3>3. singles \in Seq(Seq(filter.asked)) /\ Covered(singles) = Range(batch)
      BY <1>1, SinglesCover
    <3> HIDE DEF singles, batch
    <3>4. /\ filter'.works = filter.works
          /\ filter'.asked = filter.asked
          /\ filter'.open = singles \o Tail(filter.open)
          /\ filter'.kept = f.kept /\ filter'.against = f.against
      BY <2>4, <3>2 DEF FilterShape
    <3>5. /\ filter'.open \in Seq(Seq(filter.asked))
          /\ Covered(filter'.open) = Range(batch) \cup Covered(Tail(filter.open))
      <4> DEFINE rest == Tail(filter.open)
                 E == filter.asked
      <4>1. singles \in Seq(Seq(E)) /\ rest \in Seq(Seq(E))
        BY <1>1, <3>3
      <4> HIDE DEF rest, E
      <4>2. /\ singles \o rest \in Seq(Seq(E))
            /\ Covered(singles \o rest) = Covered(singles) \cup Covered(rest)
        BY <4>1, CoveredConcat
      <4> QED
        BY <3>3, <3>4, <4>2 DEF rest, E
    <3> QED
      BY <1>1, <2>4, <3>4, <3>5 DEF Asking
  <2> QED
    BY <2>5, <2>6
<1> QED
  BY <1>2, <1>3 DEF FilterStep

\* The review accounts for what was read and for what was passed over.
Accounted ==
    /\ results.found \subseteq Explained
    /\ \A l \in results.repeated : \E m \in Listings :
          Caption[m] = Caption[l] /\ {m, Elsewhere[m]} \cap Explained # {}

\* It goes on to when what is explained grows, or gives way to what was read.
LEMMA AccountedLater ==
    ASSUME results \in ResultLists, Accounted, Explained \subseteq Explained',
           results'.found \subseteq Explained', results'.repeated = results.repeated
    PROVE  Accounted'
BY DEF Accounted

\* Lists that grow, and lists of which some is kept, account for what was found.
LEMMA AddedAccounts ==
    ASSUME results \in ResultLists, Accounted, NEW S, NEW F, NEW O, Added(S, F, O, {})
    PROVE  Accounted'
<1>1. /\ Explained' = Explained \cup S \cup F \cup O
      /\ results'.found = results.found \cup S \cup F \cup O
      /\ results'.repeated = results.repeated
  BY DEF Added, Explained
<1> QED
  BY <1>1, AccountedLater DEF Accounted

\* So do lists of which some is kept.
LEMMA KeepAccounts ==
    ASSUME results \in ResultLists, Accounted, NEW S, NEW O, NEW text, Keep(S, O, text)
    PROVE  Accounted'
<1>1. Explained \subseteq Explained' /\ UNCHANGED <<results.found, results.repeated>>
  BY DEF Keep, Explained, ResultLists
<1> QED
  BY <1>1, AccountedLater DEF Accounted

\* So does a review that is offered or not.
LEMMA OfferAccounts ==
    ASSUME results \in ResultLists, Accounted, NEW S, NEW O, Offered(S, O)
    PROVE  Accounted'
<1>1. CASE results' = NoResults
  BY <1>1 DEF NoResults, Accounted, Explained
<1>2. CASE Keep(RemovedExisting(S), O, results.text)
  BY <1>2, KeepAccounts
<1> QED
  BY <1>1, <1>2 DEF Offered

\* So does a probe: each candidate that it passes over has one of the same company and
\* title that it does not, which is known to be rejected or is read.
LEMMA ProbeAccounts ==
    ASSUME results \in ResultLists, Accounted, NEW t \in Tasks, NEW S \in SUBSET Posted[t],
           NEW K \in SUBSET S, NEW R \in SUBSET K, Probe(t, S, K, R)
    PROVE  Accounted'
<1> DEFINE first == K \ R
           known == Known(first)
<1>1. PICK moved \in SUBSET (first \ known) :
         \E nameless \in SUBSET Arrived(first \ known, moved) :
            Probed(Arrived(first \ known, moved), nameless, known, R)
  BY DEF Probe, Probed
<1> DEFINE read == Arrived(first \ known, moved)
<1>2. PICK nameless \in SUBSET read : Probed(read, nameless, known, R)
  BY <1>1
<1>3. \A l \in R : \E m \in first : Caption[m] = Caption[l]
  BY DEF Probe
<1>4. \A m \in first : m \in known \/ {m, Elsewhere[m]} \cap read # {}
  BY DEF Arrived
<1>5. first \subseteq Listings
  BY SiteSearchAssumption
<1> HIDE DEF first, known, read
<1>6. /\ Explained' = Explained \cup known \cup read
      /\ results'.found = results.found \cup known \cup read
      /\ results'.repeated = results.repeated \cup R
  <2>1. Fitting(read \ nameless) \subseteq read
    BY DEF Fitting
  <2> QED
    BY <1>2, <2>1 DEF Probed, Report, Added, Explained
<1>7. results'.found \subseteq Explained'
  BY <1>6 DEF Accounted
<1>8. ASSUME NEW l \in results'.repeated
      PROVE  \E m \in Listings : Caption[m] = Caption[l] /\ {m, Elsewhere[m]} \cap Explained' # {}
  <2>1. CASE l \in results.repeated
    BY <1>6, <2>1 DEF Accounted
  <2>2. CASE l \in R
    <3>1. PICK m \in first : Caption[m] = Caption[l]
      BY <1>3, <2>2
    <3>2. {m, Elsewhere[m]} \cap Explained' # {}
      BY <1>4, <1>6, <3>1
    <3> QED
      BY <1>5, <3>1, <3>2
  <2> QED
    BY <1>6, <1>8, <2>1, <2>2
<1> QED
  BY <1>7, <1>8 DEF Accounted

\* And a step of the searches.
LEMMA SiteStepAccounts ==
    ASSUME results \in ResultLists, Accounted, SiteStep
    PROVE  Accounted'
<1>1. ASSUME UNCHANGED results PROVE Accounted'
  BY <1>1 DEF Accounted, Explained
<1>2. ASSUME NEW S, NEW F, NEW O, Report(S, F, O, {}) PROVE Accounted'
  BY <1>2, AddedAccounts DEF Report
<1>3. ASSUME NEW t, NEW S, NEW K, ReadCards(t, S, K) PROVE Accounted'
  BY <1>2, <1>3 DEF ReadCards
<1>4. ASSUME NEW t, NEW S, NEW K, NEW R, ReadLinks(t, S, K, R) PROVE Accounted'
  BY <1>2, <1>4 DEF ReadLinks
<1>5. ASSUME NEW t \in Tasks, NEW S \in SUBSET Posted[t], NEW K \in SUBSET S,
             NEW R \in SUBSET K, Probe(t, S, K, R)
      PROVE  Accounted'
  BY <1>5, ProbeAccounts
<1>6. ASSUME NEW t, \/ StartTask(t) \/ PageFails(t) \/ GetBrowser(t) \/ GiveUp(t)
                    \/ ProbeIsBlocked(t) \/ ProfilesDone(t)
                    \/ \E p : AskProfile(t, p) \/ ShareProfile(t, p)
      PROVE  Accounted'
  BY <1>1, <1>6 DEF StartTask, PageFails, GetBrowser, GiveUp, ProbeIsBlocked, ProfilesDone,
                    AskProfile, ShareProfile
<1>7. ASSUME NEW p, ProfileSlot(p) \/ ProfileAnswers(p) PROVE Accounted'
  BY <1>1, <1>7 DEF ProfileSlot, ProfileAnswers
<1> QED
  BY <1>3, <1>4, <1>5, <1>6, <1>7 DEF SiteStep, TaskStep

\* A step of a fetch leaves no job unexplained.
FetchAccounts == FetchTypes /\ Asking /\ Accounted

\* Each step explains what it drops.
LEMMA AccountsStep ==
    ASSUME FetchAccounts, [Next]_vars
    PROVE  FetchAccounts'
<1>1. FetchTypes'
  BY FetchStepTypes, OtherStepTypes, StutterTypes DEF Next, FetchAccounts
<1>2. results \in ResultLists
  BY DEF FetchAccounts, FetchTypes, SiteTypeOK, ResultLists
<1>3. ASSUME UNCHANGED filter, Accounted'
      PROVE  FetchAccounts'
  BY <1>1, <1>3 DEF FetchAccounts, Asking
<1>4. ASSUME UNCHANGED <<results, filter>>
      PROVE  FetchAccounts'
  BY <1>3, <1>4 DEF FetchAccounts, Accounted, Explained
<1>5. ASSUME results' = NoResults, UNCHANGED filter \/ filter' = NoFilterRuns
      PROVE  FetchAccounts'
  <2>1. Accounted'
    BY <1>5 DEF NoResults, Accounted, Explained
  <2> QED
    BY <1>1, <1>3, <1>5, <2>1, NoFilterAsks DEF FetchAccounts
<1>6. CASE \/ \E S, invalid : AskModel(S, invalid) \/ AskModelWeb(S, invalid)
           \/ \E f, S, invalid : ReadFeed(f, S, invalid)
  <2>1. PICK S, F, O : Added(S, F, O, {})
    BY <1>6 DEF AskModel, AskModelWeb, ReadFeed
  <2>2. UNCHANGED filter
    BY <1>6 DEF AskModel, AskModelWeb, ReadFeed
  <2> QED
    BY <1>2, <1>3, <2>1, <2>2, AddedAccounts DEF FetchAccounts
<1>7. CASE Search
  BY <1>2, <1>3, <1>7, SiteStepAccounts DEF Search, FetchAccounts
<1>8. ASSUME NEW strangers, NEW D, NEW E, Finalize(strangers, D, E)
      PROVE  FetchAccounts'
  <2>1. PICK text : Keep(E, {}, text)
    BY <1>8 DEF Finalize
  <2> QED
    BY <1>2, <1>3, <1>8, <2>1, KeepAccounts DEF Finalize, FetchAccounts
<1>9. ASSUME NEW works \in BOOLEAN, BeginFilter(works)
      PROVE  FetchAccounts'
  <2> DEFINE before == results.kept \ JudgedBefore
             asked == {l \in before : NeedsReview(l, run.search, results.text)}
  <2>1. PICK order \in SetToSeqs(asked) : filter' = FilterOf(before, order, works)
    BY <1>9 DEF BeginFilter
  <2>2. before \in SUBSET Listings /\ asked \in SUBSET before
    BY <1>2 DEF ResultLists
  <2>3. Asking'
    <3> HIDE DEF before, asked
    <3> QED
      BY <2>1, <2>2, BeginAsks
  <2> QED
    BY <1>1, <1>9, <2>3 DEF BeginFilter, FetchAccounts, Accounted, Explained
<1>10. CASE AskFilter
  <2>1. Asking'
    BY <1>10, FilterStepAsks DEF AskFilter, FetchAccounts, FetchTypes
  <2> QED
    BY <1>1, <1>10, <2>1 DEF AskFilter, FetchAccounts, Accounted, Explained
<1>11. CASE EndFilter
  <2>1. PICK S, O : Offered(S, O)
    BY <1>11 DEF EndFilter
  <2> QED
    BY <1>1, <1>2, <1>11, <2>1, OfferAccounts, NoFilterAsks DEF EndFilter, FetchAccounts
<1>12. CASE NoFilter
  <2>1. PICK S, O : Offered(S, O)
    BY <1>12 DEF NoFilter
  <2> QED
    BY <1>2, <1>3, <1>12, <2>1, OfferAccounts DEF NoFilter, FetchAccounts
<1>13. CASE Accept \/ Dismiss \/ Restart
  BY <1>5, <1>13 DEF Accept, Dismiss, Restart, Ended
<1>14. CASE \/ \E s, company : StartFetch(s, company)
            \/ Timeout
            \/ \E k : EditList(k)
            \/ \E k, text : RecordCandidate(k, text)
            \/ UNCHANGED vars
  BY <1>4, <1>14 DEF StartFetch, Timeout, EditList, RecordCandidate, vars
<1> QED
  BY <1>6, <1>7, <1>8, <1>9, <1>10, <1>11, <1>12, <1>13, <1>14 DEF Next, FetchStep, UserStep

\* It begins without one.
LEMMA InitAccounts == Init => FetchAccounts
<1> SUFFICES ASSUME Init PROVE FetchAccounts
  OBVIOUS
<1>1. Asking /\ Accounted
  BY DEF Init, NoFilterRuns, NoResults, Asking, Accounted, Explained, Covered
<1> QED
  BY <1>1, InitTypes DEF FetchAccounts

\* Every variable of a fetch, of its searches, of the filter and of the cache keeps its
\* type, for any sources, listings, configurations and limits; an open batch of the filter
\* has no job but those that were selected for it.
THEOREM TypeCorrectness == Spec => []TypeOK
<1> DEFINE ShownTypeOK == shown \subseteq Listings \X Searches
<1>1. FetchAccounts /\ ShownTypeOK => TypeOK
  BY DEF FetchAccounts, FetchTypes, FilterShape, Asking, TypeOK, FilterTypeOK, Range
<1>2. Init => ShownTypeOK
  BY DEF Init
<1>3. ASSUME ShownTypeOK, FetchAccounts', [Next]_vars
      PROVE  ShownTypeOK'
  <2>1. results'.found \subseteq Listings /\ run'.search \in Searches
    BY <1>3 DEF FetchAccounts, FetchTypes, SiteTypeOK
  <2>2. shown' = shown \/ shown' = shown \cup (results'.found \X {run'.search})
    BY <1>3 DEF Next, Remember, vars
  <2> QED
    BY <1>3, <2>1, <2>2
<1> QED
  BY InitAccounts, AccountsStep, <1>1, <1>2, <1>3, PTL DEF Spec

\* A review accounts for every listing that was read, and what the filter drops was
\* judged not to match, whatever the batches, the sizes of prompts and the replies.
THEOREM NothingUnexplainedTheorem == Spec => []NothingUnexplained
<1>1. FetchAccounts => NothingUnexplained
  BY DEF FetchAccounts, Accounted, Asking, NothingUnexplained, Dropped, Covered
<1> QED
  BY InitAccounts, AccountsStep, <1>1, PTL DEF Spec

=============================================================================
