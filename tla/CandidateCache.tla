--------------------------- MODULE CandidateCache ---------------------------
(***************************************************************************)
(* The candidate cache (internal/fetcher/candidate_cache.go and the tables *)
(* of candidates and decisions in internal/storage/sqlite_store.go): what  *)
(* was decided about a posting under given criteria, kept from one fetch   *)
(* to the next.                                                            *)
(*                                                                         *)
(* A listing is a posting as one source shows it; listings of one posting  *)
(* share a key (fetchedJobDedupeKey) and may differ in their details.  A   *)
(* search is the criteria a fetch filters by, Unfiltered for the openings  *)
(* of a company whatever the criteria.  Of the details that the row of a   *)
(* posting keeps for later listings only the description is modelled.      *)
(***************************************************************************)
EXTENDS Naturals, FiniteSets, Functions

CONSTANTS
    Listings,  \* the listings on the net
    KeyOf,     \* per listing: the key of its posting
    Criteria,  \* criteria the user may search by
    Fits,      \* per criteria: the listings that pass the deterministic filter
    Description \* per listing: what it says of the job, one of Texts

Unfiltered == "unfiltered"
Texts == {"none", "short", "long"}
Searches == Criteria \cup {Unfiltered}
Keys == {KeyOf[l] : l \in Listings}

\* fetchedJobDedupeKey (mutant: each listing is a posting of its own).
OwnKeys(S) == S
KeysOf(S) == {KeyOf[l] : l \in S}

ASSUME CandidateCacheAssumption ==
    /\ IsFiniteSet(Listings)
    /\ Unfiltered \notin Criteria
    /\ \A c \in Criteria : Fits[c] \subseteq Listings
    /\ Description \in [Listings -> Texts]

\* filterJobReason: the deterministic filter.
Passes(l, s) == s = Unfiltered \/ l \in Fits[s]

\* rows: the description in the row of a posting (job_candidates);
\* rejected: postings rejected by the deterministic filter, per search;
\* judged: postings the language model dropped.  A decision for a posting
\* matters only when it rejects it; an acceptance replaces a rejection.
Caches == [rows: UNION {[K -> Texts] : K \in SUBSET Keys},
           rejected: SUBSET (Keys \X Searches), judged: SUBSET (Keys \X Searches)]

EmptyCache == [rows |-> [k \in {} |-> "none"], rejected |-> {}, judged |-> {}]

\* GetJobCandidate, GetJobCandidateDecision.
HasRow(cache, k) == k \in DOMAIN cache.rows
IsRejected(decisions, k, s) == <<k, s>> \in decisions

\* hydrateJobsFromCandidateCache: a listing that has no description gets that of the
\* row of its posting.
Hydrated(cache, S, text) ==
    [l \in Listings |->
        IF l \in S /\ text[l] = "none" /\ HasRow(cache, KeyOf[l])
        THEN cache.rows[KeyOf[l]] ELSE text[l]]

\* The rows of new take the place of those of old.
Overwritten(old, new) ==
    [k \in DOMAIN new \cup DOMAIN old |-> IF k \in DOMAIN new THEN new[k] ELSE old[k]]

\* UpsertJobCandidates: the row of a posting is replaced by the listing that comes last.
Upserted(cache, S, text) ==
    {[cache EXCEPT !.rows = Overwritten(@, new)] :
        new \in {f \in [KeysOf(S) -> Texts] :
                    \A k \in KeysOf(S) : \E l \in S : KeyOf[l] = k /\ f[k] = text[l]}}

\* A write of S that may fail; writes of S in groups, each of which may fail.
Filed(caches, S, text) == caches \cup UNION {Upserted(c, S, text) : c \in caches}
FiledInPart(caches, S, text) == UNION {Upserted(c, F, text) : c \in caches, F \in SUBSET S}

\* What was found is written first, what was filtered then, reason by reason in any order
\* and as the page showed it; only the strangers, filtered last, were filled like what
\* was found.
Seen(cache, found, filtered, strangers, text) ==
    LET first == Filed({cache}, found, text)
    IN  Filed(FiledInPart(first, filtered, Description), strangers, text)
        \cup FiledInPart(Filed(first, strangers, text), filtered, Description)

\* cachedDeterministicRejectedJob, filterCachedRejectedJobs.
KnownRejects(cache, s, S) == {l \in S : IsRejected(cache.rejected, KeyOf[l], s)}
KnownJudged(cache, s, S) == {l \in S : IsRejected(cache.judged, KeyOf[l], s)}

\* Decisions: S is accepted and R rejected; rejections are written last.
Decided(old, s, S, R) ==
    (old \ {<<k, s>> : k \in KeysOf(S)}) \cup {<<k, s>> : k \in KeysOf(R)}

\* deterministicCandidateDecisionReasons: what was filtered for a reason that
\* depends on the posting and the criteria alone (mutant: for any reason).
AnyReason(failing, other) == failing \cup other
DeterministicReason(failing, other) == failing

\* recordDeterministicCandidateDecisions.
Recorded(cache, s, accepted, failing, other) ==
    [cache EXCEPT !.rejected =
        Decided(@, s, accepted, DeterministicReason(failing, other))]

\* RecordLLMFilterCandidateDecisions.
Judged(cache, s, before, after) ==
    [cache EXCEPT !.judged =
        Decided(@, s, after, {l \in before : KeyOf[l] \notin KeysOf(after)})]

\* upsertJobCandidateDecisions on S and then R: their rows are written before the
\* decisions; a write that fails is only logged.
Stored(cache, new, S, R, text) ==
    {cache} \cup UNION {{w, [new EXCEPT !.rows = w.rows]} :
        w \in UNION {Upserted(c, R, text) : c \in Upserted(cache, S, text)}}

\* RecordAcceptedJobCandidates, RecordInactiveJobCandidates: a job of the list is
\* written by the tasks that enrich or check it.
Refreshed(cache, k, text) == {cache, [cache EXCEPT !.rows = Overwritten(@, [key \in {k} |-> text])]}

\* PruneJobCandidateCache: the rows of postings not seen for the retention time are
\* deleted.  Decisions go with them where the connection enforces foreign keys, which
\* the store asks of one connection of its pool only, and always in memory.
Pruned(cache) ==
    UNION {LET kept == [cache EXCEPT !.rows = Restrict(@, DOMAIN @ \ gone)]
               Without(old) == {d \in old : d[1] \notin gone}
           IN  {kept, [kept EXCEPT !.rejected = Without(@), !.judged = Without(@)]} :
               gone \in SUBSET DOMAIN cache.rows}
=============================================================================
