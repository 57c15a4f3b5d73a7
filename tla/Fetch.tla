------------------------------- MODULE Fetch --------------------------------
(***************************************************************************)
(* A fetch of jobs, from the key to the answered review, and the next      *)
(* fetch with what the cache kept of it: fetchJobsWithOptionsCmd           *)
(* (internal/tuiapp/fetch_flow.go) around                                  *)
(* fetchAllJobsWithCandidateCacheAndScope (internal/fetcher/job_fetcher.go)*)
(* and the filter of module JobFilter.                                     *)
(*                                                                         *)
(* The fetch is one goroutine that asks the language model, then starts    *)
(* the feeds and the site searches (SiteSearch) side by side, and goes     *)
(* through the stages of its end when all have answered.  Meanwhile the    *)
(* user changes the list, the time may run out, and the program may be     *)
(* killed.  The program runs with one configuration, the plan.             *)
(***************************************************************************)
EXTENDS SiteSearch, JobFilter

CONSTANTS
    Feeds,         \* RSS feeds and configured APIs
    Plans,         \* configurations: [tasks, feeds, llm, sources], with bounds on what
                   \* the user does: searches, fetches, and enriches, whether jobs of
                   \* the list are enriched or checked meanwhile
    AcceptedLimit, \* accepted_limit; 0: none
    SavedAtFirst   \* postings that the job list may hold at the start

Asks == {"llm", "web"}

ASSUME FetchAssumption ==
    /\ \A p \in Plans : /\ p.tasks \subseteq Tasks
                        /\ p.feeds \subseteq Feeds
                        /\ {p.llm, p.sources, p.enriches} \subseteq BOOLEAN
                        /\ p.searches \subseteq Searches
                        /\ p.fetches \in Nat
    /\ \A s \in Feeds \cup Asks : Posted[s] \subseteq Listings
    /\ \A s \in Asks \cup Tasks \cup Feeds : \A l \in Posted[s] : Generated(l) <=> s \in Asks
    /\ AcceptedLimit \in Nat
    /\ SavedAtFirst \subseteq Keys

VARIABLES
    plan,   \* the configuration
    runs,   \* fetches started
    phase,  \* stage of the fetch
    feeds,  \* feeds that have not answered
    saved,  \* postings in the job list
    shown   \* listings that were read, each with the search it was read for; a history
            \* that no step depends on

fetchVars == <<cache, run, results, siteVars, plan, runs, phase, feeds, saved, filter>>
vars == <<cache, run, results, siteVars, plan, runs, phase, feeds, saved, filter, shown>>

NoRun == [search |-> Unfiltered, company |-> FALSE, snapshot |-> {}, cancelled |-> FALSE]
NoResults == [found |-> {}, kept |-> {}, failing |-> {}, other |-> {},
              repeated |-> {}, text |-> Description]

\* The fetch works, beside the user.
Fetching == phase \notin {"idle", "offered"}

Init ==
    /\ cache = EmptyCache
    /\ run = NoRun
    /\ results = NoResults
    /\ tasks = [t \in Tasks |-> "off"]
    /\ used = [s \in Sites |-> 0]
    /\ blocked = {}
    /\ browser = "none"
    /\ need = [t \in Tasks |-> {}]
    /\ profiles = [p \in Profiles |-> NoEntry]
    /\ barred = FALSE
    /\ plan \in Plans
    /\ runs = 0
    /\ phase = "idle"
    /\ feeds = {}
    /\ saved \in SUBSET SavedAtFirst
    /\ filter = NoFilterRuns
    /\ shown = {}

-----------------------------------------------------------------------------
(* Start.                                                                  *)

\* The stages that the configuration skips.
SourcesOrFilter == IF plan.sources THEN "sources" ELSE "filter"
FirstStage == IF plan.llm THEN "llm" ELSE SourcesOrFilter

\* The key for a fetch, or the command for the openings of a company, with the
\* user's criteria or all.  Criteria that cannot be loaded filter nothing.  The
\* feeds know nothing of companies.
StartFetch(search, company) ==
    /\ phase = "idle"
    /\ runs < plan.fetches
    /\ search \in plan.searches
    /\ runs' = runs + 1
    /\ cache' \in Pruned(cache) \cup {cache}
    /\ run' = [search |-> search, company |-> company, snapshot |-> saved,
               cancelled |-> FALSE]
    /\ SitesReset(plan.tasks, "none")
    /\ feeds' = IF company THEN {} ELSE plan.feeds
    /\ phase' = FirstStage
    /\ UNCHANGED <<results, plan, saved, filter>>

\* 300 seconds after the start.
Timeout ==
    /\ Fetching
    /\ ~run.cancelled
    /\ run' = [run EXCEPT !.cancelled = TRUE]
    /\ UNCHANGED <<cache, results, siteVars, plan, runs, phase, feeds, saved, filter>>

-----------------------------------------------------------------------------
(* The sources.                                                            *)

\* The model's job search, whose answer is not filtered, or its failure.
AskModel(S, invalid) ==
    /\ phase = "llm"
    /\ invalid \subseteq S
    /\ Added(S \ invalid, {}, invalid, {})
    /\ phase' = "web"
    /\ UNCHANGED <<cache, run, siteVars, plan, runs, feeds, saved, filter>>

\* The model's web search: filtered before companies are looked up.
AskModelWeb(S, invalid) ==
    /\ phase = "web"
    /\ invalid \subseteq Fitting(S)
    /\ Added(Fitting(S) \ invalid, S \ Fitting(S), invalid, {})
    /\ phase' = SourcesOrFilter
    /\ UNCHANGED <<cache, run, siteVars, plan, runs, feeds, saved, filter>>

ReadFeed(f, S, invalid) ==
    /\ phase = "sources"
    /\ f \in feeds
    /\ feeds' = feeds \ {f}
    /\ invalid \subseteq Fitting(S)
    /\ Added(Fitting(S) \ invalid, S \ Fitting(S), invalid, {})
    /\ UNCHANGED <<cache, run, siteVars, plan, runs, phase, saved, filter>>

Search ==
    /\ phase = "sources"
    /\ SiteStep
    /\ UNCHANGED <<plan, runs, phase, feeds, saved, filter>>

-----------------------------------------------------------------------------
(* The end of the fetch.                                                   *)

\* S becomes what is kept; the rest and O are explained (mutant: they are not).
KeepSilently(S, O, text) == results' = [results EXCEPT !.kept = S, !.text = text]
Keep(S, O, text) ==
    results' = [results EXCEPT !.kept = S, !.other = @ \cup (results.kept \ S) \cup O, !.text = text]

\* skipExistingFetchedJobs, against the list when the fetch began.
Unsaved(S) == {l \in S : KeyOf[l] \notin run.snapshot}

\* dedupeFetchedJobs: one listing of each posting (mutant: all).
Undeduped(S) == {S}
Deduped(S) == {D \in SUBSET S : KeysOf(D) = KeysOf(S) /\ Cardinality(D) = Cardinality(KeysOf(S))}

\* capAcceptedFetchedJobs.
Capped(S) == {D \in SUBSET S : Cardinality(D) =
                 IF AcceptedLimit = 0 THEN Cardinality(S)
                 ELSE AtMost(Cardinality(S), AcceptedLimit)}

\* All sources answered.  Descriptions are filled from the cache.  A fetch for a
\* company keeps what is the company's; all is written to the cache; what that rejects
\* is left out; the decisions are written; then saved postings, repetitions and what
\* exceeds the limit are left out.  The cache cannot be used when the time is over.
Finalize(strangers, D, E) ==
    /\ phase = "sources"
    /\ feeds = {}
    /\ SitesDone
    /\ strangers \subseteq results.kept
    /\ run.company \/ strangers = {}
    /\ LET text == IF run.cancelled THEN results.text
                   ELSE Hydrated(cache, results.kept, results.text)
           own == results.kept \ strangers
           fresh == own \ Known(own)
           filtered == results.failing \cup results.other
           Decisions(c) == Recorded(c, run.search, fresh, results.failing,
                                    results.other \cup strangers \cup Known(own))
       IN  /\ D \in Deduped(Unsaved(fresh))
           /\ E \in Capped(D)
           /\ Keep(E, {}, text)
           /\ cache' \in IF run.cancelled THEN {cache}
                         ELSE UNION {Stored(c, Decisions(c), fresh, results.failing, text) :
                                        c \in Seen(cache, own, filtered, strangers, text)}
    /\ SitesReset({}, CloseBrowser)
    /\ phase' = "filter"
    /\ UNCHANGED <<run, plan, runs, feeds, saved, filter>>

\* removeExistingJobsBeforeReview.
RemovedExisting(S) == Unsaved(S)

\* The review of S, which lists O as excluded, is shown when a posting is new to
\* the job list as it is now.
Offered(S, O) ==
    IF KeysOf(RemovedExisting(S)) \subseteq saved
    THEN phase' = "idle" /\ results' = NoResults /\ run' = NoRun
    ELSE phase' = "offered" /\ Keep(RemovedExisting(S), O, results.text) /\ UNCHANGED run

\* What the model dropped before is dropped again, the filter is run on the rest.
JudgedBefore == IF run.cancelled THEN {} ELSE KnownJudged(cache, run.search, results.kept)

BeginFilter(works) ==
    /\ phase = "filter"
    /\ plan.llm
    /\ ~(run.company /\ run.search = Unfiltered)
    /\ LET before == results.kept \ JudgedBefore
       IN  \E order \in SetToSeqs({l \in before : NeedsReview(l, run.search, results.text)}) :
              filter' = FilterOf(before, order, works)
    /\ phase' = "judging"
    /\ UNCHANGED <<cache, run, results, siteVars, plan, runs, feeds, saved>>

AskFilter ==
    /\ phase = "judging"
    /\ FilterStep
    /\ UNCHANGED <<cache, run, results, siteVars, plan, runs, phase, feeds, saved>>

\* recordLLMJobFilteringOutcome lists what the model dropped.  Listings of one posting
\* would be confused, but none are left of those that are asked about.
Excluded == IF filter.works THEN Dropped ELSE {}

\* Without the model there is a notice and no decision.  The jobs that the filter
\* leaves are bound to a variable of the inner block (fetch_flow.go:369), so that
\* what it drops is recorded and listed as dropped but offered as well.
EndFilter ==
    /\ phase = "judging"
    /\ filter.open = <<>>
    /\ Offered(filter.before, Excluded)
    /\ cache' \in IF run.cancelled \/ ~filter.works THEN {cache}
                  ELSE Stored(cache, Judged(cache, run.search, filter.before, filter.before \ Dropped),
                              filter.before, {}, results.text)
    /\ filter' = NoFilterRuns
    /\ UNCHANGED <<siteVars, plan, runs, feeds, saved>>

NoFilter ==
    /\ phase = "filter"
    /\ ~plan.llm \/ (run.company /\ run.search = Unfiltered)
    /\ Offered(results.kept, {})
    /\ UNCHANGED <<cache, siteVars, plan, runs, feeds, saved, filter>>

-----------------------------------------------------------------------------
(* The user.                                                               *)

Ended ==
    /\ phase' = "idle"
    /\ run' = NoRun
    /\ results' = NoResults

Accept ==
    /\ phase = "offered"
    /\ saved' = saved \cup KeysOf(results.kept)
    /\ Ended
    /\ UNCHANGED <<cache, siteVars, plan, runs, feeds, filter>>

Dismiss ==
    /\ phase = "offered"
    /\ Ended
    /\ UNCHANGED <<cache, siteVars, plan, runs, feeds, saved, filter>>

\* The user deletes a job of the list, or edits it until it is another posting.
EditList(k) ==
    /\ k \in saved
    /\ saved' \in {saved \ {k}} \cup {(saved \ {k}) \cup {other} : other \in Keys}
    /\ UNCHANGED <<cache, run, results, siteVars, plan, runs, phase, feeds, filter>>

\* A task that enriched or checked a job of the list writes it to the cache.
RecordCandidate(k, text) ==
    /\ plan.enriches
    /\ k \in saved
    /\ cache' \in Refreshed(cache, k, text)
    /\ UNCHANGED <<run, results, siteVars, plan, runs, phase, feeds, saved, filter>>

\* The program is killed and started again.
Restart ==
    /\ phase # "idle"
    /\ Ended
    /\ SitesReset({}, "none")
    /\ feeds' = {}
    /\ filter' = NoFilterRuns
    /\ UNCHANGED <<cache, plan, runs, saved>>

-----------------------------------------------------------------------------
FetchStep ==
    \/ \E S \in SUBSET Posted["llm"] : \E invalid \in SUBSET S : AskModel(S, invalid)
    \/ \E S \in SUBSET Posted["web"] : \E invalid \in SUBSET S : AskModelWeb(S, invalid)
    \/ \E f \in feeds : \E S \in SUBSET Posted[f] : \E invalid \in SUBSET S : ReadFeed(f, S, invalid)
    \/ Search
    \/ \E strangers \in SUBSET results.kept : \E D \in SUBSET results.kept :
          \E E \in SUBSET D : Finalize(strangers, D, E)
    \/ \E works \in BOOLEAN : BeginFilter(works)
    \/ AskFilter
    \/ EndFilter
    \/ NoFilter

UserStep ==
    \/ \E s \in Searches : \E company \in BOOLEAN : StartFetch(s, company)
    \/ Accept
    \/ Dismiss
    \/ \E k \in Keys : EditList(k)
    \/ \E k \in Keys : \E l \in Listings : KeyOf[l] = k /\ RecordCandidate(k, Description[l])

\* The history goes on.
Remember == shown' = shown \cup (results'.found \X {run'.search})

Next == (FetchStep \/ UserStep \/ Timeout \/ Restart) /\ Remember

Spec == Init /\ [][Next]_vars

\* The goroutines of a fetch go on as long as they can, and every request ends.
\* Nothing is asked of the user, nor of the time limit.
FairSpec == Spec /\ WF_fetchVars(FetchStep)

-----------------------------------------------------------------------------
FlowTypeOK ==
    /\ plan \in Plans
    /\ runs \in 0..plan.fetches
    /\ phase \in {"idle", "llm", "web", "sources", "filter", "judging", "offered"}
    /\ feeds \subseteq Feeds
    /\ saved \subseteq Keys

TypeOK == SiteTypeOK /\ FilterTypeOK /\ FlowTypeOK /\ shown \subseteq Listings \X Searches

\* No more candidates of a site are taken in a fetch than the limit, whatever its
\* searches do at the same time (siteCandidateLimiter): each looks at the limit
\* before it works and takes its candidates long after.
LimitHeld == CandidateLimit > 0 => \A s \in Sites : used[s] <= CandidateLimit

\* A host that asked for a verification is not searched again in the fetch, also
\* by the searches that were waiting for the browser then ("host was blocked
\* while waiting", fetchSiteSearchTask).
BlockedIsLeftAlone == \A t \in Tasks : tasks[t] = "probing" => HostOf[t] \notin blocked

\* The browser does not outlive the searches of its fetch, whether they end, give
\* up waiting for it, are blocked or run out of time.
BrowserIsClosed == browser = "open" => phase = "sources"

\* Once Built In refused a profile request no other is sent in the fetch, also
\* not by those whose slot comes later (sourceProfileHostLimiter).
ProfilesStop ==
    [][\A p \in Profiles :
          profiles'[p].state = "fetching" /\ profiles[p].state # "fetching" => ~barred]_vars

\* What a search skips as rejected before was read for the same criteria, in this
\* fetch or an earlier one, as a listing of the same posting that fails them.
\* Repetitions, saved postings, those of other companies, those beyond a limit and
\* those that other criteria rejected may be wanted later.
RejectionsAreDeserved ==
    \A s \in Searches : \A l \in KnownRejects(cache, s, Listings) :
       \E m \in Listings : KeyOf[m] = KeyOf[l] /\ <<m, s>> \in shown /\ ~Passes(m, s)

\* A review never offers a posting that was saved when the fetch began, whichever
\* way it was found and whatever stages the configuration skips.  With the sources
\* on it has each posting once, whatever it was found by, and no more than the limit.
OffersAreNew ==
    phase = "offered" =>
        /\ KeysOf(results.kept) \cap run.snapshot = {}
        /\ plan.sources =>
              /\ Cardinality(results.kept) = Cardinality(KeysOf(results.kept))
              /\ AcceptedLimit > 0 => Cardinality(results.kept) <= AcceptedLimit

\* The review accounts for every listing that was read: it is offered or listed
\* with what excluded it.  A candidate passed over is not listed, but one of the same
\* company and title is, as the page named it or as it turned out to be.  What the
\* filter drops was judged and found not to match, whatever became of batches, answers
\* and the model.
Explained == results.kept \cup results.failing \cup results.other

NothingUnexplained ==
    /\ phase = "offered" =>
          /\ results.found \subseteq Explained
          /\ \A l \in results.repeated : \E m \in Listings :
                Caption[m] = Caption[l] /\ {m, Elsewhere[m]} \cap Explained # {}
    /\ phase = "judging" /\ filter.open = <<>> => Dropped \subseteq filter.against

\* "Optional LLM job filtering runs after deterministic filtering and before review":
\* a review does not offer what the model is recorded to have dropped.
DroppedIsNotOffered ==
    phase = "offered" /\ run.search # Unfiltered /\ ~run.cancelled =>
        KnownJudged(cache, run.search, results.kept) = {}

\* A fetch ends with a review or a notice, also without the time limit, unless the
\* program is killed: no search waits for a browser, a place or a profile for ever.
FetchAnswers == Fetching ~> ~Fetching
=============================================================================
