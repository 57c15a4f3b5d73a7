----------------------------- MODULE Enrichment -----------------------------
(***************************************************************************)
(* An enrichment batch: for every job of the batch a worker reads the      *)
(* job's text, what is stored about its company, and pages, while a cache  *)
(* shares what it finds with the other workers; then the batch searches    *)
(* for companies nobody found, copies between jobs of one company, and     *)
(* sends and stores what that changed (apply_page_enrichment.go,           *)
(* company_identity_cache.go, source_profile_enrichment.go,                *)
(* company_identity_browser.go of internal/fetcher).                       *)
(*                                                                         *)
(* The batch takes its turns at the registry of visits with the actions of *)
(* module VisitRegistry.  A behaviour shows in detail either the requests  *)
(* of that module, if its world has no jobs, or a batch, to which a        *)
(* request is a page that comes or does not.                               *)
(***************************************************************************)
EXTENDS VisitRegistry, PageIdentity, IdentityStore

CONSTANTS
    Worlds,  \* what jobs, pages, model and stored identities there may be
    Slots    \* workers at a time (maxConcurrentEnrich)

ASSUME EnrichmentAssumption == Slots \in Nat \ {0} /\ None # "indeed profile"

\* The pages of a world, and where its postings are applied for.
PagesOf(w) ==
    LET pages == Range(w.pages) \cup Range(w.sites) \cup Range(w.searches)
                 \cup {w.jobs[j].text : j \in DOMAIN w.jobs}
    IN  (pages \cup {p.about : p \in pages \ {None}}) \ {None}

AppliesOf(w) ==
    ({w.jobs[j].apply : j \in DOMAIN w.jobs} \cup {p.direct : p \in PagesOf(w)}) \ {None}

\* Jobs, records, evidence and sites have the types of the code; a site has a host,
\* every posting is at some address.
JobFields == Fields \cup {"company", "apply", "identity", "profile", "paid", "text"}
IsSite(s) == s # None => {"host", "plausible"} \subseteq DOMAIN s /\ s.host # None /\ Normal(s) # None
IsIdentity(identity) ==
    /\ identity = [f \in Fields |-> identity[f]]
    /\ \A f \in Fields : identity[f] # None => {"confidence", "provisional"} \subseteq DOMAIN identity[f]
IsJob(job) == job = [x \in JobFields |-> job[x]] /\ IsIdentity(job.identity)
IsRecord(r) == r = [x \in Fields \cup {"identity"} |-> r[x]] /\ IsIdentity(r.identity)

ASSUME WorldAssumption ==
    \A w \in Worlds :
        /\ w.jobs \in Seq(Range(w.jobs))
        /\ \A j \in DOMAIN w.jobs :
              IsJob(w.jobs[j]) /\ w.jobs[j].apply # None /\ w.jobs[j].profile \in w.profiles \cup {None}
        /\ "rows" \in DOMAIN w.store /\ \A r \in Range(w.store.rows) : IsRecord(r)
        /\ \A p \in PagesOf(w) :
              /\ {"at", "labelled", "structured", "links"} \subseteq DOMAIN p
              /\ IsSite(p.labelled) /\ IsSite(p.structured) /\ IsSite(p.onBoard)
              /\ p.links \in Seq(Range(p.links)) /\ \A s \in Range(p.links) : IsSite(s)
              /\ p.posting # None => IsSite(p.posting.website)
              /\ p.profile \in w.profiles \cup {None}
        /\ \A answer \in Range(w.answers) \ {None} : IsSite(answer.website)
        /\ \A a \in AppliesOf(w) :
              /\ a.site # None
              /\ IF a.board = "builtin" THEN "builtin profile" \in w.profiles
                 ELSE a.page \in DOMAIN w.pages
        \* A search finds a site or nothing; a profile that is linked to is there.
        /\ \A p \in Range(w.searches) : p # None /\ p.labelled # None
        /\ \A at \in w.profiles : at \in DOMAIN w.pages /\ w.pages[at] # None

VARIABLES
    world,     \* the world of this behaviour
    phase,     \* how far the batch is
    jobs,      \* the jobs of the batch as they are now
    pc,        \* per job: what its worker does next
    held,      \* per job: the stored identity its worker has read
    cache,     \* CompanyIdentityCache: per company a record, or None
    profiles,  \* sourceProfileEnricher.entries: per profile whether it was read and a record, or None
    store,     \* the identities kept between runs
    browser,   \* whether the batch has a browser
    sent,      \* per job: how it was sent to the list last, or None
    due,       \* jobs that are stored and sent again
    cancelled  \* the context of the batch has ended

enrichVars == <<world, phase, jobs, pc, held, cache, profiles, store, browser, sent, due, cancelled>>
vars == <<registryVars, enrichVars>>

Batch == DOMAIN jobs
Companies == {world.jobs[j].company : j \in DOMAIN world.jobs} \cup world.names

EnrichInit ==
    /\ Init
    /\ world \in Worlds
    /\ phase = "idle"
    /\ jobs = world.jobs
    /\ pc = [j \in Batch |-> "new"]
    /\ held = [j \in Batch |-> None]
    /\ cache = [c \in Companies |-> None]
    /\ profiles = [p \in world.profiles |-> None]
    /\ store = world.store
    /\ browser = FALSE
    /\ sent = [j \in Batch |-> None]
    /\ due = {}
    /\ cancelled = FALSE

\* The answer of the language model about what a page says, if there is a model.
AnswerIn(w, p) == IF p.at \in DOMAIN w.answers THEN w.answers[p.at] ELSE None
Answer(p) == AnswerIn(world, p)

\* CompanyIdentityCache.Set: a job without a company is not remembered.
Remembered(company, record) == IF company = None THEN cache ELSE [cache EXCEPT ![company] = record]

Recalled(job) == IF job.company \in Companies \ {None} THEN cache[job.company] ELSE None

\* acceptedJobsNeedBrowserEnrichment
NeedsBrowser(job) == (job.apply.board = "indeed" /\ NeedsPage(job)) \/ NeedsSearch(job)

\* persistCompanyIdentityToStore.  Nothing is written once the context has ended,
\* but the store in memory does not look.
Persisted(job) ==
    IF HasTrusted(job) /\ job.company # None /\ (store.memory \/ ~cancelled)
    THEN Saved(store, job.company, TrustedRecord(job)) ELSE store

-----------------------------------------------------------------------------
(* The batch up to its workers.                                            *)

\* The start of enrichJobsFromApplyPages...: seedCompanyIdentityFromTrustedJobs, and
\* the browser, which need not start.
Seed(b) ==
    /\ phase = "idle" /\ batch[b].pc \in {"owner", "through"}
    /\ jobs' = Propagated(jobs)
    /\ cache' = [c \in Companies |->
                    LET complete == {j \in Batch : jobs'[j].company = c /\ IdentityComplete(jobs'[j])}
                    IN  IF c = None \/ complete = {} THEN cache[c] ELSE RecordOf(jobs'[Max(complete)])]
    /\ browser' \in {FALSE, \E j \in Batch : NeedsBrowser(jobs'[j])}
    /\ phase' = "working"
    /\ UNCHANGED <<registryVars, world, pc, held, profiles, store, sent, due, cancelled>>

Cancel ==
    /\ phase \notin {"idle", "ended"} /\ ~cancelled
    /\ cancelled' = TRUE
    /\ UNCHANGED <<registryVars, world, phase, jobs, pc, held, cache, profiles, store, browser, sent, due>>

-----------------------------------------------------------------------------
(* A worker.                                                               *)

\* The job is changed and the worker goes on.
Work(j, job, next) ==
    /\ jobs' = [jobs EXCEPT ![j] = job]
    /\ pc' = [pc EXCEPT ![j] = next]
    /\ UNCHANGED <<registryVars, world, phase, browser, due, cancelled>>

Start(j) ==
    /\ phase = "working" /\ pc[j] = "new"
    /\ Cardinality({k \in Batch : pc[k] \notin {"new", "done", "skipped"}}) < Slots
    /\ Work(j, FromDescription(jobs[j]), "hydrate")
    /\ UNCHANGED <<held, cache, profiles, store, sent>>

Skip(j) ==
    /\ phase = "working" /\ pc[j] = "new" /\ cancelled
    /\ Work(j, jobs[j], "skipped")
    /\ UNCHANGED <<held, cache, profiles, store, sent>>

\* hydrateCompanyIdentityFromStore
Hydrate(j) ==
    LET record == Lookup(store, jobs[j].company, jobs[j].website)
        hit == record # None /\ (store.memory \/ ~cancelled)
    IN  /\ pc[j] = "hydrate"
        /\ held' = [held EXCEPT ![j] = IF hit THEN record ELSE None]
        /\ Work(j, IF hit THEN Applied(jobs[j], record) ELSE jobs[j], IF hit THEN "remember" ELSE "recall")
        /\ UNCHANGED <<cache, profiles, store, sent>>

Remember(j) ==
    /\ pc[j] = "remember"
    /\ cache' = Remembered(jobs[j].company, held[j])
    /\ held' = [held EXCEPT ![j] = None]
    /\ Work(j, jobs[j], "recall")
    /\ UNCHANGED <<profiles, store, sent>>

\* What is asked for first, if anything.
FirstPage(job) ==
    IF ~NeedsPage(job) /\ ~NeedsSite(job) THEN "keep"
    ELSE IF job.apply.board = "builtin" THEN (IF BuiltInProfile(job) = None THEN "home" ELSE "profile")
    ELSE IF NeedsPage(job) THEN "page" ELSE "home"

\* The cache, and the start of enrichJobFromApplyPageWithProfilesStatsAndBrowser.
Recall(j) ==
    LET record == Recalled(jobs[j])
        job == Prepared(IF record = None THEN jobs[j] ELSE Applied(jobs[j], record))
    IN  /\ pc[j] = "recall"
        /\ Work(j, job, FirstPage(job))
        /\ UNCHANGED <<held, cache, profiles, store, sent>>

\* enrichAcceptedJobWithStaticApplyPage, enrichAcceptedIndeedJobWithBrowser: the model
\* reads the page of the posting after the profile it links to.
ApplyPage(job) == world.pages[job.apply.page]

VisitPage(j, came) ==
    LET job == jobs[j]
        p == ApplyPage(job)
        indeed == job.apply.board = "indeed"
        read == IF indeed THEN FromIndeed(job, p) ELSE FromPage(job, p)
        profiled == IF indeed THEN read.profile = "indeed profile" ELSE p.profile # None
    IN  /\ pc[j] = "page"
        /\ came => p # None /\ (indeed => browser)
        /\ IF ~came THEN Work(j, job, "home")
           ELSE IF profiled THEN Work(j, [read EXCEPT !.profile = IF indeed THEN @ ELSE p.profile], "profile")
           ELSE Work(j, FromModel(read, p, Answer(p)), "home")
        /\ UNCHANGED <<held, cache, profiles, store, sent>>

\* After a profile the model reads the page that linked to it.
AndPage(job) ==
    IF job.apply.board = "builtin" THEN job ELSE FromModel(job, ApplyPage(job), Answer(ApplyPage(job)))

ProfileOf(job) == IF job.apply.board = "builtin" THEN BuiltInProfile(job) ELSE job.profile

\* EnrichWithStats, fetchAndApply, applyCached: a profile is fetched once; later jobs
\* get what the first one knew then, and the model may add to it.  (That requests for
\* it share one fetch is in module SiteSearch.)  Profiles of Indeed are read by the
\* browser for every job: enrichAcceptedIndeedCompanyProfileWithBrowser.
VisitProfile(j, came) ==
    LET job == jobs[j]
        at == ProfileOf(job)
        p == world.pages[at]
        known == IF profiles[at] = None THEN NoRecord ELSE profiles[at].record
        first == FromModel(FromProfile(job, p), p, Answer(p))
        later == FromModel(Applied(job, known), p, Answer(p))
    IN  /\ pc[j] = "profile"
        /\ CASE at = "indeed profile" ->
                  /\ Work(j, AndPage(IF came THEN FromModel(FromIndeedProfile(job, p), p, Answer(p)) ELSE job), "home")
                  /\ UNCHANGED profiles
             [] at # "indeed profile" /\ profiles[at] = None ->
                  /\ Work(j, AndPage(IF came THEN first ELSE job), "home")
                  /\ profiles' = [profiles EXCEPT ![at] = [read |-> came, record |-> IF came THEN RecordOf(first) ELSE NoRecord]]
             [] at # "indeed profile" /\ profiles[at] # None /\ ~profiles[at].read ->
                  /\ ~came
                  /\ Work(j, AndPage(job), "home")
                  /\ UNCHANGED profiles
             [] OTHER ->
                  /\ came
                  /\ Work(j, AndPage(later), "home")
                  /\ profiles' = [profiles EXCEPT ![at].record =
                                    IF NeedsModel(Applied(job, known)) THEN RecordOf(later) ELSE @]
        /\ UNCHANGED <<held, cache, store, sent>>

\* enrichJobFromCompanyWebsitePagesWithStats: the home page, and the page about the
\* company if something is still missing.
HomePage(job) == IF job.website.host \in DOMAIN world.sites THEN world.sites[job.website.host] ELSE None

VisitHome(j, came) ==
    LET job == jobs[j]
        p == HomePage(job)
        read == FromModel(FromCompanySite(job, p, "company_homepage"), p, Answer(p))
    IN  /\ pc[j] = "home"
        /\ came => NeedsSite(job) /\ p # None
        /\ IF came THEN Work(j, read, IF NeedsSite(read) /\ p.about # None THEN "about" ELSE "keep")
           ELSE Work(j, job, "keep")
        /\ UNCHANGED <<held, cache, profiles, store, sent>>

VisitAbout(j, came) ==
    LET job == jobs[j]
        p == HomePage(job).about
    IN  /\ pc[j] = "about"
        /\ Work(j, IF came THEN FromModel(FromCompanySite(job, p, "company_about"), p, Answer(p)) ELSE job,
                "keep")
        /\ UNCHANGED <<held, cache, profiles, store, sent>>

\* The end of a worker: what is complete goes to the cache, what is trusted to the
\* store, the job to the list.
Keep(j) ==
    /\ pc[j] = "keep"
    /\ cache' = IF IdentityComplete(jobs[j]) THEN Remembered(jobs[j].company, RecordOf(jobs[j])) ELSE cache
    /\ Work(j, jobs[j], "persist")
    /\ UNCHANGED <<held, profiles, store, sent>>

Persist(j) ==
    /\ pc[j] = "persist"
    /\ store' = Persisted(jobs[j])
    /\ Work(j, jobs[j], "emit")
    /\ UNCHANGED <<held, cache, profiles, sent>>

Emit(j) ==
    /\ pc[j] = "emit"
    /\ sent' = [sent EXCEPT ![j] = jobs[j]]
    /\ Work(j, jobs[j], "done")
    /\ UNCHANGED <<held, cache, profiles, store>>

-----------------------------------------------------------------------------
(* The batch after its workers.                                            *)

\* enrichJobsFromBrowserCompanySearch: one search per company (browserCompanySearch-
\* Targets) without a website, until the context ends.
Searched(hits) ==
    [j \in Batch |-> LET job == jobs[j]
                     IN  IF NeedsSearch(job) /\ job.company \in hits
                         THEN FromSearch(job, world.searches[job.company], Answer(world.searches[job.company]))
                         ELSE job]

Told(job) == [f \in Fields |-> job[f]]

\* captureJobIdentityPersistenceSnapshot of the jobs before the searches and copies
\* (mutant: before the copies).
SnapshotsLate(before, searched) == searched
SnapshotsOf(before, searched) == before

PostProcess(hits) ==
    LET searched == Searched(hits)
        copied == Propagated(searched)
        final == [j \in Batch |-> Backfilled(copied[j])]
        changed == \E j \in Batch : Told(searched[j]) # Told(jobs[j]) \/ copied[j] # searched[j]
    IN  /\ phase = "working" /\ \A j \in Batch : pc[j] \in {"done", "skipped"}
        /\ hits \subseteq DOMAIN world.searches /\ (hits # {} => browser /\ ~cancelled)
        /\ jobs' = final
        /\ due' = IF changed THEN {j \in Batch : final[j] # SnapshotsOf(jobs, searched)[j]} ELSE {}
        /\ phase' = "publishing"
        /\ UNCHANGED <<registryVars, world, pc, held, cache, profiles, store, browser, sent, cancelled>>

Republish(j) ==
    /\ phase = "publishing" /\ j \in due /\ \A k \in due : j <= k
    /\ store' = Persisted(jobs[j])
    /\ sent' = [sent EXCEPT ![j] = jobs[j]]
    /\ due' = due \ {j}
    /\ UNCHANGED <<registryVars, world, phase, jobs, pc, held, cache, profiles, browser, cancelled>>

Finish(b) ==
    /\ phase = "publishing" /\ due = {}
    /\ phase' = "ended"
    /\ IF batch[b].pc = "owner" THEN EndBatch(b) ELSE UNCHANGED registryVars
    /\ UNCHANGED <<world, jobs, pc, held, cache, profiles, store, browser, sent, due, cancelled>>

-----------------------------------------------------------------------------
BatchStep ==
    \/ \E b \in Batches :
          \/ LookForRegistry(b) /\ UNCHANGED enrichVars
          \/ BeginBatch(b) /\ UNCHANGED enrichVars
          \/ world.fetched /\ made = 0 /\ batch[b].pc = "new" /\ BeginFetch /\ UNCHANGED enrichVars
          \/ Seed(b)
          \/ Finish(b)
    \/ Cancel
    \/ \E j \in Batch :
          \/ Start(j) \/ Skip(j) \/ Hydrate(j) \/ Remember(j) \/ Recall(j)
          \/ \E came \in BOOLEAN :
                VisitPage(j, came) \/ VisitProfile(j, came) \/ VisitHome(j, came) \/ VisitAbout(j, came)
          \/ Keep(j) \/ Persist(j) \/ Emit(j)
          \/ Republish(j)
    \/ \E hits \in SUBSET DOMAIN world.searches : PostProcess(hits)

EnrichNext ==
    \/ world.jobs = <<>> /\ Next /\ UNCHANGED enrichVars
    \/ world.jobs # <<>> /\ BatchStep

EnrichSpec == EnrichInit /\ [][EnrichNext]_vars /\ WF_registryVars(\E c \in Calls : Proceed(c))

-----------------------------------------------------------------------------
(* Properties.                                                             *)

\* What some page, the model, the host of a posting, or evidence that was there
\* before says with confidence.
Backed(r, f) ==
    r[f] # None /\ EvidenceRank(r.identity[f]) > 0 /\ (f = "website" \/ r.identity[f].value = r[f])

Said(w, f) ==
    UNION {{r[f] : r \in {p.posting, AnswerIn(w, p)} \ {None}} : p \in PagesOf(w)}

BroughtIn(w, f) ==
    {w.jobs[j][f] : j \in {j \in DOMAIN w.jobs : Backed(w.jobs[j], f)}}
    \cup {r[f] : r \in {r \in Range(w.store.rows) : Backed(r, f)}}

SitesIn(w) ==
    Said(w, "website") \cup BroughtIn(w, "website") \cup {a.site : a \in AppliesOf(w)}
    \cup UNION {Range(p.links) \cup {p.labelled, p.structured, p.onBoard} : p \in PagesOf(w)}

ClaimsIn(w, f) ==
    BroughtIn(w, f) \cup
    CASE f = "website" -> {Normal(s) : s \in SitesIn(w) \ {None}}
      [] f = "summary" -> Said(w, f) \cup {p.summary : p \in PagesOf(w)}
      [] f = "industry" -> Said(w, f) \cup UNION {{p.industry, p.facts} : p \in PagesOf(w)}
Claims(f) == ClaimsIn(world, f)

\* What came with a job and nobody confirmed is never trusted: not in a job, a copy,
\* the cache or the store, whichever way it is passed on.  (A website is an exception:
\* sanitizeExistingJobIdentity makes the evidence for another one its evidence.)
TrustIsEarned ==
    \A f \in Fields :
        /\ \A j \in Batch : Trusted(jobs[j], f) => jobs[j][f] \in Claims(f)
        /\ \A r \in Range(store.rows) : Trusted(r, f) => r[f] \in Claims(f)

\* When the workers are through, no job of a company misses what another one has on
\* good evidence, though contexts end, pages fail and the cache forgets.  (An industry
\* that came without evidence is not missing; the batch notes its origin at the end.)
BatchIsShared ==
    phase \in {"publishing", "ended"} =>
        \A i, k \in Batch, f \in Fields :
            jobs[i].company # None /\ jobs[i].company = jobs[k].company /\ TrustedField(jobs[i], f)
            => \/ ~Lacks(jobs[k], f)
               \/ f = "industry" /\ jobs[k].identity[f] # None
                  /\ jobs[k].identity[f].source = "source_payload"

\* The list has every job as the batch left it, but for the note that something came
\* with the job: what changed after a job was sent is sent again.
SentIsFinal ==
    phase = "ended" => \A j \in Batch : pc[j] = "done" => Backfilled(sent[j]) = jobs[j]

=============================================================================
