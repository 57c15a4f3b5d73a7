# Jobscout in TLA+

Models of Jobscout, a terminal program that searches job sites, keeps a list of
postings in SQLite, enriches them from their apply pages and looks up the health of
the companies. The program is a Bubble Tea UI: one event loop (`Update`) handles one
message at a time; everything slow runs in goroutines ("commands") whose result is a
message, delivered at any later time and in any order. What is hard about it: messages
arrive when the state they were computed from has changed, the state that decides whom
a message concerns is a few flags and counters shared by several features, and what a
goroutine finds out passes through caches, stores and copies before anybody sees it.

Paths below are relative to `src/internal/`.

## 1. Inventory

| component (non-test lines of its package) | state | operations | hard behaviour | correct when |
|---|---|---|---|---|
| Background task slot (`tuiapp`, 10822 lines in all) | `backgroundTask` (id, active, pendingFields), `nextBackgroundTask`, per task `jobCh`, `progressCh`, workers | `u`, `U`, `V`, Enter on a review, the workers' sends, the reader, five handlers | bounded channels with blocking sends, readers that only a handler restarts, a second feature (`H`) that writes the same slot | nobody is mistaken for the owner; the owner's goroutines are never left blocked |
| Job tracker (`tuiapp`, `domain`) | `allJobs`, `filteredJobs`, cursor, the `jobs` table | keys, editor, review, merges and in-place updates by background tasks, `SaveJobs` | copies taken at the start of a task, in-memory changes saved later or never, failed saves, a list that is a copy of the rows | no job is lost or doubled, no user change undone, the list shows the rows |
| Bulk and single health refresh (`tuiapp`) | `bulkHealth…` counters, `healthCache`, `healthFetching`, the health window | `H`, `h`, `:health`, step and result handlers | messages without a mark of their refresh, counters instead of sets, a shared browser process, a window that does not know its lookup | a refresh covers its batch, ends, respects its limit, closes its browser |
| Health evidence (`health` 1272, `domain`, `fetcher`) | stored reports with their age, slots for browser and model | a lookup from the stored report or from a dozen sources, its assessment and storing | sources fail and contradict each other; a stored report is read, assessed and stored again beside other lookups | the score fits the risk and the facts the best source |
| URL visit registry (`fetcher`, 14413 lines in all) | `urlVisitRun`, two maps of entries | begin, clear, `FetchApplyPage`, `ProbeURL` | single flight, cancellation of the leader, replacement of a global | one visit per URL, no remembered cancellation, no stale answer, no one waits forever |
| Apply-page enrichment (`fetcher`) | batch, company cache, profiles, identity store | workers, searches, copies between jobs, second round of sends | a value passes from job to cache to store to job; a worker looks before another has found | what is trusted was earned; jobs of one company share; what was sent is what remains |
| Fetch review flow (`tuiapp`) | `pendingFetch`, notices | fetch result, Enter, Esc | the review outlives its notice | the jobs accepted are the jobs reviewed |
| Fetch pipeline (`fetcher`, `llm`) | counters, blocked hosts, shared browser, lists of results | feeds, bounded searches per site, candidate limit, validation, repetitions, limits, the model's filter | check-then-act across searches, waiting for a shared browser, time limit | limits kept, a job once, every listing accounted for, an answer in the end |
| Source profile enrichment (`fetcher`) | profile run, host limiter | single flight per profile, rate limit, block | reservation and cancellation | one fetch per profile, a host that refuses is left alone |
| Candidate cache (`fetcher`, `storage`) | candidates and decisions | record, reuse, prune | key of a decision, failed writes | a rejection is only reused for what was rejected |
| SQLite storage (`storage`, 1368) | tables, identities and aliases | save, load, migrate, prune | one transaction per save, pooled connections, aliases that change their owner | table = last saved list |
| Setup flow (`setup` 366, `tuiapp`, `config`) | wizard step, draft, form, pending commands, `config.yaml`, `SEARCH_PROMPT.md` | every key of every step; lists of models, resumes, previews | late answers, failed writes, restarts | an answer only changes what asked for it; what is saved is what is shown |
| Operator commands (`tuiapp`) | the command line and its completions | `:` with fetch, health, debug | completions made from the line before | a completion makes a line that runs |
| Language model access (`llm`, 6888) | authentication in the environment | requests, retries, batches, auth and its cleanup | overlapping use of a global | failures cost nothing; environment restored |
| Extraction from pages and sites (`fetcher`) | – | pages to facts | which of many hints wins | the order of the code |
| Configuration and criteria (`config` 1288) | files | load, complete, save | – | written as shown |
| Views (`tui` 1018, `cliui` 61), benchmark tool, startup (`jobscout` 545, `runtime` 634, `updatecheck` 141, `netutil` 41) | – | text of the model, wiring | none of the above | out of scope |

Interactions: the tracker hands rows to tasks and takes them back; tasks visit pages
through the visit registry; the bulk refresh writes the slot and is started and
blocked by the same keys; a fetch makes a registry, fills the candidate cache and ends
in a review, which starts a task; all of them put their notices on the one overlay
that the wizard, the menus and the windows use too.
`PROJECT.json` lists every component with its status, and under `hazards` every line
where one of these behaviours bites.

## 2. Modules

| module | models | how |
|---|---|---|
| `SlotOwnership` | what the slot promises | abstract specification: `Take`, `Settle`, `Discard` and the three writes of the bulk refresh; `stage` is what became of a task |
| `TaskSlot` | the slot with its goroutines | per task: the producer (`enrichAcceptedFetchCmd`, `validatePostingsCmd`, workers, semaphore, the two rounds of sends), the channels, the reader (`waitForBackgroundTaskProgress`) and the handlers. Implements `SlotOwnership` (`ImplementsOwnership`, by `Stage`) |
| `Tracker` | rows and table | extends `SlotOwnership`; per task one queue of messages; keys, editor, review, merges, saves |
| `BulkHealth` | `H` and `h` | counters exactly as in the code next to the set of commands (`steps`) that really run, one browser per refresh |
| `HealthEvidence` | facts with their confidence, score, risk | pure operators over what the code finds in a source |
| `HealthLookup` | `LoadCompanyHealth`, `RefreshCompanyHealth` | extends it; a lookup source by source, stored reports and their age, slots |
| `ModelAccess` | the credentials of the language model | what a configuration file comes to; per caller a use: resolve, look, put, make, put back |
| `HealthRefresh` | commands, lookups and uses of the model | composes `BulkHealth`, `HealthLookup` and `ModelAccess` |
| `VisitRegistry` | `url_visit_registry.go` and who begins and clears registries | requests as small processes: read the global, enter, visit or wait, answer |
| `JobIdentity`, `PageIdentity` | what a job says of its company and how sure it is; what pages add to it | pure operators: sanitise, confirm, copy, merge by the rank of evidence |
| `IdentityStore` | identities in the database or in memory | operators on a store of rows and aliases |
| `Enrichment` | a batch from its first worker to its last send | composes the three above with `VisitRegistry`, whose batches it opens and ends |
| `CandidateCache` | candidates and decisions | operators that record, reuse, prune |
| `SiteSearch` | the searches of a fetch | a search as a small process: limit, browser, page, profiles, candidates |
| `JobFilter` | the model's filter | batches, their retries and halves, answers that fail |
| `Fetch` | a fetch from its key to its answered review, and the next one | composes the three above |
| `SetupPlan`, `Setup`, `SetupKeys` | what a configuration lacks and the plan of steps; the wizard's state and moves; one action per step and key | each extends the one before |
| `JobList`, `HealthWindow`, `CommandLine` | list, menus, details; windows on health; `:` | one action per key or message, on the overlay they share with the wizard |
| `Screens` | the UI as a whole | composes them with a fetch, a posting check and their notices |
| `SlotOwnershipProofs`, `TaskSlotProofs`, `TrackerProofs`, `FetchProofs`, `HealthRefreshProofs`, `EnrichmentProofs`, `ScreensProofs`; `Induction` | theorems; lemmas on least numbers and folds they share | section 5 |
| `MC…` | instances for TLC | section 4 |

Correspondence: one action per handler, key or goroutine step that another actor can
see; `map` in `PROJECT.json` names the lines of each definition. Definitions called
"mutant" in a comment are plausible mistakes in the definition after them; nothing of
the specifications uses them. With the mistake in place each property listed in
section 4 is violated, which shows that it says something about the code.

Some modules keep a *world* or *plan* as a variable that `Init` chooses and no action
changes: who there is, what pages hold, what is configured. One run then covers
several situations, each with its own bounds.

### Abstractions

* `TaskSlot`: what enrichment finds is any element of `Results`. The keys `u`, `U`,
  `V` also depend on overlays, on the open view and on a fetch that runs; these
  conditions are left out, so that the model has more behaviours than the program. A
  job keeps its identity during enrichment. Progress texts are counted; those that
  matter (they may fill the channel, and reading one delays a job) are the first, the
  last and those of a posting check.
* `Tracker`: a key is company and title (`JobMergeKey`), which enrichment keeps. `info`
  stands for the fields enrichment fills. Channels and reader are one queue `mail`; a
  dropped reader is `heard = FALSE`. A review holds jobs that were not in the list when
  the fetch answered; which of them is left open until it is accepted, and it comes only
  while another task may start. Database failures and uses of the editor share
  the bound `incidents` of a scope. Sorting and filtering are in `JobList`.
* `BulkHealth`: which companies come next is any choice (the code sorts by name). Which
  jobs share a company's name is chosen at the start (`company`); single lookups are of
  the jobs in `Watched`, a bound.
  Entries of the cache do not expire by age and the program does not quit during a
  refresh. The automatic lookup of an opened detail view and `h` are `StartSingle`.
* `HealthLookup`: a source answers with any record its world allows or fails; texts
  are what the code finds in them (a year, a number, the keywords, whether they name
  the company). Days pass between lookups up to `MaxAge`. Reports of the store in
  memory are values (the code shares pointers there).
* `ModelAccess`: three of the six providers stand for the three ways to come by a key
  (the library looks at the environment again, the key is handed over, none is needed).
  A command prints something or fails; blanks around a credential, models per task and
  a configuration that turns the model off are left out. Each step on the environment
  is atomic, as Go's are; nothing orders the steps of several uses.
* `HealthRefresh`: a behaviour shows one side in detail, the commands, the lookups or
  the uses of the model. Commands and lookups meet in the answer of a lookup only, and
  a lookup in whether a model can be had.
* `VisitRegistry`: the maps of pages and probes have the same protocol and are one. A
  site answers what the posting is at that time, or fails; a posting that was taken
  down stays so. `Expire` is the cancellation or timeout of the request's own context
  (and, for a visit, of the HTTP client).
* `PageIdentity`: a page is a record of what the extraction finds in its text; the
  operators decide what is accepted, preferred and confirmed. A company is the key of
  its name, a site what the code finds out about a URL.
* `Enrichment`: a behaviour shows the requests of the registry or a batch; to a batch
  a request is a page that comes or does not (`VisitPage` has both). Searches for a
  company in the browser and answers of the model are given by the world. Posting
  checks, which share the workers but leave the identity alone, are in `TaskSlot`.
* `SiteSearch`: what a page shows of `Posted`, and whether a listing passes the
  validation, is left open. The wait for the next slot of the rate limit is a wait
  that ends. `Caption` is what a browser page names a posting by (company and title),
  `Elsewhere` the posting its address leads to when it is followed; whether it is
  followed is left open. `CandidateCache` keeps of a candidate's details the description
  only.
* `Fetch`: the filter's prompt is a size, an answer is a verdict per job, missing or
  unusable. The review's answer merges the jobs into the set of saved keys; the merge
  row by row is in `Tracker`. `shown` is history: what was read by which criteria.
* `Setup`: text is entered by the key that ends it. Dropdowns and menus of fixed length
  leave the option under the cursor open; where a list changes its length the cursor
  is in the state. What a form's field holds is one of `Typed`.
* `Screens`: a posting check is whether one is under way (`checking`); what takes the slot
  from it is in `TaskSlot`, here its answer may be dropped. What a preview finds is any
  of the jobs in `Previewed`, a bound; a review may hold any that the list has not.
* `JobList`: a job stands for its company too. A page of the table is longer than the
  list. `Parts` says which keys are pressed in an execution.
* `CommandLine`: a line is a sequence of words and whether a space follows; letters,
  quotes and the fuzzy match of names are data.

## 3. Hazards and properties

| property | module | in words |
|---|---|---|
| `OwnerIsHeard` | TaskSlot | a producer of the slot's owner never loses its reader, so its blocking sends get room again |
| `PendingIsUndelivered` | TaskSlot | a "loading" mark means that the result has not arrived |
| `OwnerIsServed` | TaskSlot | a task that keeps the slot is completed |
| `ImplementsOwnership` | TaskSlot | the detailed slot is the abstract one |
| `UniqueRows` | Tracker | one row per job |
| `NoJobVanishes` | Tracker | only `D` and edits take a job out of the table |
| `FinishedTaskKeepsStatus` | Tracker | the end of a task undoes no status |
| `FinishedTaskIsSaved` | Tracker | after an enrichment table and list agree |
| `LookupsAreBounded` | BulkHealth | no more lookups than allowed, but for those that ended refreshes left behind for shared names: late answers add none |
| `OnlySharedAreLeft` | BulkHealth | a refresh leaves undone what shared names account for, and nothing else |
| `BrowserIsReleased`, `RefreshEnds` | BulkHealth | see the inventory |
| `ReportsAreSound` | HealthLookup | a score stays within its risk however often a report is stored and read again; the model moves it once; reading makes nothing newer |
| `FactsAreTheBest` | HealthLookup | of the values that were offered the best is reported, whatever the order and the failures of the sources; one is missing only if the company's site could not fill it either |
| `CredentialsAreOnesOwn` | ModelAccess | uses of the model that do not overlap leave the environment as it was, however they end, and work with their own credential; overlapping ones do not lose a key that is in its own variable |
| `SingleFlight`, `CancelledIsForgotten`, `AnswerIsOfThisRegistry`, `EveryRequestEnds` | VisitRegistry | see the inventory |
| `TrustIsEarned` | Enrichment | nothing is called confirmed that no page, model or earlier evidence said, whichever way it was passed on |
| `BatchIsShared` | Enrichment | no job of a company misses what another one of the batch has |
| `SentIsFinal` | Enrichment | the list has every job as the batch left it |
| `LimitHeld`, `BlockedIsLeftAlone`, `BrowserIsClosed`, `ProfilesStop` | Fetch | what concurrent searches share is respected by those that looked before it changed |
| `RejectionsAreDeserved` | Fetch | what is skipped as rejected was read before, by the same criteria, as a listing that fails them |
| `OffersAreNew` | Fetch | a review offers nothing saved, nothing twice, no more than the limit |
| `NothingUnexplained` | Fetch | the review accounts for every listing, or for one of the same company and title where the code passes over a repetition; what the filter drops was judged |
| `FetchAnswers` | Fetch | a fetch ends, also without its time limit |
| `IndexInRange` | Screens | Enter never indexes past a list that got shorter |
| `WizardSavesWhatItShows` | Screens | a preview is one of the saved criteria; the summary and the prompt save the form as it is, and any other save at most puts back what the wizard opened with (finding 6) |
| `WizardListens` | Screens | a wizard that waits hears its keys again |
| `ShownIsCurrent` | Screens | the list shows the rows as they are, after every key and message |
| `CompletionsRun` | Screens | a completion of a line that runs makes one that runs |

and one type invariant per checked module (in `Screens` it is a part of `IndexInRange`). The properties of the violation runs are in
section 4.

## 4. Runs

| run | instance | distinct states | shows |
|---|---|---|---|
| `task_slot` | one job, two tasks, all capacities 1, one worker, bulk refreshes | 336,416 | the properties of `TaskSlot`, refinement included |
| `tracker` | two jobs, one task, no incident; and one job, two tasks that overlap, one incident; three statuses, symmetric in the jobs | 886,983 | the properties of `Tracker` |
| `tracker_status` | the first scope of `tracker` | violation | finding 1 |
| `bulk_health` | four worlds. Commands: three jobs, one without a website, names all different or one shared by two, two at a time, two refreshes, single lookups of two jobs. Evidence: one lookup, two to four answers of each source. Sharing: two lookups of one company, three in all, over three days. Model: two callers, three uses, nine files, three environments | 321,598 | the properties of `BulkHealth`, `HealthLookup` and `ModelAccess` |
| `bulk_health_names` | the world of the commands with two jobs under one name | violation | finding 2 |
| `visit_registry` | five worlds of `Enrichment`. Requests: one URL, three requests, one batch, two registries. Four batches of two or three jobs, two workers: postings on a board, profiles elsewhere with a stored company, Indeed with a fetch beside it, searches in the browser | 1,107,321 | the properties of `VisitRegistry` and `Enrichment` |
| `visit_registry_stale` | one URL, three requests, one batch, two registries | violation | finding 3 |
| `fetch` | six listings of two postings; seven plans of at most three searches or one feed, one or two fetches; two criteria, listings of one caption and one that leads to another; candidate limit 2, accepted limit 2, two searches at a time, one browser | 242,047 | the properties of `Fetch` and its parts |
| `fetch_filter` | the same | violation | finding 4 |
| `screens` | five scenes: wizard with a fetch; rows with a fetch; health; commands; commands with what they start. Two rows, three statuses, two providers, a form of two fields, a preview of one job, lines of up to four words | 682,709 | the properties of `Screens` and its parts |
| `health_window` | the scene of the health windows | violation | finding 5 |
| `screens_criteria` | the scene of the wizard | violation | finding 6 |

Why these bounds. `task_slot`: two tasks are the least in which a task is replaced;
channels of one place are full at once, which is the case in which a send blocks; the
job is sent twice (after the workers and after post-processing), so that order within
a channel matters. More jobs only add independent workers, more than one job is
covered by the theorems. `tracker`: two jobs are the least in which a whole-table save
can lose *another* row; overlapping tasks need a second id, and failed saves and the
editor an incident; all of these together take hours, so overlap and incidents are
checked on the one job both tasks fight over, where `UniqueRows` and `NoJobVanishes`,
which speak of runs without incidents, have nothing to add. `bulk_health`:
two refreshes, because a late message of the first, which a shared name leaves behind,
can only be counted in the second; three jobs with two places, so that one must wait;
answers that agree, contradict,
lie at both sides of each threshold, or are missing; three lookups, so that a report is
stored, read, assessed and stored by one while another does so; two uses of the model
overlap in every way and the third begins after them. `visit_registry`: a
leader, one that waits and one that comes later; two registries, so that the old one
is still in use when the new one is in place; two or three jobs, most of one company,
so that one finds what another misses, with a slot less than jobs where three run.
`fetch`: two searches of one site under a limit that both reach; three in one browser
of two hosts; two links of one company's profile; two fetches where the cache matters,
by the same criteria and by others; a page with two postings of one caption;
`JobFilter`'s batching is compared with its definition for all orders of up to five
jobs (`BatchesMC`). `screens`: lists of two rows have a first, a last and an empty
view; two fields tell a form that was edited from one that was not.
Deadlock is not checked where the bounds on tasks, refreshes and requests let the
system stop; the program itself rests whenever nobody presses a key. Nobody waiting
forever is `OwnerIsServed`, `RefreshEnds`, `EveryRequestEnds`, `FetchAnswers` and
`WizardListens`. `screens` is checked for deadlock.

### Fairness

* `TaskSlot`: weak fairness of each task's producer, reader and handlers. A goroutine
  that can run does; the enrichment of a job and a posting check run under timeouts;
  the Bubble Tea loop takes every message that is offered. No key press, no health
  step and no expiry of a context must ever happen.
* `HealthRefresh`: weak fairness of `Progress` of `BulkHealth` (an answer, or the
  handling of one): a lookup has 120 seconds, the browser steps included.
* `Enrichment`: weak fairness of "some request of the registry proceeds": HTTP clients
  have timeouts. Contexts need not expire.
* `Fetch`: weak fairness of `FetchStep`, one step of the fetch's goroutines: requests
  have timeouts of their own. Neither the user, nor the time limit of the fetch, nor a
  write beside it must ever happen.
* `Screens`: weak fairness of the arrival of a resume and of a preview (commands with
  timeouts). The user owes nothing.
* `Tracker` states safety only, without fairness.

### Findings

1. `tracker_status`: `handleBackgroundJobEnrichedMsg` replaces the row by the copy the
   task took at its start; a status given meanwhile with `s` or `m` is undone
   (`tuiapp/update_fetch_msgs.go:144`). The end of the task, which merges instead,
   does not do that (`FinishedTaskKeepsStatus`).
2. `bulk_health_names`: the refresh schedules by website or name and counts by name
   (`tuiapp/update_health_msgs.go:93`); with two websites under one name it ends before
   its batch is done.
3. `visit_registry_stale`: a fetch leaves its registry in place
   (`fetcher/job_fetcher.go:112`), and a later posting check gets the answers of the
   fetch instead of the site's.
4. `fetch_filter`: the jobs the model kept are assigned to a variable of an inner block
   (`tuiapp/fetch_flow.go:369`); the review offers those it dropped too, which its
   summary lists as dropped and the cache remembers as rejected.
5. `health_window`: the window takes the report of whatever lookup ends and keeps the
   identity of the lookup it was opened for (`tuiapp/update_health_msgs.go:42`), so
   that `h` refreshes a company it does not show.
6. `screens_criteria`: `saveSetupArtifacts` writes the form's criteria to the disk and
   not to the wizard's copy of the configuration (`tuiapp/setup_commands.go:40`). After
   "Saved your criteria. Finish LLM auth here, or choose 'No' in LLM settings" this very
   No saves that copy, and the earlier criteria are back on the disk. The same happens
   with any menu that saves the copy after the form was saved.

`PROJECT.json` quotes the lines of code and documents of each. More observations, which
no run is about:

* "end" in an empty list puts the cursor at -1, and the next key that indexes a row once
  rows are back ends the program (`tuiapp/update_keys.go:533`, `Panic` of `JobList`).
* The review can be accepted on another notice, or after a second fetch has taken its
  place (`tuiapp/update_keys.go:102`).
* A candidate whose company and title a page named before is passed over without being
  listed anywhere (`fetcher/site_search_browser.go:184`); `NothingUnexplained` allows for
  it.
* The site is not asked for a founding year once the age of the domain gave one of low
  confidence (`domain/company_health_site_profile.go:45`).
* The public profiles are asked for a head count only if the text of the site has none
  (line 72 there). A count that is read from it and then ignored as implausible ("5000
  employees" is read as "000", `domain/company_health_text.go:18`) keeps them out, and
  the gap that the site's evidence is said to fill (`docs/README.md:226`) stays; for the
  year the code looks again (line 63). `SiteStaff` counts such a site as having nothing
  to offer.
* "The final completion saves everything" (`tuiapp/update_fetch_msgs.go:146`) has an
  exception. Final message and enriched jobs come from two goroutines; a job that comes
  last is normally dropped, but during a bulk refresh the next step marks the slot active
  again under the finished task's id, and the job is shown and only saved with the next
  change. `TaskSlotSettledOwner` says that nothing else lets such a message pass.
* Uses of the model that overlap with a credential from the file or a command may leave
  it in the environment, or work with another one's (`llm/llm_auth.go:346`);
  `CredentialsAreOnesOwn` says what remains true of them. The copy of
  `normalizeLLMConfig` in that file lacks the guard of `config/llm_normalize.go` on
  another provider's variable, which does no harm where the configuration was read from a
  file, since it has been normalised then (`Loaded`).

## 5. Proofs

For every value of the constants, under the named assumptions of the modules
(capacities and bounds are positive or natural, sets that are counted are finite,
`NoCall` is no request, the worlds of lookups and batches are of the right shape, and
what `Init` of `Enrichment` takes from the database has its evidence:
`WorldAssumption`). Each module begins with its inductive invariant or with what its
operators preserve, and has one lemma or step per action.

* `Induction`: induction over numbers without the library's theorems, which take the
  formula as a parameter. A set of numbers has a least one (from the well-foundedness
  of the finite sets), so a set that has 0 and with a number the next one has them all
  (`CountingUp`). From it `FoldChain`: what a fold over a sequence computes is the last
  of a chain of values, each made from the one before by one element. The other
  modules prove by it what the code's loops do.
* `SlotOwnershipProofs`: `OwnershipInvariance` (an id in the slot was issued; a task
  not issued has no stage; a settled task in an active slot means a refresh runs);
  from it `TaskIsLostForGood` and `SettledOwnerTheorem`.
* `TaskSlotProofs`: `TaskInvariance`. The invariant is `TypeOK /\ BookInv /\ HeardInv`.
  `OwnerIsHeard` is not inductive: a reader may be dropped while the slot is inactive,
  and a bulk step could make it active again with the id of that task. `HeardInv` adds
  why it does not: a task that still works and whose id is in the slot finds it
  inactive only when no refresh runs, since a refresh starts with id 0 and only the
  end of one switches the slot off; without a refresh nothing switches it on.
  From it `TypeCorrectness`, `OwnerIsHeardTheorem`, and the refinement
  `TaskSlotImplementsOwnership`: initial states map to initial states, and each step
  to a step of `SlotOwnership` or to a stutter (`StepMaps`, one lemma per group of
  actions). The abstract theorems then hold of the detailed slot without a second
  proof: `TaskSlotLostForGood`, `TaskSlotSettledOwner`.
  `PendingIsUndeliveredTheorem` needs `PendingInv`: a job that is marked "loading" is
  either unfinished, or its latest result is in the channel, in the reader's hands, or
  due to be sent again (`Carried`).
* `TrackerProofs`: `MergeOne` one row, and by `FoldChain` a whole merge, keeps every
  key and every status, doubles no key, and adds rows at the end only (`Extends`).
  `TrackerTypeCorrectness`; `TrackerInvariance`, whose `JobsKept` says, without
  incidents, that the list has each job once and has every stored job; from it `UniqueRowsTheorem` and
  `NoJobVanishesTheorem`. `FinishedTaskKeepsStatusTheorem` and
  `FinishedTaskIsSavedTheorem` are action properties, proved of the steps that end a
  task. `TrackerKeepsSlotRules`: the tracker does to the slot what `SlotOwnership`
  allows and nothing else.
* `FetchProofs`: `TypeCorrectness` of fetch, searches and cache, which the others rest
  on. `LimitHeldTheorem` and `BrowserIsClosedTheorem` are inductive over it.
  `BlockedIsLeftAloneTheorem` is proved for a browser with one place, as in the code,
  from `ProbesAlone`: who looks at a page has the browser for itself, so that a host is
  not blocked between the look at the blocked hosts and the page. `ProfilesStopTheorem`
  is an action property. `RejectionsAreDeservedTheorem` needs that what the lists call
  failing shares its posting with a listing that was read by the same criteria and
  fails them (`FailingFails`), through filter, validation and cached decisions, as
  those are what is recorded. `OffersAreNewTheorem` rests on `OffersAreSound`: with the
  sources off nobody takes out saved postings before the review does, so what holds
  of the kept jobs depends on the phase. `NothingUnexplainedTheorem` has two halves:
  the listings that were found are among those kept, failing and others in each phase
  (`Accounted`), and so is, for each one passed over, one of its caption; and each job
  that the filter asks about is kept, judged, or in an open batch
  (`Asking`), for which the lemmas before it show by `FoldChain` that dividing and
  halving batches loses no job.
* `HealthRefreshProofs`, the commands: `TypeCorrectness` and `BrowserIsReleasedTheorem`
  for any companies and names. `OnlySharedAreLeftTheorem` and `LookupsAreBoundedTheorem`
  hold for any names too: `Shared` is by how many the jobs outnumber the names. The
  invariant `Accounts` ties counters to sets: answers, commands and what is left make up
  the batch and what earlier refreshes left behind, and each refresh adds at most
  `Shared` to that. With distinct names `Shared` is 0, and the two say that a
  refresh ends when its batch is done, within its limit.
  The lookups: `LookupInvariance`. A report in hand has facts that are the best its
  sources told and numbers that are numbers (`SoundReport`); from the clamping of its
  score on, in an answer and in the store it is also within the range of its risk
  (`Weighed`). The lemmas follow a report through each source, the model's assessment
  and the reading back from the store. From it `ReportsAreSoundTheorem` and `FactsAreTheBestTheorem`.
  The model: `AccessInvariance`, and from it `CredentialsAreOnesOwnTheorem`,
  for any callers, uses, files and environments. Neither half of the property is
  inductive: what a use puts back later has to be what was there. `AloneInv` says of the
  only use what it has changed and that it remembers what it changed; `GivenInv` that
  whoever will put a variable back that was given nothing new remembers its value.
  `EffectiveType` follows a credential through both normalisations.
  `RefreshImplementsParts`: a behaviour of the composition is one of each part.
* `EnrichmentProofs`, the registry: `VisitInvariance`. `SingleFlight` needs that who
  visits for a registry *has* the entry (`EntryInv`); `CancelledIsForgotten` that a
  leader leaves the map in the step in which it gets such an answer;
  `AnswerIsOfThisRegistry` that waiting requests share URL and registry with their
  leader (`WaitInv`), that answers exist only for finished requests (`CallInv`), and
  that a page that is there was there when the registry was made (`PageInv`).
  `CallChanges`, `OthersWait` and `EntriesStay` say once what a step of one request
  leaves alone. Theorems: `TypeCorrectness`, `SingleFlightTheorem`,
  `CancelledIsForgottenTheorem`, `AnswerIsOfThisRegistryTheorem`.
  The batch: `EnrichInvariance`. What an operator does to a job is told by a few
  relations: `Onward` (it stays the same job, and what it calls confirmed was claimed
  by somebody: `Earned`), `Keeps` (a copy between jobs loses nothing), `Sited` (a
  website stays one). The invariant says of the jobs, of the company cache, of the
  profiles and of the store that what they hold was earned, since each of them hands it
  on (`JobsInv`, `CacheInv`, `ProfilesInv`, `GoodStore`), and of each worker what it
  has done so far (`Placed`); `SentInv` that what was sent is what remains.
  From it `TrustIsEarnedTheorem`, `BatchIsSharedTheorem`, `SentIsFinalTheorem`.
  `EnrichmentImplementsVisits`: whatever a batch does, to the registry it is a
  behaviour of `VisitRegistry`, fairness included, so that the theorems on the registry
  hold beside it.

* `ScreensProofs`: `ListInvariance` and `ShownIsCurrentTheorem`. The model puts a row
  at the place that the count of rows before it gives; `PlacesAreTaken` shows that such
  counting tells elements apart and leaves no gap, from which `SortedShowsMatches`: the
  sorted list has the matching rows and no other, whatever the column and the order.
  The count is unambiguous only where each job has one row, so `GoodList` says this
  beside what is shown; each key and message either goes through `Applied` or keeps
  what the list and its search show (`SamePlaces`, `ShowingKeys`).
  The command line: `LineInvariance` and `CompletionsRunTheorem`. `LineInv` says that the
  line is one of the completions of what was typed, so that the property is one of the
  operators: `OfferRuns`. Whether a command takes its arguments is decided from the left,
  a flag's value belonging to the flag before it; the lemmas show by `Induction` that the
  decision on the first words does not depend on those after them, and `FlagIsAccepted`
  that one flag more, with its value, is taken where all before were.
  The wizard: `WizardInvariance` and `IndexInRangeTheorem`. The cursor is on the list of
  its step or at the top (`Placed`); the steps on which a list is shown are only reached
  from others (`PlanSteps`), with the cursor at the top (`Calm`), and a list that arrives
  moves the cursor onto it (`SettledIsPlaced`).
  What the wizard saves and shows: `WizardSavesWhatItShowsTheorem`, whose `PreviewInv` is
  the part that is not in the property. A preview is asked for on its step only, on a
  first start, and for what is on the disk then (`PreviewedSound`), and the criteria on
  the disk stay the same until it was answered and left. For that no notice may take the
  wizard away: only an edit can be interrupted, as nothing else is under way beside the
  other wizards (`Undisturbed`). What was made from the form (`generated`) is made from
  the form as it is when the prompt or the preview is shown (`InOrder`), because forward
  from the form the way leads through the summary, which makes it anew. That this is the
  order of every plan is `PlansArePaths`: a plan is put together of pieces, and which
  step may follow which (`Link`) is kept where two pieces meet (`PathGrows`).

One assumption on constants came up in these proofs: a title can be typed in the form
(`SetupAssumption`), so that there is a configuration with which nothing is missing for
the scenes without a wizard to start from (`ReadyConfig`).

Model-checked only: liveness (`OwnerIsServed`, `RefreshEnds`, `EveryRequestEnds`,
`FetchAnswers`, `WizardListens`), which TLAPS cannot prove with fairness. Every safety
invariant and action property that a passing run checks is a theorem.

## 6. Plan

Next: startup and shutdown around the other modules; and a second look at the larger
proofs of `ScreensProofs` and `EnrichmentProofs`, which have leaves that take seconds.

## 7. Not modelled

* Views, tables and the text of prompts, notices and summaries: functions of the model.
* Heuristics on text and HTML, browser automation, the wording of prompts and the
  parsing of answers: taken as their results, which the models leave open.
* Normalisation of configuration values (but for the provider of the model and its
  credential) and of criteria; the form's fields are data.
* A crash in the middle of a transaction (SQLite's own atomicity is assumed), schema
  migrations.
* A session that turned the model off after an error, and the setup a program was
  started for.
* Details of a candidate other than its description.
* The store of health reports in memory shares pointers; the models use values.
* A posting check beside the enrichment of an identity (it changes statuses only).
* Startup, command line flags, update check, benchmark tool: wiring and one
  best-effort request.

The status of every component is in `PROJECT.json`.
