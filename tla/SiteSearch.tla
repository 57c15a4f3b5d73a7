----------------------------- MODULE SiteSearch -----------------------------
(***************************************************************************)
(* The site searches of a fetch (internal/fetcher job_fetcher.go,          *)
(* site_search_browser.go, fetch_policy.go, source_profile_enrichment.go): *)
(* several search pages at a time, of which those of Built In are read     *)
(* directly and the others in one headless browser that they share.        *)
(*                                                                         *)
(* The tasks share a limit of candidates per site, the hosts that turned   *)
(* out to block searches, the company profiles already read, and the       *)
(* candidate cache.  A task reads the lists of the fetch only for its own  *)
(* results, so that they are added when they are known.                    *)
(*                                                                         *)
(* What a page shows, and whether a listing passes the validation, is left *)
(* open.  Waiting for the next slot of the profile rate limit is a wait    *)
(* that ends; details of single listings are read or not, and the cache of *)
(* details (builtInDetailCache) only saves requests.                       *)
(***************************************************************************)
EXTENDS CandidateCache

CONSTANTS
    Tasks,           \* search pages (siteSearchTask)
    SiteOf,          \* per task: its site, which the candidate limit is about
    HostOf,          \* per task: the host of its page
    KindOf,          \* per task: "cards", "links" (Built In) or "browser"
    Posted,          \* per source: the listings it may show
    Profiles,        \* company profile pages of Built In
    ProfileOf,       \* per listing: its company's profile page
    Caption,         \* per listing: the company and title that a page of results names
    Elsewhere,       \* per listing: the listing that its page turns out to be
    CandidateLimit,  \* candidate_limit_per_source; 0: none
    SiteConcurrency, \* maxConcurrentSiteSearchFetch (4 in the code)
    BrowserSlots     \* maxConcurrentBrowserSearch (1 in the code)

ASSUME SiteSearchAssumption ==
    /\ IsFiniteSet(Tasks)
    /\ \A t \in Tasks : KindOf[t] \in {"cards", "links", "browser"}
    /\ \A t \in Tasks : Posted[t] \subseteq Listings
    /\ \A l \in Listings : ProfileOf[l] \in Profiles /\ Elsewhere[l] \in Listings
    /\ CandidateLimit \in Nat
    /\ SiteConcurrency \in Nat \ {0}
    /\ BrowserSlots \in Nat \ {0}

VARIABLES
    cache,    \* the candidate cache
    run,      \* the fetch: [search, company, snapshot, cancelled]
    results,  \* the lists of the fetch: [found, kept, failing, other, repeated],
              \* the last of which it does not keep, and the descriptions
    tasks,    \* per task: how far it is
    used,     \* per site: candidates taken (siteCandidateLimiter)
    blocked,  \* hosts that answered with a verification page
    browser,  \* the browser of the fetch
    need,     \* per task: profiles it still has to look up
    profiles, \* per profile: its entry and the task that made it
    barred    \* Built In blocked a profile request

siteVars == <<tasks, used, blocked, browser, need, profiles, barred>>

Sites == {SiteOf[t] : t \in Tasks}
Hosts == {HostOf[t] : t \in Tasks}
NoEntry == [state |-> "none", by |-> "none"]

SiteTypeOK ==
    /\ cache \in Caches
    /\ run \in [search: Searches, company: BOOLEAN, snapshot: SUBSET Keys,
                cancelled: BOOLEAN]
    /\ results \in [found: SUBSET Listings, kept: SUBSET Listings,
                    failing: SUBSET Listings, other: SUBSET Listings,
                    repeated: SUBSET Listings, text: [Listings -> Texts]]
    /\ tasks \in [Tasks -> {"off", "todo", "listing", "profiles", "details",
                            "waiting", "probing", "done"}]
    /\ used \in [Sites -> Nat]
    /\ blocked \subseteq Hosts
    /\ browser \in {"none", "open", "closed"}
    /\ need \in [Tasks -> SUBSET Profiles]
    /\ profiles \in [Profiles -> [state: {"none", "waiting", "fetching", "found", "failed"},
                                  by: Tasks \cup {"none"}]]
    /\ barred \in BOOLEAN

\* Nothing is searched yet, T will be; b is left of the browser.
SitesReset(T, b) ==
    /\ tasks' = [t \in Tasks |-> IF t \in T THEN "todo" ELSE "off"]
    /\ used' = [s \in Sites |-> 0]
    /\ blocked' = {}
    /\ browser' = b
    /\ need' = [t \in Tasks |-> {}]
    /\ profiles' = [p \in Profiles |-> NoEntry]
    /\ barred' = FALSE

-----------------------------------------------------------------------------
(* The lists of the fetch.                                                 *)

Added(S, F, O, R) ==
    results' = [found |-> results.found \cup S \cup F \cup O, kept |-> results.kept \cup S,
                failing |-> results.failing \cup F, other |-> results.other \cup O,
                repeated |-> results.repeated \cup R, text |-> results.text]

\* The listings S that passed the filter are validated and compared with the
\* saved jobs; F failed the filter, O were left out for another reason, R were
\* passed over.
Report(S, F, O, R) ==
    \E invalid \in SUBSET S :
        LET kept == {l \in S \ invalid : KeyOf[l] \notin run.snapshot}
        IN  Added(kept, F, O \cup (S \ kept), R)

\* The cache is asked in vain when the time is over.
Known(S) == IF run.cancelled THEN {} ELSE KnownRejects(cache, run.search, S)

Fitting(S) == {l \in S : Passes(l, run.search)}

-----------------------------------------------------------------------------
(* The candidate limit.                                                    *)

AtMost(a, b) == IF a < b THEN a ELSE b

Exhausted(s) == CandidateLimit > 0 /\ used[s] >= CandidateLimit

\* takeCount: looked at and taken in one step (mutant: what other searches of the
\* site took is not counted).
LimitAlone(s, n) == IF CandidateLimit = 0 THEN n ELSE AtMost(n, CandidateLimit)
TakeCount(s, n) == IF CandidateLimit = 0 THEN n ELSE AtMost(n, CandidateLimit - used[s])

\* A task shows S, of which K are taken.
Taken(t, S, K) ==
    /\ K \subseteq S
    /\ Cardinality(K) = TakeCount(SiteOf[t], Cardinality(S))
    /\ used' = [used EXCEPT ![SiteOf[t]] =
                    IF CandidateLimit = 0 THEN @ ELSE @ + Cardinality(K)]

-----------------------------------------------------------------------------
(* The tasks (fetchSiteSearchTask under runBounded).                       *)

Running == {t \in Tasks : tasks[t] \notin {"off", "todo", "done"}}

Go(t, stage) == tasks' = [tasks EXCEPT ![t] = stage]

\* A task gets a place.  Other hosts than Built In's go to the browser.
StartTask(t) ==
    /\ tasks[t] = "todo"
    /\ Cardinality(Running) < SiteConcurrency
    /\ Go(t, IF HostOf[t] \in blocked \/ Exhausted(SiteOf[t]) THEN "done"
             ELSE IF KindOf[t] = "browser" THEN "waiting" ELSE "listing")
    /\ UNCHANGED <<cache, run, results, used, blocked, browser, need, profiles, barred>>

\* The page cannot be read, or shows nothing.
PageFails(t) ==
    /\ tasks[t] \in {"listing", "probing"}
    /\ Go(t, "done")
    /\ UNCHANGED <<cache, run, results, used, blocked, browser, need, profiles, barred>>

\* parseBuiltInSiteSearchHTML on a page with cards.  The limit counts cards that
\* are known to be rejected, too.
ReadCards(t, S, K) ==
    /\ tasks[t] = "listing"
    /\ KindOf[t] = "cards"
    /\ Taken(t, S, K)
    /\ LET known == Known(K)
           fit == Fitting(K \ known)
       IN  /\ Report(fit, K \ (known \cup fit), known \cup (S \ K), {})
           /\ need' = [need EXCEPT ![t] =
                 {ProfileOf[l] : l \in {l \in fit : KeyOf[l] \notin run.snapshot}}]
    /\ Go(t, "profiles")
    /\ UNCHANGED <<cache, run, blocked, browser, profiles, barred>>

\* The same on a page with links: what is beyond the limit is dropped silently,
\* and the rest is read page by page, some without result.
ReadLinks(t, S, K, readable) ==
    /\ tasks[t] = "listing"
    /\ KindOf[t] = "links"
    /\ Taken(t, S, K)
    /\ LET known == Known(K)
           fit == Fitting(readable)
       IN  /\ readable \subseteq K \ known
           /\ Report(fit, readable \ fit, known, {})
    /\ Go(t, "done")
    /\ UNCHANGED <<cache, run, blocked, browser, need, profiles, barred>>

\* A place at the browser is free, or was waited for.  What is known is looked at
\* again (mutant: the hosts are not).  The first task launches the browser.
SkipExhausted(t) == Exhausted(SiteOf[t])
SkipSearch(t) == Exhausted(SiteOf[t]) \/ HostOf[t] \in blocked

GetBrowser(t) ==
    /\ tasks[t] = "waiting"
    /\ Cardinality({u \in Tasks : tasks[u] = "probing"}) < BrowserSlots
    /\ \/ (SkipSearch(t) \/ browser = "none") /\ Go(t, "done") /\ UNCHANGED browser
       \/ ~SkipSearch(t) /\ Go(t, "probing") /\ browser' = "open"
    /\ UNCHANGED <<cache, run, results, used, blocked, need, profiles, barred>>

\* The fetch's time is over while the task waits for the browser.
GiveUp(t) ==
    /\ tasks[t] = "waiting"
    /\ run.cancelled
    /\ Go(t, "done")
    /\ UNCHANGED <<cache, run, results, used, blocked, browser, need, profiles, barred>>

\* A page that is read may lead elsewhere.
Arrived(S, moved) == {IF l \in moved THEN Elsewhere[l] ELSE l : l \in S}

\* fetchGenericSiteSearch: the candidates of a page.  Those of a company and title
\* that the page named before are passed over, and mentioned nowhere; others are read
\* if they are not known to be rejected, and for some the company cannot be found out.
Probe(t, S, K, repeated) ==
    /\ tasks[t] = "probing"
    /\ Taken(t, S, K)
    /\ LET first == K \ repeated
           known == Known(first)
       IN  /\ IsInjective([l \in first |-> Caption[l]])
           /\ \A l \in repeated : \E m \in first : Caption[m] = Caption[l]
           /\ \E moved \in SUBSET (first \ known) :
                 LET read == Arrived(first \ known, moved)
                 IN  \E nameless \in SUBSET read :
                        LET fit == Fitting(read \ nameless)
                        IN  Report(fit, read \ (nameless \cup fit), known \cup nameless,
                                   repeated)
    /\ Go(t, "done")
    /\ UNCHANGED <<cache, run, blocked, browser, need, profiles, barred>>

\* The page asks for a verification: the host is left alone for the fetch.
ProbeIsBlocked(t) ==
    /\ tasks[t] = "probing"
    /\ blocked' = blocked \cup {HostOf[t]}
    /\ Go(t, "done")
    /\ UNCHANGED <<cache, run, results, used, browser, need, profiles, barred>>

-----------------------------------------------------------------------------
(* Company profiles (sourceProfileEnricher), one after the other per task. *)

Leads(t) == \E p \in Profiles : profiles[p].by = t /\ profiles[p].state \in {"waiting", "fetching"}

Entry(p, state) == profiles' = [profiles EXCEPT ![p].state = state]

\* The task's own lookup of p is over.
Answered(p, state) ==
    /\ Entry(p, state)
    /\ need' = [need EXCEPT ![profiles[p].by] = @ \ {p}]

\* The first task that asks for a profile makes its entry, and reserves a slot
\* (beforeFetch) unless Built In blocks.
AskProfile(t, p) ==
    /\ tasks[t] = "profiles"
    /\ p \in need[t]
    /\ ~Leads(t)
    /\ profiles[p] = NoEntry
    /\ profiles' = [profiles EXCEPT ![p] = [state |-> IF barred THEN "failed" ELSE "waiting",
                                            by |-> t]]
    /\ need' = IF barred THEN [need EXCEPT ![t] = @ \ {p}] ELSE need
    /\ UNCHANGED <<cache, run, results, tasks, used, blocked, browser, barred>>

\* Its slot has come: the block is looked at again (mutant: it is not), as other
\* tasks were answered meanwhile.
BarredBefore == FALSE
BarredNow == barred

ProfileSlot(p) ==
    /\ profiles[p].state = "waiting"
    /\ \/ ~BarredNow /\ Entry(p, "fetching") /\ UNCHANGED need
       \/ (BarredNow \/ run.cancelled) /\ Answered(p, "failed")
    /\ UNCHANGED <<cache, run, results, tasks, used, blocked, browser, barred>>

ProfileAnswers(p) ==
    /\ profiles[p].state = "fetching"
    /\ \/ \E state \in {"found", "failed"} : Answered(p, state) /\ UNCHANGED barred
       \/ Answered(p, "failed") /\ barred' = TRUE
    /\ UNCHANGED <<cache, run, results, tasks, used, blocked, browser>>

\* Another task answered, also that the profile cannot be had (mutant: only when it
\* can); or time is over.
FoundStates == {"found"}
SettledStates == {"found", "failed"}

ShareProfile(t, p) ==
    /\ tasks[t] = "profiles"
    /\ p \in need[t]
    /\ profiles[p].by # t
    /\ profiles[p].state \in SettledStates \/ run.cancelled
    /\ ~Leads(t)
    /\ need' = [need EXCEPT ![t] = @ \ {p}]
    /\ UNCHANGED <<cache, run, results, tasks, used, blocked, browser, profiles, barred>>

ProfilesDone(t) ==
    /\ tasks[t] = "profiles"
    /\ need[t] = {}
    /\ Go(t, "done")
    /\ UNCHANGED <<cache, run, results, used, blocked, browser, need, profiles, barred>>

-----------------------------------------------------------------------------
\* All tasks are done, or the time is over and the others are not started.
SitesDone == \A t \in Tasks : tasks[t] \in {"off", "done"} \/ (tasks[t] = "todo" /\ run.cancelled)

\* The browser is closed when the searches are over (mutant: it is not).
LeaveBrowser == browser
CloseBrowser == IF browser = "open" THEN "closed" ELSE browser

TaskStep(t) ==
    \/ StartTask(t) \/ PageFails(t) \/ GetBrowser(t) \/ GiveUp(t)
    \/ ProbeIsBlocked(t) \/ ProfilesDone(t)
    \/ \E S \in SUBSET Posted[t] : \E K \in SUBSET S :
          \/ ReadCards(t, S, K)
          \/ \E R \in SUBSET K : ReadLinks(t, S, K, R) \/ Probe(t, S, K, R)
    \/ \E p \in Profiles : AskProfile(t, p) \/ ShareProfile(t, p)

SiteStep ==
    \/ \E t \in Tasks : TaskStep(t)
    \/ \E p \in Profiles : ProfileSlot(p) \/ ProfileAnswers(p)
=============================================================================
