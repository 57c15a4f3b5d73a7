----------------------------- MODULE BulkHealth -----------------------------
(***************************************************************************)
(* The bulk health refresh ("H") of the terminal UI: it looks companies up *)
(* with a few commands at a time, each in a goroutine of its own whose     *)
(* answer is a message, all of them sharing one headless browser           *)
(* (internal/tuiapp update_keys.go, update_health_msgs.go, health_flow.go, *)
(* health_background.go; internal/fetcher/reusable_health_browser.go).     *)
(* The single refresh ("h") runs beside it and is left out of a batch.     *)
(*                                                                         *)
(* A batch has one job per cache key: the domain of the company's website, *)
(* or the company's name when the job has no usable website.  What the     *)
(* refresh does to the background slot is in module SlotOwnership.         *)
(***************************************************************************)
EXTENDS Naturals, FiniteSets

CONSTANTS
    Jobs,        \* one job per cache key (UniqueJobsFromJobs)
    Nameless,    \* the jobs without a website, whose key is the company's name
    Companies,   \* what the names of the jobs' companies may be: jobs can share one
    Concurrency, \* defaultBulkHealthConcurrency (3 in the code)
    MaxRuns,     \* bound: refreshes started in one run of the program
    Watched      \* bound: the jobs whose companies are looked up with "h"

ASSUME BulkHealthAssumption ==
    /\ IsFiniteSet(Jobs)
    /\ Nameless \subseteq Jobs
    /\ \A c \in Companies : \A i, j \in Nameless : c[i] = c[j] => i = j
    /\ Concurrency \in Nat \ {0}
    /\ MaxRuns \in Nat \ {0}
    /\ Watched \subseteq Jobs

VARIABLES
    company, \* the name of each job's company, which does not change
    runs,    \* refreshes started; the current one, if any, is the last
    bulk,    \* bulkHealth...: [fetching, total, limit, completed, inFlight, todo]
    steps,   \* commands whose message has not been handled: [run, job, answer]
    browser, \* per refresh: its bulkHealthBrowser
    health,  \* the jobs with a fresh entry in healthCache
    single   \* per job: the single refresh of its company

bulkVars == <<company, runs, bulk, steps, browser, health, single>>

RunIds == 1..MaxRuns
Answers == {"looking", "ok", "failed", "unresolved"}
Idle == [fetching |-> FALSE, total |-> 0, limit |-> 0, completed |-> 0,
         inFlight |-> 0, todo |-> {}]
Step(r, j) == [run |-> r, job |-> j, answer |-> "looking"]
\* min (mutant: no limit).
Unlimited(a, b) == b
AtMost(a, b) == IF a < b THEN a ELSE b

TypeOK ==
    /\ company \in Companies
    /\ runs \in 0..MaxRuns
    /\ bulk \in [fetching: BOOLEAN, total: Nat, limit: 0..Concurrency, completed: Nat,
                 inFlight: 0..Concurrency, todo: SUBSET Jobs]
    /\ steps \subseteq [run: RunIds, job: Jobs, answer: Answers]
    /\ browser \in [RunIds -> {"none", "idle", "open", "closed"}]
    /\ health \subseteq Jobs
    /\ single \in [Jobs -> {"idle"} \cup Answers]

Init ==
    /\ company \in Companies
    /\ runs = 0
    /\ bulk = Idle
    /\ steps = {}
    /\ browser = [r \in RunIds |-> "none"]
    /\ health \in SUBSET Jobs
    /\ single = [j \in Jobs |-> "idle"]

\* CachedHealthForJob: under the job's key, or under the bare name.
Cached(j) == \E i \in health : i = j \/ (i \in Nameless /\ company[i] = company[j])

-----------------------------------------------------------------------------
(* The refresh.                                                            *)

\* scheduleBulkHealthCommands: commands for the next jobs (S) are started, up to
\* the limit, for the refresh r in the state b; the remaining steps are old.
\* Companies come in alphabetical order, which nothing depends on.  (Mutant: the
\* limit is not looked at.)
ScheduleAll(b, r, S, old) ==
    /\ S = b.todo
    /\ bulk' = [b EXCEPT !.inFlight = @ + Cardinality(S), !.todo = {}]
    /\ steps' = old \cup {Step(r, j) : j \in S}

Schedule(b, r, S, old) ==
    /\ S \subseteq b.todo
    /\ Cardinality(S) = AtMost(b.limit - b.inFlight, Cardinality(b.todo))
    /\ bulk' = [b EXCEPT !.inFlight = @ + Cardinality(S), !.todo = @ \ S]
    /\ steps' = old \cup {Step(r, j) : j \in S}

\* UniqueCompaniesFromJobs, and how many answers a refresh counts up to (mutant: the
\* jobs that will be skipped are left out).
Names(batch) == {company[j] : j \in batch}
TotalWithSite(batch) == Cardinality(Names(batch \ Nameless))
Total(batch) == Cardinality(Names(batch))

\* "H": the jobs without fresh health are refreshed, or else all of them after
\* the cache was emptied; jobs whose single refresh runs are left out.  The
\* refresh will count answers up to the number of distinct company names.
StartRefresh(S) ==
    LET candidates == {j \in Jobs : single[j] = "idle"}
        missing == {j \in candidates : ~Cached(j)}
        batch == IF missing # {} THEN missing ELSE candidates
    IN  /\ ~bulk.fetching
        /\ runs < MaxRuns
        /\ batch # {}
        /\ health' = IF missing # {} THEN health ELSE {}
        /\ runs' = runs + 1
        /\ browser' = [browser EXCEPT ![runs + 1] = "idle"]
        /\ Schedule([fetching |-> TRUE,
                     total |-> Total(batch),
                     limit |-> AtMost(Concurrency, Cardinality(batch)),
                     completed |-> 0, inFlight |-> 0, todo |-> batch],
                    runs + 1, S, steps)
        /\ UNCHANGED <<company, single>>

\* A command asks the refresh's browser for a page: getBrowser starts it at the
\* first request, and refuses once it was closed.
UseBrowser(s) ==
    /\ s \in steps /\ s.answer = "looking" /\ s.job \notin Nameless
    /\ browser[s.run] = "idle"
    /\ browser' = [browser EXCEPT ![s.run] = "open"]
    /\ UNCHANGED <<company, runs, bulk, steps, health, single>>

\* The command returns: a job without a website is skipped at once, another one
\* has its result or an error (after 120 seconds at the latest).
Answer(s, a) ==
    /\ s \in steps /\ s.answer = "looking"
    /\ a \in IF s.job \in Nameless THEN {"unresolved"} ELSE {"ok", "failed"}
    /\ steps' = (steps \ {s}) \cup {[s EXCEPT !.answer = a]}
    /\ UNCHANGED <<company, runs, bulk, browser, health, single>>

\* A message is counted (mutant: its place is not given back).
CountedOnly(b) == [b EXCEPT !.completed = @ + 1]
Counted(b) == [b EXCEPT !.inFlight = IF @ > 0 THEN @ - 1 ELSE 0, !.completed = @ + 1]

\* closeBulkHealthBrowser (mutant: nothing is closed).
KeptBrowser(r) == browser
ClosedBrowser(r) == [browser EXCEPT ![r] = "closed"]

\* handleBulkHealthStepMsg: a message carries no mark of its refresh.  It is
\* ignored when none runs; otherwise it is counted, its result is cached, and the
\* refresh goes on or ends.
HandleStep(s, S) ==
    /\ s \in steps /\ s.answer # "looking"
    /\ LET counted == Counted(bulk)
       IN  \/ /\ ~bulk.fetching
              /\ S = {}
              /\ steps' = steps \ {s}
              /\ UNCHANGED <<bulk, browser, health>>
           \/ /\ bulk.fetching
              /\ health' = IF s.answer = "ok" THEN health \cup {s.job} ELSE health
              /\ IF counted.completed >= bulk.total
                 THEN /\ S = {}
                      /\ bulk' = Idle
                      /\ steps' = steps \ {s}
                      /\ browser' = ClosedBrowser(runs)
                 ELSE /\ Schedule(counted, runs, S, steps \ {s})
                      /\ UNCHANGED browser
    /\ UNCHANGED <<company, runs, single>>

-----------------------------------------------------------------------------
(* The single refresh.                                                     *)

\* "h" on a job whose health is not cached, or again when it is shown, which
\* forgets it first.  Nothing is started while the company's single refresh runs.
StartSingle(j, again) ==
    /\ again \/ ~Cached(j)
    /\ single' = [single EXCEPT ![j] = IF @ = "idle" THEN "looking" ELSE @]
    /\ health' = IF again
                 THEN {i \in health : i # j /\ ~(i \in Nameless /\ company[i] = company[j])}
                 ELSE health
    /\ UNCHANGED <<company, runs, bulk, steps, browser>>

AnswerSingle(j, a) ==
    /\ single[j] = "looking"
    /\ a \in {"ok", "failed"} \cup (IF j \in Nameless THEN {"unresolved"} ELSE {})
    /\ single' = [single EXCEPT ![j] = a]
    /\ UNCHANGED <<company, runs, bulk, steps, browser, health>>

\* The jobs under whose key a result is filed: the key comes from the identity in
\* the result, which has a website even if the job has none.
Filed(j) ==
    IF j \notin Nameless THEN {{j}}
    ELSE {{}} \cup {{i} : i \in {i \in Jobs \ Nameless : company[i] = company[j]}}

\* handleHealthLoadedMsg.
HandleSingle(j) ==
    /\ single[j] \notin {"idle", "looking"}
    /\ \E found \in Filed(j) :
          health' = IF single[j] = "ok" THEN health \cup found ELSE health
    /\ single' = [single EXCEPT ![j] = "idle"]
    /\ UNCHANGED <<company, runs, bulk, steps, browser>>

-----------------------------------------------------------------------------
\* A command of the refresh answers, or its answer is handled.
Progress ==
    \E s \in steps :
        \/ \E a \in Answers : Answer(s, a)
        \/ \E S \in SUBSET Jobs : HandleStep(s, S)

Next ==
    \/ \E S \in SUBSET Jobs : StartRefresh(S)
    \/ Progress
    \/ \E s \in steps : UseBrowser(s)
    \/ \E j \in Watched :
          \/ \E again \in BOOLEAN : StartSingle(j, again)
          \/ \E a \in Answers : AnswerSingle(j, a)
          \/ HandleSingle(j)

Spec == Init /\ [][Next]_bulkVars

\* Every lookup ends, and the event loop takes every message.
FairSpec == Spec /\ WF_bulkVars(Progress)

-----------------------------------------------------------------------------
(* Properties.                                                             *)

\* The jobs whose company has the name of another one's: each makes the number of
\* answers a refresh waits for smaller than the number of its commands by one.
Shared == Cardinality(Jobs) - Cardinality(Names(Jobs))

\* The refreshes that have ended.
Ended == IF bulk.fetching THEN runs - 1 ELSE runs

\* "`H` refreshes health for all unique jobs" (docs/FUNCTIONALITY_INVENTORY.md:93):
\* when a refresh ends, every job of its batch was looked up and the answer of
\* every lookup was taken into account.
RefreshCoversBatch ==
    [][bulk.fetching /\ ~bulk'.fetching => bulk.todo = {} /\ steps' = {}]_bulkVars

\* What the refreshes leave undone they leave undone for the shared names alone: a
\* refresh ends with no more jobs not looked up and commands not heard than there
\* are jobs with a shared name for every refresh so far, although it counts the
\* late answers of the earlier ones as its own.  When no name is shared, nothing is
\* left, and it is RefreshCoversBatch.
OnlySharedAreLeft ==
    [][bulk.fetching /\ ~bulk'.fetching =>
          Cardinality(bulk.todo) + Cardinality(steps') <= Shared * runs]_bulkVars

\* Never more lookups at a time than bulkHealthConcurrency allows, but for the ones
\* that ended refreshes left to themselves: a late answer, which gives back a place
\* that was not its own, adds none to them.
LookupsAreBounded == Cardinality(steps) <= Concurrency + Shared * Ended

\* The browser process of a refresh does not outlive it, and no command starts
\* another one after it was closed.
BrowserIsReleased ==
    \A r \in RunIds : browser[r] \in {"idle", "open"} => bulk.fetching /\ r = runs

\* Every refresh ends, whatever fails: the counters that decide about the end
\* and about the next lookup never leave it waiting for a message that nobody
\* sends.
RefreshEnds == bulk.fetching ~> ~bulk.fetching

=============================================================================
