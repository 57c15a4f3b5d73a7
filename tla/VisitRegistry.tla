---------------------------- MODULE VisitRegistry ----------------------------
(***************************************************************************)
(* The registry of page visits of a fetch or an enrichment                 *)
(* (internal/fetcher/url_visit_registry.go): requests for the same URL     *)
(* share one visit, the first request being its leader, and the answer is  *)
(* kept for later requests.  FetchApplyPage and ProbeURL have the same     *)
(* protocol; Urls stands for the keys of either map.                       *)
(*                                                                         *)
(* The registry in use is a global: a fetch puts a new one in place        *)
(* (job_fetcher.go), an enrichment batch shares the one that is there or   *)
(* else puts one in place and removes it at its end                        *)
(* (apply_page_enrichment.go).  Requests also come from the posting check  *)
(* of the terminal UI, through probeURL.                                   *)
(***************************************************************************)
EXTENDS Naturals, FiniteSets

CONSTANTS
    Urls,         \* keys of the visits
    Calls,        \* requests, each a call of its own with its own context
    Batches,      \* enrichment batches
    MaxRegistries \* bound: registries made in one run of the program

ASSUME VisitRegistryAssumption == MaxRegistries \in Nat \ {0}

NoCall == "no call"

ASSUME NoCallAssumption == NoCall \notin Calls

VARIABLES
    page,    \* what the site would answer now: a posting that is there, or gone
    made,    \* registries made so far
    current, \* urlVisitRun: the registry in use, 0 if there is none
    began,   \* per registry: what the sites would have answered when it was made
    entry,   \* per registry and URL: the leader whose entry is in the map
    call,    \* per request: how far it is, and what it got
    batch    \* per enrichment batch: its registry handling

registryVars == <<page, made, current, began, entry, call, batch>>

Registries == 1..MaxRegistries
Answers == {"live", "gone", "error", "context"}

\* done is the channel of the entry the request leads, expired its own context,
\* asked what the site would have answered when the request was made.
CallRecord == [pc: {"new", "asked", "visiting", "waiting", "done"},
               url: Urls \cup {"none"}, reg: 0..MaxRegistries,
               leader: Calls \cup {NoCall}, expired: BOOLEAN,
               answer: Answers \cup {"none"}, asked: {"live", "gone", "none"}]

NewCall == [pc |-> "new", url |-> "none", reg |-> 0, leader |-> NoCall,
            expired |-> FALSE, answer |-> "none", asked |-> "none"]

TypeOK ==
    /\ page \in [Urls -> {"live", "gone"}]
    /\ made \in 0..MaxRegistries
    /\ current \in 0..made
    /\ began \in [Registries -> [Urls -> {"live", "gone"}]]
    /\ entry \in [Registries -> [Urls -> Calls \cup {NoCall}]]
    /\ call \in [Calls -> CallRecord]
    /\ batch \in [Batches -> [pc: {"new", "looked", "owner", "through"},
                              reg: 0..MaxRegistries]]

Init ==
    /\ page = [u \in Urls |-> "live"]
    /\ made = 0
    /\ current = 0
    /\ began = [r \in Registries |-> page]
    /\ entry = [r \in Registries |-> [u \in Urls |-> NoCall]]
    /\ call = [c \in Calls |-> NewCall]
    /\ batch = [b \in Batches |-> [pc |-> "new", reg |-> 0]]

\* A posting is taken down.
TakeDown(u) ==
    /\ page[u] = "live"
    /\ page' = [page EXCEPT ![u] = "gone"]
    /\ UNCHANGED <<made, current, began, entry, call, batch>>

-----------------------------------------------------------------------------
(* The life of a registry.                                                 *)

\* beginURLVisitRun (mutant: the run is put in place without being made).
BeginUnmade ==
    /\ made < MaxRegistries
    /\ current' = made + 1
    /\ UNCHANGED <<made, began>>

Begin ==
    /\ made < MaxRegistries
    /\ made' = made + 1
    /\ current' = made + 1
    /\ began' = [began EXCEPT ![made + 1] = page]

\* A fetch starts.  It never removes its registry.
BeginFetch ==
    /\ Begin
    /\ UNCHANGED <<page, entry, call, batch>>

\* ensureURLVisitRun of a batch: the look at the global and the change of it are
\* two critical sections.  A batch that finds a registry is through with it.
LookForRegistry(b) ==
    /\ batch[b].pc = "new"
    /\ batch' = [batch EXCEPT ![b] = IF current = 0 THEN [pc |-> "looked", reg |-> 0]
                                     ELSE [pc |-> "through", reg |-> 0]]
    /\ UNCHANGED <<page, made, current, began, entry, call>>

BeginBatch(b) ==
    /\ batch[b].pc = "looked"
    /\ Begin
    /\ batch' = [batch EXCEPT ![b] = [pc |-> "owner", reg |-> made + 1]]
    /\ UNCHANGED <<page, entry, call>>

\* clearURLVisitRun by the owner, unless another registry took the place.
EndBatch(b) ==
    /\ batch[b].pc = "owner"
    /\ batch' = [batch EXCEPT ![b] = [pc |-> "through", reg |-> 0]]
    /\ current' = IF current = batch[b].reg THEN 0 ELSE current
    /\ UNCHANGED <<page, made, began, entry, call>>

-----------------------------------------------------------------------------
(* A request.                                                              *)

\* fetchApplyPage and probeURL read the global.
Ask(c, u) ==
    /\ call[c].pc = "new"
    /\ call' = [call EXCEPT ![c] = [@ EXCEPT !.pc = "asked", !.url = u, !.reg = current,
                                             !.asked = page[u]]]
    /\ UNCHANGED <<page, made, current, began, entry, batch>>

\* The entry a request finds (mutants: none; that of the first registry).
NoEntry(c) == NoCall
OldEntry(c) == entry[1][call[c].url]
Entry(c) == entry[call[c].reg][call[c].url]

\* Without a registry the site is visited; with one, under its lock, the request
\* becomes the leader of a new entry or waits for the entry that is there.
Enter(c) ==
    LET r == call[c].reg
        u == call[c].url
    IN  /\ call[c].pc = "asked"
        /\ IF r = 0
           THEN /\ call' = [call EXCEPT ![c].pc = "visiting"]
                /\ UNCHANGED entry
           ELSE IF Entry(c) = NoCall
           THEN /\ call' = [call EXCEPT ![c].pc = "visiting", ![c].leader = c]
                /\ entry' = [entry EXCEPT ![r][u] = c]
           ELSE /\ call' = [call EXCEPT ![c].pc = "waiting", ![c].leader = Entry(c)]
                /\ UNCHANGED entry
        /\ UNCHANGED <<page, made, current, began, batch>>

\* The context of a request is cancelled or times out (for a visit, the timeout of
\* the HTTP client counts as well).
Expire(c) ==
    /\ call[c].pc \in {"asked", "visiting", "waiting"} /\ ~call[c].expired
    /\ call' = [call EXCEPT ![c].expired = TRUE]
    /\ UNCHANGED <<page, made, current, began, entry, batch>>

\* The request returns, and its context with it.
Done(c, a) == [call EXCEPT ![c] = [@ EXCEPT !.pc = "done", !.answer = a, !.expired = FALSE]]

\* shouldForgetURLVisitError (mutant: every answer is kept).
ForgetNothing(a) == FALSE
Forget(a) == a = "context"

\* The site answers, or fails, or the visitor's context ends the visit: such an
\* answer is not kept, though those who wait for it get it.
Visit(c, a) ==
    LET r == call[c].reg
        u == call[c].url
    IN  /\ call[c].pc = "visiting"
        /\ \/ a = page[u]
           \/ a = "error"
           \/ a = "context" /\ call[c].expired
        /\ call' = Done(c, a)
        /\ entry' = IF r # 0 /\ Forget(a) THEN [entry EXCEPT ![r][u] = NoCall] ELSE entry
        /\ UNCHANGED <<page, made, current, began, batch>>

\* A waiting request gets the answer of its leader (mutant: unless it is
\* forgotten) ...
ShareKept(c) ==
    /\ call[c].pc = "waiting"
    /\ call[call[c].leader].answer \in Answers \ {"context"}
    /\ call' = Done(c, call[call[c].leader].answer)
    /\ UNCHANGED <<page, made, current, began, entry, batch>>

Share(c) ==
    /\ call[c].pc = "waiting"
    /\ call[call[c].leader].pc = "done"
    /\ call' = Done(c, call[call[c].leader].answer)
    /\ UNCHANGED <<page, made, current, began, entry, batch>>

\* ... or gives up with its context.
GiveUp(c) ==
    /\ call[c].pc = "waiting" /\ call[c].expired
    /\ call' = Done(c, "context")
    /\ UNCHANGED <<page, made, current, began, entry, batch>>

-----------------------------------------------------------------------------
Proceed(c) ==
    \/ Enter(c)
    \/ \E a \in Answers : Visit(c, a)
    \/ Share(c)
    \/ GiveUp(c)

Next ==
    \/ \E u \in Urls : TakeDown(u)
    \/ BeginFetch
    \/ \E b \in Batches : LookForRegistry(b) \/ BeginBatch(b) \/ EndBatch(b)
    \/ \E c \in Calls :
          \/ \E u \in Urls : Ask(c, u)
          \/ Proceed(c)
          \/ Expire(c)

Spec == Init /\ [][Next]_registryVars

\* Goroutines that can run do, and a visit ends: the HTTP clients have timeouts.
FairSpec == Spec /\ WF_registryVars(\E c \in Calls : Proceed(c))

-----------------------------------------------------------------------------
(* Properties.                                                             *)

\* At most one visit of a URL at a time is under way for a registry, whatever
\* becomes of the contexts of those who wait for it, of failed visits, and of the
\* global.
SingleFlight ==
    \A c, d \in Calls :
        /\ call[c].pc = "visiting" /\ call[d].pc = "visiting"
        /\ call[c].reg = call[d].reg /\ call[c].reg # 0
        /\ call[c].url = call[d].url
        => c = d

\* A cancelled visit is not remembered: no entry in a map holds the end of
\* somebody's context, so that no later request fails because of it.
CancelledIsForgotten ==
    \A r \in Registries, u \in Urls :
        entry[r][u] # NoCall => call[entry[r][u]].answer # "context"

\* An answer is as old as its registry at most: a posting that was gone when the
\* registry was made is not reported as there.
AnswerIsOfThisRegistry ==
    \A c \in Calls :
        call[c].reg # 0 /\ call[c].answer = "live" => began[call[c].reg][call[c].url] = "live"

\* Nobody waits forever for a visit, not even for one that was cancelled: time
\* and again no request is under way.
EveryRequestEnds == []<>(\A c \in Calls : call[c].pc \in {"new", "done"})

\* "`V` checks Unopened and Viewed posting URLs and marks inactive postings
\* Expired" (docs/FUNCTIONALITY_INVENTORY.md:136): a check of a posting that is
\* already gone does not find it active.
CheckSeesTheSite ==
    \A c \in Calls : call[c].asked = "gone" => call[c].answer # "live"

=============================================================================
