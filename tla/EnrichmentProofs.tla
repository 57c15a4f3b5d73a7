---------------------------- MODULE EnrichmentProofs ----------------------------
(***************************************************************************)
(* Proofs about the registry of page visits, for any URLs, requests,       *)
(* batches and number of registries; and about a batch of jobs that is     *)
(* enriched, for any worlds: any jobs, pages, companies, profiles, stored  *)
(* records and order of the workers.                                       *)
(*                                                                         *)
(* For the batch: first what each operator on a job, a record or the store *)
(* preserves, then one step of the specification after the other.          *)
(***************************************************************************)
EXTENDS Enrichment, Induction, TLAPS

-----------------------------------------------------------------------------
(* The inductive invariant.                                                *)

\* An entry belongs to a request for its URL, in its registry, that visits or has
\* an answer to keep; and who visits for a registry has the entry.
EntryInv ==
    /\ \A r \in Registries, u \in Urls :
          LET e == entry[r][u] IN
          e # NoCall => /\ call[e].pc \in {"visiting", "done"}
                        /\ call[e].reg = r /\ call[e].url = u
                        /\ call[e].answer # "context"
    /\ \A c \in Calls : call[c].pc = "visiting" /\ call[c].reg # 0
                            => call[c].url \in Urls /\ entry[call[c].reg][call[c].url] = c

\* Who waits, waits for a request for the same URL in the same registry.
WaitInv ==
    \A c \in Calls : call[c].pc = "waiting" =>
        /\ call[c].leader \in Calls
        /\ call[call[c].leader].pc \in {"visiting", "done"}
        /\ call[call[c].leader].reg = call[c].reg
        /\ call[call[c].leader].url = call[c].url

\* What a request has at each point: its URL and a registry that was made once it
\* asked, and an answer only when it is done.
CallInv ==
    \A c \in Calls :
        /\ call[c].reg \in 0..made
        /\ call[c].pc # "new" => call[c].url \in Urls
        /\ call[c].pc = "done" <=> call[c].answer \in Answers

\* A page never comes back, so that one that is there was there when any registry
\* was made.
PageInv ==
    \A r \in Registries, u \in Urls : page[u] = "live" => began[r][u] = "live"

\* The inductive invariant.
VisitInv == TypeOK /\ EntryInv /\ WaitInv /\ CallInv /\ PageInv /\ AnswerIsOfThisRegistry

-----------------------------------------------------------------------------
(* What a step of one request does to the table of requests.               *)

\* A request's step leaves the table well typed and the other requests alone.
LEMMA CallChanges ==
    ASSUME TypeOK, NEW c \in Calls, NEW e \in CallRecord, call' = [call EXCEPT ![c] = e]
    PROVE  /\ call' \in [Calls -> CallRecord]
           /\ call'[c] = e
           /\ \A d \in Calls : d # c => call'[d] = call[d]
BY DEF TypeOK

\* A request is a request still once it asked ...
LEMMA AskedIsCall ==
    ASSUME NEW e \in CallRecord, NEW u \in Urls, NEW r \in 0..MaxRegistries,
           NEW w \in {"live", "gone"}
    PROVE  [e EXCEPT !.pc = "asked", !.url = u, !.reg = r, !.asked = w] \in CallRecord
BY DEF CallRecord

\* ... once it entered the registry ...
LEMMA EnteredIsCall ==
    ASSUME NEW e \in CallRecord, NEW d \in Calls, NEW p \in {"visiting", "waiting"}
    PROVE  /\ [e EXCEPT !.pc = p, !.leader = d] \in CallRecord
           /\ [e EXCEPT !.pc = p] \in CallRecord
BY DEF CallRecord

\* ... once its context is done ...
LEMMA ExpiredIsCall ==
    ASSUME NEW e \in CallRecord
    PROVE  [e EXCEPT !.expired = TRUE] \in CallRecord
BY DEF CallRecord

\* ... and once it returned.
LEMMA DoneIsCall ==
    ASSUME NEW e \in CallRecord, NEW a \in Answers
    PROVE  [e EXCEPT !.pc = "done", !.answer = a, !.expired = FALSE] \in CallRecord
BY DEF CallRecord

\* Those who wait keep on waiting for what they waited for, when the request that
\* takes the step goes on with its visit or waits for one.
LEMMA OthersWait ==
    ASSUME WaitInv, NEW c \in Calls, \A d \in Calls : d # c => call'[d] = call[d],
           call[c].pc \in {"visiting", "done"} =>
               /\ call'[c].pc \in {"visiting", "done"}
               /\ call'[c].reg = call[c].reg /\ call'[c].url = call[c].url,
           call'[c].pc = "waiting" =>
               \E l \in Calls : /\ l # c /\ l = call'[c].leader
                               /\ call[l].pc \in {"visiting", "done"}
                               /\ call[l].reg = call'[c].reg /\ call[l].url = call'[c].url
    PROVE  WaitInv'
<1> SUFFICES ASSUME NEW d \in Calls, call'[d].pc = "waiting"
             PROVE  \E l \in Calls : /\ l = call'[d].leader
                                     /\ call'[l].pc \in {"visiting", "done"}
                                     /\ call'[l].reg = call'[d].reg /\ call'[l].url = call'[d].url
  BY DEF WaitInv
<1>1. CASE d = c
  BY <1>1
<1>2. CASE d # c
  <2>1. PICK l \in Calls : /\ l = call[d].leader
                           /\ call[l].pc \in {"visiting", "done"}
                           /\ call[l].reg = call[d].reg /\ call[l].url = call[d].url
    BY <1>2 DEF WaitInv
  <2> QED
    BY <1>2, <2>1
<1> QED
  BY <1>1, <1>2

\* The entries stay good when the request that takes the step, if it has one, goes
\* on with its visit or keeps an answer, and does not start a visit of its own.
LEMMA EntriesStay ==
    ASSUME EntryInv, NEW c \in Calls, \A d \in Calls : d # c => call'[d] = call[d],
           TypeOK, UNCHANGED entry,
           \A r \in Registries, u \in Urls : entry[r][u] = c =>
               /\ call'[c].pc \in {"visiting", "done"}
               /\ call'[c].reg = call[c].reg /\ call'[c].url = call[c].url
               /\ call'[c].answer # "context",
           call'[c].pc = "visiting" /\ call'[c].reg # 0 =>
               /\ call[c].pc = "visiting"
               /\ call'[c].reg = call[c].reg /\ call'[c].url = call[c].url
    PROVE  EntryInv'
<1>1. ASSUME NEW r \in Registries, NEW u \in Urls, entry[r][u] # NoCall
      PROVE  \E k \in Calls : /\ k = entry[r][u]
                              /\ call'[k].pc \in {"visiting", "done"}
                              /\ call'[k].reg = r /\ call'[k].url = u
                              /\ call'[k].answer # "context"
  BY <1>1 DEF EntryInv, TypeOK
<1>2. ASSUME NEW d \in Calls, call'[d].pc = "visiting", call'[d].reg # 0
      PROVE  call'[d].url \in Urls /\ entry[call'[d].reg][call'[d].url] = d
  BY <1>2 DEF EntryInv
<1> QED
  BY <1>1, <1>2 DEF EntryInv

-----------------------------------------------------------------------------
(* It is an invariant.                                                     *)

\* A posting that goes is one page fewer that is there.
LEMMA TakeDownInv ==
    ASSUME VisitInv, NEW u \in Urls, TakeDown(u)
    PROVE  VisitInv'
<1>1. TypeOK'
  BY VisitRegistryAssumption, NoCallAssumption
  DEF VisitInv, TypeOK, Registries, TakeDown
<1>2. EntryInv'
  BY VisitRegistryAssumption, NoCallAssumption
  DEF VisitInv, TypeOK, EntryInv, Registries, TakeDown
<1>3. WaitInv' /\ CallInv'
  BY VisitRegistryAssumption, NoCallAssumption
 
  DEF VisitInv, TypeOK, WaitInv, CallInv, TakeDown
<1>4. PageInv'
  BY VisitRegistryAssumption, NoCallAssumption
  DEF VisitInv, TypeOK, PageInv, Registries, TakeDown
<1>5. AnswerIsOfThisRegistry'
  BY VisitRegistryAssumption, NoCallAssumption
  DEF VisitInv, TypeOK, PageInv, CallInv, AnswerIsOfThisRegistry, Registries, TakeDown
<1> QED
  BY <1>1, <1>2, <1>3, <1>4, <1>5 DEF VisitInv

\* A new registry begins with the pages as they are, and no request knows it yet.
LEMMA BeginFetchInv ==
    ASSUME VisitInv, BeginFetch
    PROVE  VisitInv'
<1>1. TypeOK'
  BY VisitRegistryAssumption, NoCallAssumption
  DEF VisitInv, TypeOK, Registries, BeginFetch, Begin
<1>2. EntryInv'
  BY VisitRegistryAssumption, NoCallAssumption
  DEF VisitInv, TypeOK, EntryInv, Registries, BeginFetch, Begin
<1>3. WaitInv' /\ CallInv'
  BY VisitRegistryAssumption, NoCallAssumption
 
  DEF VisitInv, TypeOK, WaitInv, CallInv, BeginFetch, Begin
<1>4. PageInv'
  BY VisitRegistryAssumption, NoCallAssumption
  DEF VisitInv, TypeOK, PageInv, Registries, BeginFetch, Begin
<1>5. AnswerIsOfThisRegistry'
  BY VisitRegistryAssumption, NoCallAssumption
  DEF VisitInv, TypeOK, PageInv, CallInv, AnswerIsOfThisRegistry, Registries,
      BeginFetch,
      Begin
<1> QED
  BY <1>1, <1>2, <1>3, <1>4, <1>5 DEF VisitInv

\* Batches touch no request: one that looks for a registry ...
LEMMA LookForRegistryInv ==
    ASSUME VisitInv, NEW b \in Batches, LookForRegistry(b)
    PROVE  VisitInv'
<1>1. TypeOK'
  BY VisitRegistryAssumption, NoCallAssumption
  DEF VisitInv, TypeOK, Registries, LookForRegistry
<1>2. EntryInv'
  BY VisitRegistryAssumption, NoCallAssumption
  DEF VisitInv, TypeOK, EntryInv, Registries, LookForRegistry
<1>3. WaitInv' /\ CallInv'
  BY VisitRegistryAssumption, NoCallAssumption
 
  DEF VisitInv, TypeOK, WaitInv, CallInv, LookForRegistry
<1>4. PageInv'
  BY VisitRegistryAssumption, NoCallAssumption
  DEF VisitInv, TypeOK, PageInv, Registries, LookForRegistry
<1>5. AnswerIsOfThisRegistry'
  BY VisitRegistryAssumption, NoCallAssumption
  DEF VisitInv, TypeOK, PageInv, CallInv, AnswerIsOfThisRegistry, Registries, LookForRegistry
<1> QED
  BY <1>1, <1>2, <1>3, <1>4, <1>5 DEF VisitInv

\* ... one that puts one in place ...
LEMMA BeginBatchInv ==
    ASSUME VisitInv, NEW b \in Batches, BeginBatch(b)
    PROVE  VisitInv'
<1>1. TypeOK'
  BY VisitRegistryAssumption, NoCallAssumption
  DEF VisitInv, TypeOK, Registries, BeginBatch, Begin
<1>2. EntryInv'
  BY VisitRegistryAssumption, NoCallAssumption
  DEF VisitInv, TypeOK, EntryInv, Registries, BeginBatch, Begin
<1>3. WaitInv' /\ CallInv'
  BY VisitRegistryAssumption, NoCallAssumption
 
  DEF VisitInv, TypeOK, WaitInv, CallInv, BeginBatch, Begin
<1>4. PageInv'
  BY VisitRegistryAssumption, NoCallAssumption
  DEF VisitInv, TypeOK, PageInv, Registries, BeginBatch, Begin
<1>5. AnswerIsOfThisRegistry'
  BY VisitRegistryAssumption, NoCallAssumption
  DEF VisitInv, TypeOK, PageInv, CallInv, AnswerIsOfThisRegistry, Registries,
      BeginBatch,
      Begin
<1> QED
  BY <1>1, <1>2, <1>3, <1>4, <1>5 DEF VisitInv

\* ... and one that removes it, which leaves its requests with what they hold.
LEMMA EndBatchInv ==
    ASSUME VisitInv, NEW b \in Batches, EndBatch(b)
    PROVE  VisitInv'
<1>1. TypeOK'
  BY VisitRegistryAssumption, NoCallAssumption
  DEF VisitInv, TypeOK, Registries, EndBatch
<1>2. EntryInv'
  BY VisitRegistryAssumption, NoCallAssumption
  DEF VisitInv, TypeOK, EntryInv, Registries, EndBatch
<1>3. WaitInv' /\ CallInv'
  BY VisitRegistryAssumption, NoCallAssumption
 
  DEF VisitInv, TypeOK, WaitInv, CallInv, EndBatch
<1>4. PageInv'
  BY VisitRegistryAssumption, NoCallAssumption
  DEF VisitInv, TypeOK, PageInv, Registries, EndBatch
<1>5. AnswerIsOfThisRegistry'
  BY VisitRegistryAssumption, NoCallAssumption
  DEF VisitInv, TypeOK, PageInv, CallInv, AnswerIsOfThisRegistry, Registries, EndBatch
<1> QED
  BY <1>1, <1>2, <1>3, <1>4, <1>5 DEF VisitInv

\* A request that asks has no entry yet.
LEMMA AskInv ==
    ASSUME VisitInv, NEW c \in Calls, NEW w \in Urls, Ask(c, w)
    PROVE  VisitInv'
<1> DEFINE e == [call[c] EXCEPT !.pc = "asked", !.url = w, !.reg = current, !.asked = page[w]]
<1>1. call[c] \in CallRecord /\ current \in 0..MaxRegistries /\ page[w] \in {"live", "gone"}
  BY VisitRegistryAssumption DEF VisitInv, TypeOK
<1>2. /\ e \in CallRecord /\ call' = [call EXCEPT ![c] = e]
      /\ TypeOK' /\ \A d \in Calls : d # c => call'[d] = call[d]
  <2>1. e \in CallRecord /\ call' = [call EXCEPT ![c] = e]
    BY <1>1, AskedIsCall DEF Ask
  <2> QED
    BY <2>1, CallChanges, VisitRegistryAssumption, NoCallAssumption
    DEF VisitInv, TypeOK, Registries, Ask
<1>3. /\ call'[c].pc = "asked" /\ call'[c].url = w /\ call'[c].reg = current
      /\ call'[c].answer = call[c].answer
  BY <1>1, <1>2, CallChanges DEF VisitInv, CallRecord
<1>4. \A r \in Registries, u \in Urls : entry[r][u] # c
  BY VisitRegistryAssumption, NoCallAssumption DEF VisitInv, EntryInv, Ask
<1>5. EntryInv'
  BY <1>2, <1>3, <1>4, EntriesStay DEF VisitInv, EntryInv, Ask
<1>6. WaitInv'
  BY <1>2, <1>3, <1>4, OthersWait DEF VisitInv, Ask
<1>7. CallInv'
  BY <1>1, <1>2, <1>3, <1>4 DEF VisitInv, TypeOK, CallInv, Answers, Ask
<1>8. PageInv'
  BY DEF VisitInv, PageInv, Ask
<1>9. AnswerIsOfThisRegistry'
  BY <1>2, <1>3 DEF VisitInv, CallInv, AnswerIsOfThisRegistry, Answers, Ask
<1> QED
  BY <1>2, <1>5, <1>6, <1>7, <1>8, <1>9 DEF VisitInv

\* A request that enters visits on its own, leads a new entry or waits for the leader of
\* the one that is there.
LEMMA EnterInv ==
    ASSUME VisitInv, NEW c \in Calls, Enter(c)
    PROVE  VisitInv'
<1> DEFINE r == call[c].reg
           u == call[c].url
<1>1. call[c] \in CallRecord /\ r \in 0..MaxRegistries /\ u \in Urls
  BY DEF VisitInv, TypeOK, CallInv, Enter, CallRecord
<1>n. \A x \in Registries, y \in Urls : entry[x][y] # c
  BY NoCallAssumption DEF VisitInv, EntryInv, Enter
<1>2. CASE r = 0
  <2> DEFINE e == [call[c] EXCEPT !.pc = "visiting"]
  <2>1. e \in CallRecord /\ call' = [call EXCEPT ![c] = e] /\ UNCHANGED entry
    BY <1>1, <1>2, EnteredIsCall DEF Enter
  <2>2. TypeOK' /\ \A d \in Calls : d # c => call'[d] = call[d]
    BY <2>1, <1>1, CallChanges, VisitRegistryAssumption, NoCallAssumption
    DEF VisitInv, TypeOK, Registries, Enter
  <2>3. /\ call'[c].pc = "visiting" /\ call'[c].url = u /\ call'[c].reg = r
        /\ call'[c].answer = call[c].answer /\ call'[c].leader = call[c].leader
    <3>1. call'[c] = e
      BY <2>1, CallChanges DEF VisitInv
    <3> QED
      BY <1>1, <3>1 DEF CallRecord
  <2>4. EntryInv'
    BY <1>1, <1>n, <1>2, <2>1, <2>2, <2>3, EntriesStay DEF VisitInv
  <2>5. WaitInv'
    BY <1>1, <1>2, <2>2, <2>3, OthersWait DEF VisitInv, Enter
  <2>6. CallInv'
    BY <1>1, <2>2, <2>3 DEF VisitInv, TypeOK, CallInv, Answers, Enter
  <2>7. PageInv'
    BY DEF VisitInv, PageInv, Enter
  <2>8. AnswerIsOfThisRegistry'
    BY <2>2, <2>3 DEF VisitInv, AnswerIsOfThisRegistry, Enter
  <2> QED
    BY <2>2, <2>4, <2>5, <2>6, <2>7, <2>8 DEF VisitInv
<1>3. CASE r # 0 /\ entry[r][u] = NoCall
  <2> DEFINE e == [call[c] EXCEPT !.pc = "visiting", !.leader = c]
  <2>1. /\ e \in CallRecord /\ call' = [call EXCEPT ![c] = e]
        /\ entry' = [entry EXCEPT ![r][u] = c]
    BY <1>1, <1>3, EnteredIsCall DEF Enter, Entry
  <2>2. TypeOK' /\ \A d \in Calls : d # c => call'[d] = call[d]
    BY <2>1, <1>1, CallChanges, VisitRegistryAssumption, NoCallAssumption
    DEF VisitInv, TypeOK, Registries, Enter
  <2>3. /\ call'[c].pc = "visiting" /\ call'[c].url = u /\ call'[c].reg = r
        /\ call'[c].answer = call[c].answer /\ call'[c].leader = c
    <3>1. call'[c] = e
      BY <2>1, CallChanges DEF VisitInv
    <3> QED
      BY <1>1, <3>1 DEF CallRecord
  <2>4. EntryInv'
    <3>1. ASSUME NEW x \in Registries, NEW y \in Urls, entry'[x][y] # NoCall
          PROVE  \E k \in Calls : /\ k = entry'[x][y]
                                  /\ call'[k].pc \in {"visiting", "done"}
                                  /\ call'[k].reg = x /\ call'[k].url = y
                                  /\ call'[k].answer # "context"
      <4>1. CASE x = r /\ y = u
        BY <1>1, <2>1, <2>3, <4>1 DEF VisitInv, TypeOK, CallInv, Answers, Enter
      <4>2. CASE ~(x = r /\ y = u)
        <5>1. entry'[x][y] = entry[x][y]
          BY <2>1, <4>2 DEF VisitInv, TypeOK
        <5>2. PICK k \in Calls : k = entry[x][y]
          BY <3>1, <5>1 DEF VisitInv, TypeOK
        <5> QED
          BY <1>n, <2>2, <3>1, <5>1, <5>2 DEF VisitInv, EntryInv
      <4> QED
        BY <4>1, <4>2
    <3>2. ASSUME NEW d \in Calls, call'[d].pc = "visiting", call'[d].reg # 0
          PROVE  call'[d].url \in Urls /\ entry'[call'[d].reg][call'[d].url] = d
      <4>1. CASE d = c
        BY <1>1, <1>3, <2>1, <2>3, <4>1 DEF VisitInv, TypeOK, Registries
      <4>2. CASE d # c
        <5>1. /\ call[d].pc = "visiting" /\ call[d].reg \in Registries /\ call[d].url \in Urls
              /\ entry[call[d].reg][call[d].url] = d
          BY <2>2, <3>2, <4>2, VisitRegistryAssumption
          DEF VisitInv, TypeOK, EntryInv, CallInv, Registries
        <5>2. ~(call[d].reg = r /\ call[d].url = u)
          BY <1>3, <5>1, NoCallAssumption
        <5> QED
          BY <2>1, <2>2, <4>2, <5>1, <5>2 DEF VisitInv, TypeOK
      <4> QED
        BY <4>1, <4>2
    <3> QED
      BY <3>1, <3>2 DEF EntryInv
  <2>5. WaitInv'
    BY <1>1, <1>3, <2>2, <2>3, OthersWait DEF VisitInv, Enter
  <2>6. CallInv'
    BY <1>1, <2>2, <2>3 DEF VisitInv, TypeOK, CallInv, Answers, Enter
  <2>7. PageInv'
    BY DEF VisitInv, PageInv, Enter
  <2>8. AnswerIsOfThisRegistry'
    BY <2>2, <2>3 DEF VisitInv, AnswerIsOfThisRegistry, Enter
  <2> QED
    BY <2>2, <2>4, <2>5, <2>6, <2>7, <2>8 DEF VisitInv
<1>4. CASE r # 0 /\ entry[r][u] # NoCall
  <2>0. PICK l \in Calls : l = entry[r][u]
    BY <1>1, <1>4, VisitRegistryAssumption DEF VisitInv, TypeOK, Registries
  <2>w. /\ l # c /\ call[l].pc \in {"visiting", "done"}
        /\ call[l].reg = r /\ call[l].url = u
    BY <1>1, <1>4, <1>n, <2>0 DEF VisitInv, EntryInv, Registries
  <2> DEFINE e == [call[c] EXCEPT !.pc = "waiting", !.leader = l]
  <2>1. e \in CallRecord /\ call' = [call EXCEPT ![c] = e] /\ UNCHANGED entry
    BY <2>0, <1>1, <1>4, EnteredIsCall DEF Enter, Entry
  <2>2. TypeOK' /\ \A d \in Calls : d # c => call'[d] = call[d]
    BY <2>1, <1>1, CallChanges, VisitRegistryAssumption, NoCallAssumption
    DEF VisitInv, TypeOK, Registries, Enter
  <2>3. /\ call'[c].pc = "waiting" /\ call'[c].url = u /\ call'[c].reg = r
        /\ call'[c].answer = call[c].answer /\ call'[c].leader = l
    <3>1. call'[c] = e
      BY <2>1, CallChanges DEF VisitInv
    <3> QED
      BY <1>1, <3>1 DEF CallRecord
  <2>4. EntryInv'
    BY <1>1, <1>n, <1>4, <2>1, <2>2, <2>3, EntriesStay DEF VisitInv
  <2>5. WaitInv'
    BY <1>1, <1>4, <2>0, <2>w, <2>2, <2>3, OthersWait DEF VisitInv, Enter
  <2>6. CallInv'
    BY <1>1, <2>2, <2>3 DEF VisitInv, TypeOK, CallInv, Answers, Enter
  <2>7. PageInv'
    BY DEF VisitInv, PageInv, Enter
  <2>8. AnswerIsOfThisRegistry'
    BY <2>2, <2>3 DEF VisitInv, AnswerIsOfThisRegistry, Enter
  <2> QED
    BY <2>2, <2>4, <2>5, <2>6, <2>7, <2>8 DEF VisitInv
<1> QED
  BY <1>2, <1>3, <1>4

\* The end of a context changes nothing but the context.
LEMMA ExpireInv ==
    ASSUME VisitInv, NEW c \in Calls, Expire(c)
    PROVE  VisitInv'
<1> DEFINE e == [call[c] EXCEPT !.expired = TRUE]
<1>1. call[c] \in CallRecord
  BY DEF VisitInv, TypeOK
<1>2. /\ e \in CallRecord /\ call' = [call EXCEPT ![c] = e]
      /\ TypeOK' /\ \A d \in Calls : d # c => call'[d] = call[d]
  <2>1. e \in CallRecord /\ call' = [call EXCEPT ![c] = e]
    BY <1>1, ExpiredIsCall DEF Expire
  <2> QED
    BY <2>1, CallChanges, VisitRegistryAssumption, NoCallAssumption
    DEF VisitInv, TypeOK, Registries, Expire
<1>3. /\ call'[c].pc = call[c].pc /\ call'[c].url = call[c].url /\ call'[c].reg = call[c].reg
      /\ call'[c].answer = call[c].answer /\ call'[c].leader = call[c].leader
  BY <1>1, <1>2, CallChanges DEF VisitInv, CallRecord
<1>4. call[c].pc = "waiting" => call[c].leader \in Calls /\ call[c].leader # c
                              /\ call[call[c].leader].pc \in {"visiting", "done"}
                              /\ call[call[c].leader].reg = call[c].reg
                              /\ call[call[c].leader].url = call[c].url
  BY DEF VisitInv, WaitInv
<1>5. EntryInv'
  BY <1>2, <1>3, <1>4, EntriesStay DEF VisitInv, EntryInv, Expire
<1>6. WaitInv'
  BY <1>2, <1>3, <1>4, OthersWait DEF VisitInv, Expire
<1>7. CallInv'
  BY <1>1, <1>2, <1>3, <1>4 DEF VisitInv, TypeOK, CallInv, Answers, Expire
<1>8. PageInv'
  BY DEF VisitInv, PageInv, Expire
<1>9. AnswerIsOfThisRegistry'
  BY <1>2, <1>3 DEF VisitInv, CallInv, AnswerIsOfThisRegistry, Answers, Expire
<1> QED
  BY <1>2, <1>5, <1>6, <1>7, <1>8, <1>9 DEF VisitInv

\* A visit that ends takes its entry away if its answer is not to be kept.
LEMMA VisitStepInv ==
    ASSUME VisitInv, NEW c \in Calls, NEW a \in Answers, Visit(c, a)
    PROVE  VisitInv'
<1> DEFINE e == [call[c] EXCEPT !.pc = "done", !.answer = a, !.expired = FALSE]
<1>1. call[c] \in CallRecord
  BY DEF VisitInv, TypeOK
<1>2. /\ e \in CallRecord /\ call' = [call EXCEPT ![c] = e]
      /\ TypeOK' /\ \A d \in Calls : d # c => call'[d] = call[d]
  <2>1. e \in CallRecord /\ call' = [call EXCEPT ![c] = e]
    BY <1>1, DoneIsCall DEF Visit, Done
  <2> QED
    BY <2>1, CallChanges, VisitRegistryAssumption, NoCallAssumption
    DEF VisitInv, TypeOK, Registries, Visit
<1>3. /\ call'[c].pc = "done" /\ call'[c].url = call[c].url /\ call'[c].reg = call[c].reg
      /\ call'[c].answer = a
  BY <1>1, <1>2, CallChanges DEF VisitInv, CallRecord
<1>4. \A r \in Registries, u \in Urls : entry[r][u] = c => call[c].reg = r /\ call[c].url = u
  BY NoCallAssumption DEF VisitInv, EntryInv
<1>5. EntryInv'
  <2>1. CASE call[c].reg # 0 /\ a = "context"
    <3>1. entry' = [entry EXCEPT ![call[c].reg][call[c].url] = NoCall]
      BY <2>1 DEF Visit, Forget
    <3>2. \A r \in Registries, u \in Urls : entry'[r][u] # NoCall
              => entry'[r][u] = entry[r][u] /\ entry[r][u] # c
      BY <1>4, <2>1, <3>1 DEF VisitInv, TypeOK
    <3>3. \A d \in Calls : d # c /\ call[d].pc = "visiting" /\ call[d].reg # 0
              => entry'[call[d].reg][call[d].url] = d
      BY <3>1, NoCallAssumption DEF VisitInv, TypeOK, EntryInv, CallRecord, Registries, Visit
    <3> QED
      BY <1>2, <1>3, <3>2, <3>3 DEF VisitInv, TypeOK, EntryInv
  <2>2. CASE call[c].reg = 0 \/ a # "context"
    <3>1. UNCHANGED entry
      BY <2>2 DEF Visit, Forget
    <3>2. \A r \in Registries, u \in Urls : entry[r][u] = c => a # "context"
      BY <1>4, <2>2 DEF Registries
    <3> QED
      BY <1>2, <1>3, <3>1, <3>2, EntriesStay DEF VisitInv
  <2> QED
    BY <2>1, <2>2
<1>6. WaitInv'
  BY <1>2, <1>3, <1>4, OthersWait DEF VisitInv, Visit
<1>7. CallInv'
  BY <1>1, <1>2, <1>3, <1>4 DEF VisitInv, TypeOK, CallInv, Answers, Visit
<1>8. PageInv'
  BY DEF VisitInv, PageInv, Visit
<1>9. AnswerIsOfThisRegistry'
  BY <1>2, <1>3
  DEF VisitInv, TypeOK, CallInv, PageInv, AnswerIsOfThisRegistry, Registries, CallRecord, Visit
<1> QED
  BY <1>2, <1>5, <1>6, <1>7, <1>8, <1>9 DEF VisitInv

\* Who shares an answer gets one of the same registry and URL.
LEMMA ShareInv ==
    ASSUME VisitInv, NEW c \in Calls, Share(c)
    PROVE  VisitInv'
<1> DEFINE e == [call[c] EXCEPT !.pc = "done", !.answer = call[call[c].leader].answer,
                               !.expired = FALSE]
<1>1. call[c] \in CallRecord /\ call[call[c].leader].answer \in Answers
  BY DEF VisitInv, TypeOK, CallInv, WaitInv, Share
<1>2. /\ e \in CallRecord /\ call' = [call EXCEPT ![c] = e]
      /\ TypeOK' /\ \A d \in Calls : d # c => call'[d] = call[d]
  <2>1. e \in CallRecord /\ call' = [call EXCEPT ![c] = e]
    BY <1>1, DoneIsCall DEF Share, Done
  <2> QED
    BY <2>1, CallChanges, VisitRegistryAssumption, NoCallAssumption
    DEF VisitInv, TypeOK, Registries, Share
<1>3. /\ call'[c].pc = "done" /\ call'[c].url = call[c].url /\ call'[c].reg = call[c].reg
      /\ call'[c].answer = call[call[c].leader].answer
  BY <1>1, <1>2, CallChanges DEF VisitInv, CallRecord
<1>4. \A r \in Registries, u \in Urls : entry[r][u] # c
  BY VisitRegistryAssumption, NoCallAssumption DEF VisitInv, EntryInv, Share
<1>5. EntryInv'
  BY <1>2, <1>3, <1>4, EntriesStay DEF VisitInv, EntryInv, Share
<1>6. WaitInv'
  BY <1>2, <1>3, <1>4, OthersWait DEF VisitInv, Share
<1>7. CallInv'
  BY <1>1, <1>2, <1>3, <1>4 DEF VisitInv, TypeOK, CallInv, Answers, Share
<1>8. PageInv'
  BY DEF VisitInv, PageInv, Share
<1>9. AnswerIsOfThisRegistry'
  <2>1. PICK l \in Calls : /\ l = call[c].leader
                           /\ call[l].reg = call[c].reg /\ call[l].url = call[c].url
    BY DEF VisitInv, WaitInv, Share
  <2> QED
    BY <1>2, <1>3, <2>1 DEF VisitInv, AnswerIsOfThisRegistry, Share
<1> QED
  BY <1>2, <1>5, <1>6, <1>7, <1>8, <1>9 DEF VisitInv

\* Who gives up had no entry.
LEMMA GiveUpInv ==
    ASSUME VisitInv, NEW c \in Calls, GiveUp(c)
    PROVE  VisitInv'
<1> DEFINE e == [call[c] EXCEPT !.pc = "done", !.answer = "context", !.expired = FALSE]
<1>1. call[c] \in CallRecord /\ "context" \in Answers
  BY DEF VisitInv, TypeOK, Answers
<1>2. /\ e \in CallRecord /\ call' = [call EXCEPT ![c] = e]
      /\ TypeOK' /\ \A d \in Calls : d # c => call'[d] = call[d]
  <2>1. e \in CallRecord /\ call' = [call EXCEPT ![c] = e]
    BY <1>1, DoneIsCall DEF GiveUp, Done
  <2> QED
    BY <2>1, CallChanges, VisitRegistryAssumption, NoCallAssumption
    DEF VisitInv, TypeOK, Registries, GiveUp
<1>3. /\ call'[c].pc = "done" /\ call'[c].url = call[c].url /\ call'[c].reg = call[c].reg
      /\ call'[c].answer = "context"
  BY <1>1, <1>2, CallChanges DEF VisitInv, CallRecord
<1>4. \A r \in Registries, u \in Urls : entry[r][u] # c
  BY VisitRegistryAssumption, NoCallAssumption DEF VisitInv, EntryInv, GiveUp
<1>5. EntryInv'
  BY <1>2, <1>3, <1>4, EntriesStay DEF VisitInv, EntryInv, GiveUp
<1>6. WaitInv'
  BY <1>2, <1>3, <1>4, OthersWait DEF VisitInv, GiveUp
<1>7. CallInv'
  BY <1>1, <1>2, <1>3, <1>4 DEF VisitInv, TypeOK, CallInv, Answers, GiveUp
<1>8. PageInv'
  BY DEF VisitInv, PageInv, GiveUp
<1>9. AnswerIsOfThisRegistry'
  BY <1>2, <1>3 DEF VisitInv, CallInv, AnswerIsOfThisRegistry, Answers, GiveUp
<1> QED
  BY <1>2, <1>5, <1>6, <1>7, <1>8, <1>9 DEF VisitInv

\* A step that changes nothing.
LEMMA StutterInv == ASSUME VisitInv, UNCHANGED registryVars PROVE VisitInv'
BY
DEF VisitInv, TypeOK, EntryInv, WaitInv, CallInv, PageInv, AnswerIsOfThisRegistry, registryVars

\* There is nothing in the beginning.
LEMMA InitInv == Init => VisitInv
<1> SUFFICES ASSUME Init
             PROVE  VisitInv
  OBVIOUS
<1>1. NewCall \in CallRecord
  BY VisitRegistryAssumption, NoCallAssumption DEF NewCall, CallRecord
<1>2. TypeOK
  BY <1>1, VisitRegistryAssumption, NoCallAssumption DEF TypeOK, Init, Registries
<1>3. EntryInv /\ WaitInv /\ CallInv /\ PageInv /\ AnswerIsOfThisRegistry
  BY DEF Init, NewCall, Answers, EntryInv, WaitInv, CallInv, PageInv, AnswerIsOfThisRegistry
<1> QED
  BY <1>2, <1>3 DEF VisitInv

\* The entries of the registries, those who wait for them and their answers fit together
\* in every state (FetchApplyPage, ProbeURL and the registry they share).
THEOREM VisitInvariance == Spec => []VisitInv
<1>1. VisitInv /\ [Next]_registryVars => VisitInv'
  <2> SUFFICES ASSUME VisitInv, [Next]_registryVars
               PROVE  VisitInv'
    OBVIOUS
  <2>1. ASSUME NEW c \in Calls, Proceed(c)
        PROVE  VisitInv'
    BY <2>1, EnterInv, VisitStepInv, ShareInv, GiveUpInv DEF Proceed
  <2>2. ASSUME NEW b \in Batches, LookForRegistry(b) \/ BeginBatch(b) \/ EndBatch(b)
        PROVE  VisitInv'
    BY <2>2, LookForRegistryInv, BeginBatchInv, EndBatchInv
  <2> QED
    BY <2>1, <2>2, TakeDownInv, BeginFetchInv, AskInv, ExpireInv, StutterInv DEF Next
<1> QED
  BY <1>1, InitInv, PTL DEF Spec

\* Every state is well typed; in particular the registry in use is one that was made
\* (beginURLVisitRun).
THEOREM TypeCorrectness == Spec => []TypeOK
BY VisitInvariance, PTL DEF VisitInv

\* At most one visit of a URL is under way for a registry, whatever becomes of
\* contexts, failed visits and the global (FetchApplyPage, ProbeURL).
THEOREM SingleFlightTheorem == Spec => []SingleFlight
<1>1. VisitInv => SingleFlight
  BY DEF VisitInv, EntryInv, SingleFlight
<1> QED
  BY <1>1, VisitInvariance, PTL

\* No map entry holds the end of somebody's context (shouldForgetURLVisitError).
THEOREM CancelledIsForgottenTheorem == Spec => []CancelledIsForgotten
<1>1. VisitInv => CancelledIsForgotten
  BY DEF VisitInv, EntryInv, CancelledIsForgotten
<1> QED
  BY <1>1, VisitInvariance, PTL

\* A posting that was gone when the registry was made is not reported as there.
THEOREM AnswerIsOfThisRegistryTheorem == Spec => []AnswerIsOfThisRegistry
BY VisitInvariance, PTL DEF VisitInv


-----------------------------------------------------------------------------
(* The batch: what its operators preserve.                                 *)

\* What a job or a record says on good evidence, somebody claimed.
Earned(w, r) == \A f \in Fields : Backed(r, f) => r[f] \in ClaimsIn(w, f)

\* A job of the batch at any time: its trusted values are earned, and it knows only
\* pages of the world.
GoodJob(w, job) ==
    IsJob(job) /\ Earned(w, job) /\ job.apply \in AppliesOf(w) /\ job.text \in PagesOf(w) \cup {None}

\* A record of a company, in a cache, in a profile or in the store.
GoodRecord(w, r) == IsRecord(r) /\ Earned(w, r)

\* A website that is missing, or was accepted as one.
OkSite(s) == s = None \/ LooksLikeSite(s, None)

\* What every operator on a job preserves, and the fields no operator on the
\* identity touches.
Onward(w, job, new) ==
    /\ GoodJob(w, new)
    /\ new.apply = job.apply /\ new.text = job.text /\ new.profile = job.profile

\* A website that is known stays as it is, and one that is there is not taken away.
Keeps(job, new) ==
    /\ ~Lacks(job, "website") => new.website = job.website
    /\ job.website # None => new.website # None

\* A website that was accepted before is still one.
Sited(job, new) == OkSite(job.website) => OkSite(new.website)

\* All three: what most operators do with a job.
Mild(w, job, new) == Onward(w, job, new) /\ Keeps(job, new) /\ Sited(job, new)

\* What such evidence is for is not trusted.
Weak(confidence, provisional) ==
    \A value, source, at : EvidenceRank(Evidence(value, source, at, confidence, provisional)) = 0

\* Provisional evidence is for nobody to trust.
LEMMA ProvisionalIsWeak == ASSUME NEW confidence PROVE Weak(confidence, TRUE)
  BY DEF Weak, EvidenceRank, Evidence

\* The fields of an identity are fields of a job.
LEMMA FieldNames == {"website", "summary", "industry"} = Fields /\ Fields \subseteq JobFields /\ "identity" \in JobFields
  BY DEF Fields, JobFields

\* One operator after the other.
LEMMA OnwardOn ==
  ASSUME NEW w, NEW a, NEW b, NEW c, Onward(w, a, b), Onward(w, b, c)
  PROVE  Onward(w, a, c)
  BY DEF Onward

\* The same of websites that are kept.
LEMMA KeepsOn ==
  ASSUME NEW a, NEW b, NEW c, Keeps(a, b), Keeps(b, c)
  PROVE  Keeps(a, c)
  BY DEF Keeps, Lacks

\* And of all three.
LEMMA MildOn ==
  ASSUME NEW w, NEW a, NEW b, NEW c, Mild(w, a, b), Mild(w, b, c)
  PROVE  Mild(w, a, c)
  BY OnwardOn, KeepsOn DEF Mild, Sited

\* What Put changes.
LEMMA PutFields ==
  ASSUME NEW job, IsJob(job), NEW f \in Fields, NEW value, NEW source, NEW at, NEW confidence, NEW provisional
  PROVE  LET new == Put(job, f, value, source, at, confidence, provisional)
         IN  /\ IsJob(new)
             /\ new[f] = value
             /\ new.identity[f] = Evidence(value, source, at, confidence, provisional)
             /\ \A x \in JobFields \ {f, "identity"} : new[x] = job[x]
             /\ \A g \in Fields \ {f} : new.identity[g] = job.identity[g]
<1> DEFINE e == Evidence(value, source, at, confidence, provisional)
           new == Put(job, f, value, source, at, confidence, provisional)
<1>1. f \in JobFields /\ f # "identity" /\ "identity" \in JobFields
  BY FieldNames DEF Fields
<1>2. new = [job EXCEPT ![f] = value, !.identity[f] = e]
  BY DEF Put
<1>3. job = [x \in JobFields |-> job[x]] /\ job.identity = [g \in Fields |-> job.identity[g]]
  BY DEF IsJob, IsIdentity
<1>4. new = [x \in JobFields |-> IF x = "identity" THEN [job.identity EXCEPT ![f] = e] ELSE IF x = f THEN value ELSE job[x]]
  BY <1>1, <1>2, <1>3
<1>5. {"confidence", "provisional"} \subseteq DOMAIN e
  BY DEF Evidence
<1> HIDE DEF new, e
<1>6. new[f] = value /\ new.identity = [job.identity EXCEPT ![f] = e]
  BY <1>1, <1>4
<1>7. new.identity = [g \in Fields |-> IF g = f THEN e ELSE job.identity[g]]
  BY <1>3, <1>6
<1>8. IsIdentity(new.identity)
  BY <1>5, <1>7 DEF IsJob, IsIdentity
<1>9. IsJob(new)
  BY <1>4, <1>8 DEF IsJob
<1> QED BY <1>4, <1>6, <1>7, <1>9, <1>1 DEF new, e

\* Putting a claim, or something provisional, leaves a good job.
LEMMA PutOnward ==
  ASSUME NEW w, NEW job, GoodJob(w, job), NEW f \in Fields,
         NEW value, NEW source, NEW at, NEW confidence, NEW provisional,
         value \in ClaimsIn(w, f) \/ Weak(confidence, provisional)
  PROVE  Onward(w, job, Put(job, f, value, source, at, confidence, provisional))
<1> DEFINE new == Put(job, f, value, source, at, confidence, provisional)
<1>1. /\ IsJob(new) /\ new[f] = value
      /\ new.identity[f] = Evidence(value, source, at, confidence, provisional)
      /\ \A x \in JobFields \ {f, "identity"} : new[x] = job[x]
      /\ \A g \in Fields \ {f} : new.identity[g] = job.identity[g]
  BY PutFields DEF GoodJob
<1> HIDE DEF new
<1>2. new.apply = job.apply /\ new.text = job.text /\ new.profile = job.profile
  BY <1>1 DEF JobFields, Fields
<1>3. ASSUME NEW g \in Fields, Backed(new, g) PROVE new[g] \in ClaimsIn(w, g)
  <2>1. CASE g = f
    <3>1. ~Weak(confidence, provisional)
      BY <1>1, <1>3, <2>1 DEF Backed, Weak
    <3> QED BY <1>1, <2>1, <3>1
  <2>2. CASE g # f
    <3>1. new[g] = job[g] /\ new.identity[g] = job.identity[g]
      BY <1>1, <2>2, FieldNames DEF Fields
    <3>2. Backed(job, g)
      BY <1>3, <3>1 DEF Backed
    <3> QED BY <3>1, <3>2 DEF GoodJob, Earned
  <2> QED BY <2>1, <2>2
<1> QED BY <1>1, <1>2, <1>3 DEF Onward, GoodJob, Earned, new

\* To do nothing is mild.
LEMMA GoodIsMild == ASSUME NEW w, NEW job, GoodJob(w, job) PROVE Mild(w, job, job)
  BY DEF Mild, Onward, Keeps, Sited

\* So is to put a claimed value anywhere but in the website.
LEMMA PutMild ==
  ASSUME NEW w, NEW job, GoodJob(w, job), NEW f \in Fields \ {"website"},
         NEW value, NEW source, NEW at, NEW confidence, NEW provisional,
         value \in ClaimsIn(w, f) \/ Weak(confidence, provisional)
  PROVE  Mild(w, job, Put(job, f, value, source, at, confidence, provisional))
<1> DEFINE new == Put(job, f, value, source, at, confidence, provisional)
<1>1. Onward(w, job, new)
  BY PutOnward
<1>2. \A x \in JobFields \ {f, "identity"} : new[x] = job[x]
  BY PutFields DEF GoodJob
<1> HIDE DEF new
<1>3. new.website = job.website
  BY <1>2 DEF JobFields, Fields
<1> QED BY <1>1, <1>3 DEF Mild, Keeps, Sited, new

\* Fill puts a value where there is none worth keeping.
LEMMA FillOnward ==
  ASSUME NEW w, NEW job, GoodJob(w, job), NEW f \in Fields,
         NEW value, NEW source, NEW at, NEW confidence, NEW provisional,
         value # None => value \in ClaimsIn(w, f) \/ Weak(confidence, provisional)
  PROVE  LET new == Fill(job, f, value, source, at, confidence, provisional)
         IN  /\ Onward(w, job, new) /\ Keeps(job, new)
             /\ new = job \/ (value # None /\ new = Put(job, f, value, source, at, confidence, provisional))
<1>1. CASE ~(value # None /\ Lacks(job, f))
  BY <1>1, GoodIsMild DEF Fill, Mild
<1>2. CASE value # None /\ Lacks(job, f)
  <2> DEFINE new == Put(job, f, value, source, at, confidence, provisional)
  <2>1. Onward(w, job, new)
    BY <1>2, PutOnward
  <2>2. new[f] = value /\ \A x \in JobFields \ {f, "identity"} : new[x] = job[x]
    BY PutFields DEF GoodJob
  <2>3. Fill(job, f, value, source, at, confidence, provisional) = new
    BY <1>2 DEF Fill
  <2> HIDE DEF new
  <2>4. Keeps(job, new)
    <3>1. CASE f = "website"
      BY <1>2, <2>2, <3>1 DEF Keeps
    <3>2. CASE f # "website"
      <4>1. new.website = job.website
        BY <2>2, <3>2 DEF JobFields, Fields
      <4> QED BY <4>1 DEF Keeps
    <3> QED BY <3>1, <3>2
  <2> QED BY <1>2, <2>1, <2>3, <2>4 DEF new
<1> QED BY <1>1, <1>2

\* To fill in a claimed value is mild, for a website that is one.
LEMMA FillMild ==
  ASSUME NEW w, NEW job, GoodJob(w, job), NEW f \in Fields,
         NEW value, NEW source, NEW at, NEW confidence, NEW provisional,
         value # None => value \in ClaimsIn(w, f) \/ Weak(confidence, provisional),
         f = "website" => OkSite(value)
  PROVE  Mild(w, job, Fill(job, f, value, source, at, confidence, provisional))
<1> DEFINE put == Put(job, f, value, source, at, confidence, provisional)
           new == Fill(job, f, value, source, at, confidence, provisional)
<1>1. Onward(w, job, new) /\ Keeps(job, new) /\ (new = job \/ new = put)
  BY FillOnward
<1>2. put[f] = value /\ \A x \in JobFields \ {f, "identity"} : put[x] = job[x]
  BY PutFields DEF GoodJob
<1> HIDE DEF new, put
<1>3. put.website = job.website \/ (f = "website" /\ put.website = value)
  BY <1>2 DEF JobFields, Fields
<1> QED BY <1>1, <1>3 DEF Mild, Sited, new

\* What else a page changes.
LEMMA CompanyMild ==
  ASSUME NEW w, NEW job, GoodJob(w, job), NEW company
  PROVE  Mild(w, job, [job EXCEPT !.company = company]) /\ Mild(w, job, WithCompany(job, company))
<1> DEFINE new == [job EXCEPT !.company = company]
<1>1. new = [x \in JobFields |-> IF x = "company" THEN company ELSE job[x]]
  BY DEF GoodJob, IsJob
<1> HIDE DEF new
<1>2. /\ new.apply = job.apply /\ new.text = job.text /\ new.profile = job.profile
      /\ new.identity = job.identity /\ \A f \in Fields : new[f] = job[f]
  BY <1>1 DEF JobFields, Fields
<1>3. GoodJob(w, new)
  BY <1>1, <1>2 DEF GoodJob, IsJob, Earned, Backed
<1>4. new.website = job.website
  BY <1>2 DEF Fields
<1>5. Mild(w, job, new)
  BY <1>2, <1>3, <1>4 DEF Mild, Onward, Keeps, Sited
<1> QED BY <1>5, GoodIsMild DEF new, WithCompany

\* Neither does a mark of a paid posting.
LEMMA PaidMild ==
  ASSUME NEW w, NEW job, GoodJob(w, job), NEW paid
  PROVE  Mild(w, job, [job EXCEPT !.paid = paid])
<1> DEFINE new == [job EXCEPT !.paid = paid]
<1>1. new = [x \in JobFields |-> IF x = "paid" THEN paid ELSE job[x]]
  BY DEF GoodJob, IsJob
<1> HIDE DEF new
<1>2. /\ new.apply = job.apply /\ new.text = job.text /\ new.profile = job.profile
      /\ new.identity = job.identity /\ \A f \in Fields : new[f] = job[f]
  BY <1>1 DEF JobFields, Fields
<1>3. GoodJob(w, new)
  BY <1>1, <1>2 DEF GoodJob, IsJob, Earned, Backed
<1>4. new.website = job.website
  BY <1>2 DEF Fields
<1> QED BY <1>2, <1>3, <1>4 DEF Mild, Onward, Keeps, Sited, new

\* Nor is a summary missed that is taken away.
LEMMA UntoldMild ==
  ASSUME NEW w, NEW job, GoodJob(w, job)
  PROVE  Mild(w, job, [job EXCEPT !.summary = None])
<1> DEFINE new == [job EXCEPT !.summary = None]
<1>1. new = [x \in JobFields |-> IF x = "summary" THEN None ELSE job[x]]
  BY DEF GoodJob, IsJob
<1> HIDE DEF new
<1>2. /\ new.apply = job.apply /\ new.text = job.text /\ new.profile = job.profile
      /\ new.identity = job.identity /\ new.summary = None /\ \A f \in Fields \ {"summary"} : new[f] = job[f]
  BY <1>1 DEF JobFields, Fields
<1>3. ASSUME NEW f \in Fields, Backed(new, f) PROVE new[f] \in ClaimsIn(w, f)
  <2>1. f # "summary"
    BY <1>2, <1>3 DEF Backed
  <2>2. Backed(job, f)
    BY <2>1, <1>2, <1>3 DEF Backed
  <2> QED BY <2>1, <2>2, <1>2 DEF GoodJob, Earned
<1>4. GoodJob(w, new)
  BY <1>1, <1>2, <1>3 DEF GoodJob, IsJob, Earned
<1>5. new.website = job.website
  BY <1>2 DEF Fields
<1> QED BY <1>2, <1>4, <1>5 DEF Mild, Onward, Keeps, Sited, new

\* A field that is cleared lacks everything.
LEMMA ClearedOnward ==
  ASSUME NEW w, NEW job, GoodJob(w, job), NEW f \in Fields
  PROVE  LET new == Cleared(job, f)
         IN  /\ Onward(w, job, new) /\ new[f] = None
             /\ \A x \in JobFields \ {f, "identity"} : new[x] = job[x]
<1> DEFINE new == Cleared(job, f)
<1>1. f \in JobFields /\ f # "identity" /\ "identity" \in JobFields
  BY FieldNames DEF Fields
<1>2. job = [x \in JobFields |-> job[x]] /\ job.identity = [g \in Fields |-> job.identity[g]]
  BY DEF GoodJob, IsJob, IsIdentity
<1>3. new = [x \in JobFields |-> IF x = "identity" THEN [job.identity EXCEPT ![f] = None] ELSE IF x = f THEN None ELSE job[x]]
  BY <1>1, <1>2 DEF Cleared
<1> HIDE DEF new
<1>4. new[f] = None /\ new.identity = [job.identity EXCEPT ![f] = None]
      /\ \A x \in JobFields \ {f, "identity"} : new[x] = job[x]
  BY <1>1, <1>3
<1>5. new.identity = [g \in Fields |-> IF g = f THEN None ELSE job.identity[g]]
  BY <1>2, <1>4
<1>6. IsJob(new)
  <2>1. IsIdentity(new.identity)
    BY <1>5 DEF GoodJob, IsJob, IsIdentity
  <2> QED BY <1>3, <2>1 DEF IsJob
<1>7. new.apply = job.apply /\ new.text = job.text /\ new.profile = job.profile
  BY <1>4 DEF JobFields, Fields
<1>8. ASSUME NEW g \in Fields, Backed(new, g) PROVE new[g] \in ClaimsIn(w, g)
  <2>1. g # f
    BY <1>4, <1>8 DEF Backed
  <2>2. new[g] = job[g] /\ new.identity[g] = job.identity[g]
    BY <2>1, <1>4, <1>5, FieldNames DEF Fields
  <2>3. Backed(job, g)
    BY <2>2, <1>8 DEF Backed
  <2> QED BY <2>2, <2>3 DEF GoodJob, Earned
<1> QED BY <1>4, <1>6, <1>7, <1>8 DEF Onward, GoodJob, Earned, new

-----------------------------------------------------------------------------
(* What is claimed.                                                        *)

\* The claims about each field, as the sets they are made of.
LEMMA KindsOfClaims ==
  ASSUME NEW w
  PROVE  /\ ClaimsIn(w, "website") = BroughtIn(w, "website") \cup {Normal(s) : s \in SitesIn(w) \ {None}}
         /\ ClaimsIn(w, "summary") =
              BroughtIn(w, "summary") \cup Said(w, "summary") \cup {p.summary : p \in PagesOf(w)}
         /\ ClaimsIn(w, "industry") =
              BroughtIn(w, "industry") \cup Said(w, "industry") \cup UNION {{p.industry, p.facts} : p \in PagesOf(w)}
  BY DEF ClaimsIn

\* What a page says is a claim.
LEMMA ClaimsOfPage ==
  ASSUME NEW w, NEW p \in PagesOf(w)
  PROVE  /\ p.summary \in ClaimsIn(w, "summary")
         /\ p.industry \in ClaimsIn(w, "industry") /\ p.facts \in ClaimsIn(w, "industry")
         /\ \A s \in Range(p.links) \cup {p.labelled, p.structured, p.onBoard} :
               s # None => Normal(s) \in ClaimsIn(w, "website")
<1>1. p.summary \in {q.summary : q \in PagesOf(w)}
  OBVIOUS
<1>2. p.industry \in UNION {{q.industry, q.facts} : q \in PagesOf(w)}
      /\ p.facts \in UNION {{q.industry, q.facts} : q \in PagesOf(w)}
  OBVIOUS
<1>3. Range(p.links) \cup {p.labelled, p.structured, p.onBoard} \subseteq SitesIn(w)
  BY DEF SitesIn
<1> QED BY <1>1, <1>2, <1>3, KindsOfClaims

\* What a posting or the model says.
LEMMA ClaimsOfRecord ==
  ASSUME NEW w, NEW p \in PagesOf(w), NEW r \in {p.posting, AnswerIn(w, p)}, r # None
  PROVE  /\ r.summary \in ClaimsIn(w, "summary") /\ r.industry \in ClaimsIn(w, "industry")
         /\ r.website # None => Normal(r.website) \in ClaimsIn(w, "website")
<1>1. r.summary \in Said(w, "summary") /\ r.industry \in Said(w, "industry") /\ r.website \in Said(w, "website")
  BY DEF Said
<1>2. r.website \in SitesIn(w)
  BY <1>1 DEF SitesIn
<1> QED BY <1>1, <1>2, KindsOfClaims

\* And the site a posting leads to.
LEMMA ClaimOfPosting ==
  ASSUME NEW w, NEW a \in AppliesOf(w), a.site # None
  PROVE  Normal(a.site) \in ClaimsIn(w, "website")
<1>1. a.site \in SitesIn(w)
  BY DEF SitesIn
<1> QED BY <1>1, KindsOfClaims

\* To normalise a website once more changes nothing.
LEMMA NormalTwice == ASSUME NEW s PROVE Normal(Normal(s)) = Normal(s)
<1>1. Normal(s) = [x \in DOMAIN s |-> IF x = "prefix" THEN FALSE ELSE s[x]]
  BY DEF Normal
<1>2. Normal(Normal(s)) = [x \in DOMAIN s |-> IF x = "prefix" THEN FALSE ELSE Normal(s)[x]]
  BY <1>1 DEF Normal
<1> QED BY <1>1, <1>2

\* The normal form of a claimed website is claimed.
LEMMA ClaimsAreNormal ==
  ASSUME NEW w, NEW s \in ClaimsIn(w, "website"), s # None
  PROVE  Normal(s) \in ClaimsIn(w, "website")
<1>1. CASE s \in BroughtIn(w, "website")
  <2>1. s \in SitesIn(w)
    BY <1>1 DEF SitesIn
  <2> QED BY <2>1, KindsOfClaims
<1>2. CASE \E t \in SitesIn(w) \ {None} : s = Normal(t)
  BY <1>2, NormalTwice
<1> QED BY <1>1, <1>2, KindsOfClaims

\* A site that looks like one still does in its normal form.
LEMMA NormalSite ==
  ASSUME NEW s, IsSite(s), NEW at, LooksLikeSite(s, at)
  PROVE  Normal(s) # None /\ LooksLikeSite(Normal(s), None) /\ OkSite(Normal(s))
<1>1. s # None /\ {"host", "plausible"} \subseteq DOMAIN s /\ s.host # None /\ Normal(s) # None /\ s.plausible
  BY DEF IsSite, LooksLikeSite
<1>2. Normal(s) = [x \in DOMAIN s |-> IF x = "prefix" THEN FALSE ELSE s[x]]
  BY DEF Normal
<1>3. Normal(s).host = s.host /\ Normal(s).plausible = s.plausible
  BY <1>1, <1>2
<1> QED BY <1>1, <1>3 DEF LooksLikeSite, OkSite

\* The pages of a world, as WorldAssumption has them.
LEMMA PageTypes ==
  ASSUME NEW w \in Worlds, NEW p \in PagesOf(w)
  PROVE  /\ p # None
         /\ {"at", "labelled", "structured", "links"} \subseteq DOMAIN p
         /\ IsSite(p.labelled) /\ IsSite(p.structured) /\ IsSite(p.onBoard)
         /\ p.links \in Seq(Range(p.links)) /\ \A s \in Range(p.links) : IsSite(s)
         /\ p.posting # None => IsSite(p.posting.website)
         /\ AnswerIn(w, p) # None => IsSite(AnswerIn(w, p).website)
         /\ p.profile \in w.profiles \cup {None}
<1>1. p # None
  BY DEF PagesOf
<1>2. AnswerIn(w, p) # None => AnswerIn(w, p) \in Range(w.answers) \ {None}
  BY DEF AnswerIn, Range
<1> QED BY <1>1, <1>2, WorldAssumption

\* The first of a sequence that passes a test.
LEMMA FirstIn ==
  ASSUME NEW S, NEW q \in Seq(S), NEW I, I = {i \in 1..Len(q) : i \in I}, I # {}
  PROVE  Min(I) \in I /\ Min(I) \in DOMAIN q /\ q[Min(I)] \in Range(q)
<1>1. I \in SUBSET Nat /\ I \subseteq DOMAIN q
  OBVIOUS
<1>2. \E m \in I : \A n \in I : m <= n
  BY <1>1, LeastNumber
<1>3. Min(I) \in I
  BY <1>2 DEF Min
<1> QED BY <1>1, <1>3 DEF Range

\* A normal form that looks like a site on some page does so anywhere.
LEMMA NormalIsSite ==
  ASSUME NEW s, IsSite(s), s # None, NEW at, LooksLikeSite(Normal(s), at)
  PROVE  OkSite(Normal(s))
<1>1. Normal(s) = [x \in DOMAIN s |-> IF x = "prefix" THEN FALSE ELSE s[x]]
  BY DEF Normal
<1>2. Normal(s).host = s.host /\ Normal(s).plausible = s.plausible
  BY <1>1 DEF IsSite
<1>3. LooksLikeSite(s, at)
  BY <1>2 DEF LooksLikeSite
<1> QED BY <1>3, NormalSite

\* The site a page gives for a company, whatever it is served by.
LEMMA SiteOnClaim ==
  ASSUME NEW w \in Worlds, NEW p \in PagesOf(w), NEW q, NEW company,
         q.labelled = p.labelled, q.structured = p.structured, q.links = p.links
  PROVE  /\ SiteOn(q, company) # None => SiteOn(q, company) \in ClaimsIn(w, "website")
         /\ OkSite(SiteOn(q, company))
<1> DEFINE fits(s) == LooksLikeSite(s, q.at) /\ SiteMatches(s, company)
           I == {i \in 1..Len(q.links) : fits(q.links[i])}
           fit == SelectInSeq(q.links, LAMBDA s : LooksLikeSite(s, q.at) /\ SiteMatches(s, company))
           sites == Range(p.links) \cup {p.labelled, p.structured, p.onBoard}
           site == IF q.at = "linkedin" /\ Labelled(q) # None THEN Labelled(q)
                   ELSE IF StructuredAllowed(q.structured, q, company) THEN q.structured
                   ELSE IF Labelled(q) # None THEN Labelled(q)
                   ELSE IF fit # 0 THEN q.links[fit] ELSE None
           fine(s) == s \in sites /\ LooksLikeSite(s, q.at)
<1>1. \A s \in sites : IsSite(s) /\ (s # None => Normal(s) \in ClaimsIn(w, "website"))
  BY PageTypes, ClaimsOfPage
<1>2. SiteOn(q, company) = IF site = None THEN None ELSE Normal(site)
  BY DEF SiteOn
<1>3. fit # 0 => fine(q.links[fit])
  <2>1. fit = IF I # {} THEN Min(I) ELSE 0
    BY DEF SelectInSeq
  <2>2. q.links \in Seq(Range(p.links))
    BY PageTypes
  <2>3. CASE I # {}
    <3>1. I = {i \in 1..Len(q.links) : i \in I}
      OBVIOUS
    <3>2. Min(I) \in I /\ q.links[Min(I)] \in Range(p.links)
      <4> HIDE DEF I
      <4> QED BY <2>2, <2>3, <3>1, FirstIn
    <3> QED BY <2>1, <2>3, <3>2
  <2> QED BY <2>1, <2>3
<1>4. Labelled(q) # None => fine(Labelled(q))
  BY DEF Labelled
<1>5. StructuredAllowed(q.structured, q, company) => fine(q.structured)
  BY DEF StructuredAllowed
<1>6. site # None => fine(site)
  <2> HIDE DEF fine, fit
  <2> QED BY <1>3, <1>4, <1>5
<1>7. site # None => OkSite(Normal(site)) /\ Normal(site) \in ClaimsIn(w, "website")
  <2>1. ASSUME site # None PROVE site \in sites /\ LooksLikeSite(site, q.at)
    <3> HIDE DEF site
    <3> QED BY <1>6, <2>1
  <2> HIDE DEF site, sites
  <2> QED BY <1>1, <2>1, NormalSite
<1> HIDE DEF site
<1> QED BY <1>2, <1>7 DEF OkSite

\* So was one that a page of a job board links to.
LEMMA OutsideSiteClaim ==
  ASSUME NEW w \in Worlds, NEW p \in PagesOf(w), NEW company,
         NEW s \in Range(p.links) \cup {p.labelled, p.structured, p.onBoard}
  PROVE  LET site == OutsideSite(s, p, company)
         IN  /\ site # None => site \in ClaimsIn(w, "website") /\ site = Normal(s)
             /\ OkSite(site)
<1>1. IsSite(s) /\ (s # None => Normal(s) \in ClaimsIn(w, "website"))
  BY PageTypes, ClaimsOfPage
<1>2. CASE s # None /\ LooksLikeSite(Normal(s), p.at) /\ SiteMatches(s, company)
  <2>1. OutsideSite(s, p, company) = Normal(s)
    BY <1>2 DEF OutsideSite
  <2>2. OkSite(Normal(s))
    BY <1>1, <1>2, NormalIsSite
  <2> QED BY <1>1, <1>2, <2>1, <2>2
<1>3. CASE ~(s # None /\ LooksLikeSite(Normal(s), p.at) /\ SiteMatches(s, company))
  BY <1>3 DEF OutsideSite, OkSite
<1> QED BY <1>2, <1>3

-----------------------------------------------------------------------------
(* Cleaning.                                                               *)

\* The site of the posting itself is claimed.
LEMMA PostingSite ==
  ASSUME NEW w \in Worlds, NEW job, GoodJob(w, job)
  PROVE  /\ SiteOfPosting(job) # None => SiteOfPosting(job) \in ClaimsIn(w, "website")
         /\ OkSite(SiteOfPosting(job))
<1>1. job.apply.site # None /\ job.apply \in AppliesOf(w)
  BY WorldAssumption DEF GoodJob
<1>2. Normal(job.apply.site) \in ClaimsIn(w, "website")
  BY <1>1, ClaimOfPosting
<1> QED BY <1>2 DEF SiteOfPosting, OkSite

\* The site of the posting is put into a job.
LEMMA WithPostingSiteOnward ==
  ASSUME NEW w \in Worlds, NEW job, GoodJob(w, job), SiteOfPosting(job) # None
  PROVE  LET new == WithPostingSite(job, SiteOfPosting(job))
         IN  Onward(w, job, new) /\ OkSite(new.website)
<1> DEFINE site == SiteOfPosting(job)
           new == Put(job, "website", site, "apply_url_host", job.apply.page, "medium", FALSE)
<1>1. site \in ClaimsIn(w, "website") /\ OkSite(site) /\ "website" \in Fields
  BY PostingSite DEF Fields
<1> HIDE DEF site
<1>2. Onward(w, job, new)
  BY <1>1, PutOnward
<1>3. new["website"] = site
  <2>1. IsJob(job) /\ "website" \in Fields
    BY <1>1 DEF GoodJob
  <2>2. \A no : \A f \in Fields : Put(job, f, site, "apply_url_host", job.apply.page, "medium", no)[f] = site
    BY <2>1, PutFields
  <2> QED BY <2>1, <2>2
<1> QED BY <1>1, <1>2, <1>3 DEF WithPostingSite, site

\* A website that is none is dropped, and a good one is normalised, together with
\* its evidence.
LEMMA CleanWebsiteOnward ==
  ASSUME NEW w, NEW job, GoodJob(w, job)
  PROVE  Onward(w, job, CleanWebsite(job)) /\ OkSite(CleanWebsite(job).website)
<1> DEFINE site == Normal(job.website)
           e == job.identity.website
           new == [job EXCEPT !.website = site,
                              !.identity.website = IF @ = None THEN None ELSE [@ EXCEPT !.value = site]]
<1>0. "website" \in Fields
  BY DEF Fields
<1>1. CASE job.website = None
  BY <1>1, GoodIsMild DEF CleanWebsite, Mild, OkSite
<1>2. CASE job.website # None /\ (~LooksLikeSite(site, None) \/ ~SiteMatches(site, job.company))
  <2>1. CleanWebsite(job) = Cleared(job, "website")
    BY <1>2 DEF CleanWebsite
  <2>2. Onward(w, job, Cleared(job, "website")) /\ Cleared(job, "website")["website"] = None
    BY <1>0, ClearedOnward
  <2> QED BY <2>1, <2>2 DEF OkSite
<1>3. CASE job.website # None /\ LooksLikeSite(site, None) /\ SiteMatches(site, job.company)
  <2>1. CleanWebsite(job) = new
    BY <1>3 DEF CleanWebsite
  <2>2. job = [x \in JobFields |-> job[x]] /\ job.identity = [g \in Fields |-> job.identity[g]]
    BY DEF GoodJob, IsJob, IsIdentity
  <2> DEFINE e2 == IF e = None THEN None ELSE [e EXCEPT !.value = site]
  <2>3. new = [x \in JobFields |->
                 IF x = "identity" THEN [job.identity EXCEPT !.website = e2] ELSE IF x = "website" THEN site ELSE job[x]]
    BY <2>2, FieldNames DEF Fields
  <2>4. e # None => /\ {"confidence", "provisional"} \subseteq DOMAIN e
                    /\ e2.confidence = e.confidence /\ e2.provisional = e.provisional
                    /\ {"confidence", "provisional"} \subseteq DOMAIN e2
    BY <1>0 DEF GoodJob, IsJob, IsIdentity
  <2> HIDE DEF new, site, e2
  <2>5. new.website = site /\ \A x \in JobFields \ {"website", "identity"} : new[x] = job[x]
    BY <2>3, FieldNames DEF Fields
  <2>6. new.identity = [g \in Fields |-> IF g = "website" THEN e2 ELSE job.identity[g]]
    BY <2>2, <2>3, FieldNames
  <2>7. IsIdentity(new.identity)
    BY <2>4, <2>6 DEF GoodJob, IsJob, IsIdentity, e2
  <2>8. IsJob(new)
    BY <2>3, <2>7 DEF IsJob
  <2>9. ASSUME NEW g \in Fields, Backed(new, g) PROVE new[g] \in ClaimsIn(w, g)
    <3>1. CASE g = "website"
      <4>1. EvidenceRank(e2) > 0 /\ new[g] = site
        BY <2>9, <3>1, <2>5, <2>6 DEF Backed
      <4>2. e # None /\ EvidenceRank(e) > 0
        BY <4>1, <2>4 DEF EvidenceRank, e2
      <4>3. Backed(job, "website")
        BY <4>2, <1>3 DEF Backed
      <4>4. job["website"] \in ClaimsIn(w, "website")
        BY <4>3, <1>0 DEF GoodJob, Earned
      <4> QED BY <1>3, <3>1, <4>1, <4>4, ClaimsAreNormal DEF site
    <3>2. CASE g # "website"
      <4>1. new[g] = job[g] /\ new.identity[g] = job.identity[g]
        BY <2>5, <2>6, <3>2, FieldNames DEF Fields
      <4> QED BY <2>9, <4>1 DEF Backed, GoodJob, Earned
    <3> QED BY <3>1, <3>2
  <2>10. new.apply = job.apply /\ new.text = job.text /\ new.profile = job.profile
    BY <2>5 DEF JobFields, Fields
  <2> QED BY <2>1, <2>5, <2>8, <2>9, <2>10, <1>3 DEF Onward, GoodJob, Earned, OkSite, site
<1> QED BY <1>1, <1>2, <1>3

\* Whatever a job says before, it is good with an acceptable website after the
\* clean-up.
LEMMA SanitizedOnward ==
  ASSUME NEW w \in Worlds, NEW job, GoodJob(w, job)
  PROVE  Onward(w, job, Sanitized(job)) /\ OkSite(Sanitized(job).website)
<1> DEFINE a == CleanWebsite(job)
           b == PreferredWebsite(a)
           c == CleanSummary(b)
           d == CleanIndustry(c)
<1>1. Onward(w, job, a) /\ OkSite(a.website)
  BY CleanWebsiteOnward
<1>2. GoodJob(w, a)
  BY <1>1 DEF Onward
<1> HIDE DEF a
<1>3. Onward(w, a, b) /\ OkSite(b.website)
  <2>1. CASE PreferPosting(a, SiteOfPosting(a))
    <3>1. SiteOfPosting(a) # None
      BY <2>1 DEF PreferPosting
    <3> QED BY <1>2, <2>1, <3>1, WithPostingSiteOnward DEF PreferredWebsite
  <2>2. CASE ~PreferPosting(a, SiteOfPosting(a))
    BY <1>1, <1>2, <2>2, GoodIsMild DEF PreferredWebsite, Mild
  <2> QED BY <2>1, <2>2
<1> HIDE DEF b
<1>4. GoodJob(w, b)
  BY <1>3 DEF Onward
<1>5. Onward(w, b, c) /\ OkSite(c.website)
  <2>1. c = b \/ c = Cleared(b, "summary")
    BY DEF CleanSummary
  <2>2. Onward(w, b, Cleared(b, "summary")) /\ Cleared(b, "summary")["website"] = b["website"]
    BY <1>4, ClearedOnward DEF Fields, JobFields
  <2> QED BY <1>3, <1>4, <2>1, <2>2, GoodIsMild DEF Mild
<1> HIDE DEF c
<1>6. GoodJob(w, c)
  BY <1>5 DEF Onward
<1>7. Onward(w, c, d) /\ OkSite(d.website)
  <2>1. d = c \/ d = Cleared(c, "industry")
    BY DEF CleanIndustry
  <2>2. Onward(w, c, Cleared(c, "industry")) /\ Cleared(c, "industry")["website"] = c["website"]
    BY <1>6, ClearedOnward DEF Fields, JobFields
  <2> QED BY <1>5, <1>6, <2>1, <2>2, GoodIsMild DEF Mild
<1> QED BY <1>1, <1>3, <1>5, <1>7, OnwardOn DEF Sanitized, a, b, c, d

\* An industry implied by the name or the summary is provisional.
LEMMA ImpliedMild ==
  ASSUME NEW w, NEW job, GoodJob(w, job), NEW at
  PROVE  Mild(w, job, FillImplied(job, at)) /\ Mild(w, job, ImpliedByOwnSummary(job))
<1>1. ASSUME NEW x PROVE Mild(w, job, FillImplied(job, x))
  <2>1. "industry" \in Fields
    BY DEF Fields
  <2>2. Weak("low", TRUE)
    BY ProvisionalIsWeak
  <2> QED BY <2>1, <2>2, FillMild DEF FillImplied
<1> QED BY <1>1, GoodIsMild DEF ImpliedByOwnSummary

\* What a worker does with a job before its pages.
LEMMA PreparedOnward ==
  ASSUME NEW w \in Worlds, NEW job, GoodJob(w, job)
  PROVE  Onward(w, job, Prepared(job)) /\ OkSite(Prepared(job).website)
<1> DEFINE clean == Sanitized(job)
           called == WithCompany(clean, CompanyOf(clean.summary))
           named == ImpliedByOwnSummary(called)
<1>1. Onward(w, job, clean) /\ OkSite(clean.website)
  BY SanitizedOnward
<1>2. GoodJob(w, clean)
  BY <1>1 DEF Onward
<1> HIDE DEF clean
<1>3. Mild(w, clean, called)
  BY <1>2, CompanyMild
<1>4. GoodJob(w, called)
  BY <1>3 DEF Mild, Onward
<1> HIDE DEF called
<1>5. Mild(w, called, named)
  BY <1>4, ImpliedMild
<1>6. Onward(w, job, named) /\ OkSite(named.website) /\ GoodJob(w, named)
  BY <1>1, <1>3, <1>5, OnwardOn DEF Mild, Sited, Onward
<1>7. Prepared(job) = IF Lacks(named, "website") /\ SiteOfPosting(named) # None
                      THEN WithPostingSite(named, SiteOfPosting(named)) ELSE named
  BY DEF Prepared, clean, called
<1> HIDE DEF named
<1>8. SiteOfPosting(named) # None =>
        /\ Onward(w, named, WithPostingSite(named, SiteOfPosting(named)))
        /\ OkSite(WithPostingSite(named, SiteOfPosting(named)).website)
  BY <1>6, WithPostingSiteOnward
<1> QED BY <1>6, <1>7, <1>8, OnwardOn

-----------------------------------------------------------------------------
(* Pages.                                                                  *)

\* What a structured posting adds.
LEMMA PostingMild ==
  ASSUME NEW w \in Worlds, NEW job, GoodJob(w, job), NEW p \in PagesOf(w)
  PROVE  Mild(w, job, FromPosting(job, p))
<1> DEFINE r == p.posting
           named == WithCompany(job, r.company)
           site == IF LooksLikeSite(r.website, p.at) /\ SiteMatches(Normal(r.website), named.company)
                   THEN Normal(r.website) ELSE None
           sited == Fill(named, "website", site, "structured_job_posting", p.at, "high", FALSE)
           summary == IF LooksLikeSummary(r.summary, named.company) THEN r.summary ELSE None
           told == Fill(sited, "summary", summary, "structured_job_posting", p.at, "medium", FALSE)
           paid == [told EXCEPT !.paid = @ \/ r.paid]
           new == Fill(paid, "industry", r.industry, "structured_job_posting", p.at, "high", FALSE)
<1>1. CASE r = None
  BY <1>1, GoodIsMild DEF FromPosting
<1>2. CASE r # None
  <2>1. Mild(w, job, named)
    BY CompanyMild
  <2>2. /\ IsSite(r.website) /\ (r.website # None => Normal(r.website) \in ClaimsIn(w, "website"))
        /\ r.summary \in ClaimsIn(w, "summary") /\ r.industry \in ClaimsIn(w, "industry")
    BY <1>2, PageTypes, ClaimsOfRecord
  <2>3. (site # None => site \in ClaimsIn(w, "website")) /\ OkSite(site)
    BY <2>2, NormalSite DEF LooksLikeSite, OkSite
  <2>4. summary # None => summary \in ClaimsIn(w, "summary")
    BY <2>2
  <2>5. Fields = {"website", "summary", "industry"}
    BY DEF Fields
  <2> HIDE DEF named, site, summary
  <2>6. GoodJob(w, named)
    BY <2>1 DEF Mild, Onward
  <2>7. Mild(w, named, sited)
    BY <2>3, <2>5, <2>6, FillMild
  <2>8. GoodJob(w, sited)
    BY <2>7 DEF Mild, Onward
  <2> HIDE DEF sited
  <2>9. Mild(w, sited, told)
    BY <2>4, <2>5, <2>8, FillMild
  <2>10. GoodJob(w, told)
    BY <2>9 DEF Mild, Onward
  <2> HIDE DEF told
  <2>11. Mild(w, told, paid)
    BY <2>10, PaidMild
  <2>12. GoodJob(w, paid)
    BY <2>11 DEF Mild, Onward
  <2> HIDE DEF paid
  <2>13. Mild(w, paid, new)
    BY <2>2, <2>5, <2>12, FillMild
  <2>14. FromPosting(job, p) = new
    BY <1>2 DEF FromPosting, named, site, sited, summary, told, paid
  <2> HIDE DEF new
  <2> QED BY <2>1, <2>7, <2>9, <2>11, <2>13, <2>14, MildOn
<1> QED BY <1>1, <1>2

\* What a job board adds.
LEMMA BoardMild ==
  ASSUME NEW w \in Worlds, NEW job, GoodJob(w, job), NEW p \in PagesOf(w)
  PROVE  Mild(w, job, FromBoard(job, p))
<1> DEFINE named == WithCompany(job, p.company)
           filled == Fill(named, "summary", p.summary, "board", p.at, "high", FALSE)
           told == IF p.board = "yc" /\ named.company # None /\ p.summary # None
                      /\ p.summary.names = named.company
                   THEN filled ELSE named
           site == BoardSite(p, named.company)
           new == Fill(told, "website", site, "board", p.at, "high", FALSE)
<1>1. Fields = {"website", "summary", "industry"}
  BY DEF Fields
<1>2. Mild(w, job, named)
  BY CompanyMild
<1>3. GoodJob(w, named)
  BY <1>2 DEF Mild, Onward
<1>4. (site # None => site \in ClaimsIn(w, "website")) /\ OkSite(site)
  BY PageTypes, ClaimsOfPage, NormalSite DEF BoardSite, OkSite, LooksLikeSite
<1>5. FromBoard(job, p) = IF p.board = None THEN job ELSE new
  BY DEF FromBoard
<1> HIDE DEF named, site
<1>6. Mild(w, named, filled)
  BY <1>1, <1>3, ClaimsOfPage, FillMild
<1>7. Mild(w, named, told)
  BY <1>3, <1>6, GoodIsMild
<1>8. GoodJob(w, told)
  BY <1>7 DEF Mild, Onward
<1> HIDE DEF told
<1>9. Mild(w, told, new)
  BY <1>1, <1>4, <1>8, FillMild
<1> HIDE DEF new
<1> QED BY <1>2, <1>5, <1>7, <1>9, MildOn, GoodIsMild

\* What the text of a page adds as a summary.
LEMMA SummaryMild ==
  ASSUME NEW w \in Worlds, NEW job, GoodJob(w, job), NEW p \in PagesOf(w), NEW source, NEW at
  PROVE  Mild(w, job, SummaryFrom(job, p, source, at))
<1> DEFINE summary == SummaryOn(p, job.company)
           put == Put(job, "summary", summary, source, at, "medium", FALSE)
<1>1. CASE ~Lacks(job, "summary")
  BY <1>1, GoodIsMild DEF SummaryFrom
<1>2. CASE Lacks(job, "summary") /\ summary = None
  BY <1>2, UntoldMild DEF SummaryFrom
<1>3. CASE Lacks(job, "summary") /\ summary # None
  <2>1. "summary" \in Fields \ {"website"}
    BY DEF Fields
  <2>2. summary \in ClaimsIn(w, "summary")
    BY <1>3, ClaimsOfPage DEF SummaryOn
  <2>3. SummaryFrom(job, p, source, at) = put
    BY <1>3 DEF SummaryFrom
  <2> HIDE DEF summary
  <2>4. Mild(w, job, put)
    BY <2>1, <2>2, PutMild
  <2> QED BY <2>3, <2>4 DEF summary
<1> QED BY <1>1, <1>2, <1>3

\* An apply page, with all of these one after the other.
LEMMA PageMild ==
  ASSUME NEW w \in Worlds, NEW job, GoodJob(w, job), NEW p \in PagesOf(w)
  PROVE  Mild(w, job, FromPage(job, p))
<1> DEFINE posted == FromPosting(job, p)
           known == FromBoard(posted, p)
           paid == [known EXCEPT !.paid = @ \/ p.paid]
           sited == Fill(paid, "website", SiteOn(p, known.company), "apply_page", p.at, "medium", FALSE)
           told == SummaryFrom(sited, p, "apply_page", p.at)
           named == WithCompany(told, CompanyOf(told.summary))
           filled == Fill(named, "industry", IndustryOn(p), "apply_page", p.at, "medium", FALSE)
<1>1. Fields = {"website", "summary", "industry"}
  BY DEF Fields
<1>2. FromPage(job, p) = FillImplied(filled, p.at)
  BY DEF FromPage
<1>3. Mild(w, job, posted)
  BY PostingMild
<1>4. GoodJob(w, posted)
  BY <1>3 DEF Mild, Onward
<1> HIDE DEF posted
<1>5. Mild(w, posted, known)
  BY <1>4, BoardMild
<1>6. GoodJob(w, known)
  BY <1>5 DEF Mild, Onward
<1> HIDE DEF known
<1>7. Mild(w, known, paid)
  BY <1>6, PaidMild
<1>8. GoodJob(w, paid)
  BY <1>7 DEF Mild, Onward
<1> HIDE DEF paid
<1>9. \A c : (SiteOn(p, c) # None => SiteOn(p, c) \in ClaimsIn(w, "website")) /\ OkSite(SiteOn(p, c))
  BY SiteOnClaim
<1>10. Mild(w, paid, sited)
  BY <1>1, <1>8, <1>9, FillMild
<1>11. GoodJob(w, sited)
  BY <1>10 DEF Mild, Onward
<1> HIDE DEF sited
<1>12. Mild(w, sited, told)
  BY <1>11, SummaryMild
<1>13. GoodJob(w, told)
  BY <1>12 DEF Mild, Onward
<1> HIDE DEF told
<1>14. Mild(w, told, named)
  BY <1>13, CompanyMild
<1>15. GoodJob(w, named)
  BY <1>14 DEF Mild, Onward
<1> HIDE DEF named
<1>16. IndustryOn(p) # None => IndustryOn(p) \in ClaimsIn(w, "industry")
  BY ClaimsOfPage DEF IndustryOn
<1>17. Mild(w, named, filled)
  BY <1>1, <1>15, <1>16, FillMild
<1>18. GoodJob(w, filled)
  BY <1>17 DEF Mild, Onward
<1> HIDE DEF filled
<1>19. Mild(w, filled, FillImplied(filled, p.at))
  BY <1>18, ImpliedMild
<1>20. Mild(w, job, known) /\ Mild(w, known, sited) /\ Mild(w, sited, named)
  BY <1>3, <1>5, <1>7, <1>10, <1>12, <1>14, MildOn
<1>21. Mild(w, job, named) /\ Mild(w, named, FillImplied(filled, p.at))
  BY <1>20, <1>17, <1>19, MildOn
<1> QED BY <1>2, <1>21, MildOn

\* Facts of a company page.
LEMMA FactsMild ==
  ASSUME NEW w \in Worlds, NEW job, GoodJob(w, job), NEW p \in PagesOf(w), NEW source
  PROVE  Mild(w, job, FromFacts(job, p, source))
<1>1. p.facts # None => p.facts \in ClaimsIn(w, "industry")
  BY ClaimsOfPage
<1>2. "industry" \in Fields /\ "industry" # "website"
  BY DEF Fields
<1> QED BY <1>1, <1>2, FillMild DEF FromFacts

\* An answer of the model about one page may be used for another.
LEMMA ModelMild ==
  ASSUME NEW w \in Worlds, NEW job, GoodJob(w, job), NEW q \in PagesOf(w), NEW p
  PROVE  Mild(w, job, FromModel(job, p, AnswerIn(w, q)))
<1> DEFINE answer == AnswerIn(w, q)
           site == IF LooksLikeSite(answer.website, p.at) /\ ~Blocked(answer.website, p.at)
                   THEN Normal(answer.website) ELSE None
           summary == IF LooksLikeSummary(answer.summary, job.company) THEN answer.summary ELSE None
           sited == Fill(job, "website", site, "llm", p.at, answer.confidence, FALSE)
           told == Fill(sited, "summary", summary, "llm", p.at, answer.confidence, FALSE)
           new == Fill(told, "industry", answer.industry, "llm", p.at, answer.confidence, answer.provisional)
<1>1. Fields = {"website", "summary", "industry"}
  BY DEF Fields
<1>2. FromModel(job, p, answer) \in {job, told, new}
  BY DEF FromModel
<1>3. answer = None => FromModel(job, p, answer) = job
  BY DEF FromModel
<1>4. CASE answer # None
  <2>1. /\ IsSite(answer.website)
        /\ answer.website # None => Normal(answer.website) \in ClaimsIn(w, "website")
        /\ answer.summary \in ClaimsIn(w, "summary") /\ answer.industry \in ClaimsIn(w, "industry")
    BY <1>4, PageTypes, ClaimsOfRecord
  <2>2. (site # None => site \in ClaimsIn(w, "website")) /\ OkSite(site)
    BY <2>1, NormalSite DEF LooksLikeSite, OkSite
  <2>3. summary # None => summary \in ClaimsIn(w, "summary")
    BY <2>1
  <2> HIDE DEF answer, site, summary
  <2>4. Mild(w, job, sited)
    BY <1>1, <2>2, FillMild
  <2>5. GoodJob(w, sited)
    BY <2>4 DEF Mild, Onward
  <2> HIDE DEF sited
  <2>6. Mild(w, sited, told)
    BY <1>1, <2>3, <2>5, FillMild
  <2>7. GoodJob(w, told)
    BY <2>6 DEF Mild, Onward
  <2> HIDE DEF told
  <2>8. Mild(w, told, new)
    BY <1>1, <2>1, <2>7, FillMild
  <2> HIDE DEF new
  <2>9. Mild(w, job, told)
    BY <2>4, <2>6, MildOn
  <2>10. Mild(w, job, new)
    BY <2>8, <2>9, MildOn
  <2> QED BY <1>2, <2>9, <2>10, GoodIsMild DEF answer
<1> QED BY <1>3, <1>4, GoodIsMild

\* A page of the company itself.
LEMMA CompanySiteMild ==
  ASSUME NEW w \in Worlds, NEW job, GoodJob(w, job), NEW p \in PagesOf(w), NEW source
  PROVE  Mild(w, job, FromCompanySite(job, p, source))
<1> DEFINE told == Fill(job, "summary", SummaryOn(p, job.company), source, p.at, "high", FALSE)
           put == Put(told, "industry", IndustryOn(p), source, p.at, "high", FALSE)
<1>1. "summary" \in Fields /\ "industry" \in Fields \ {"website"}
  BY DEF Fields
<1>2. SummaryOn(p, job.company) # None => SummaryOn(p, job.company) \in ClaimsIn(w, "summary")
  BY ClaimsOfPage DEF SummaryOn
<1>3. Mild(w, job, told)
  BY <1>1, <1>2, FillMild
<1>4. GoodJob(w, told)
  BY <1>3 DEF Mild, Onward
<1>5. FromCompanySite(job, p, source) = IF IndustryOn(p) # None THEN put ELSE FillImplied(told, p.at)
  BY DEF FromCompanySite
<1> HIDE DEF told
<1>6. Mild(w, told, FillImplied(told, p.at))
  BY <1>4, ImpliedMild
<1>7. CASE IndustryOn(p) # None
  <2>1. IndustryOn(p) \in ClaimsIn(w, "industry")
    BY <1>7, ClaimsOfPage DEF IndustryOn
  <2>2. Mild(w, told, put)
    BY <1>1, <1>4, <2>1, PutMild
  <2> QED BY <1>3, <1>5, <1>7, <2>2, MildOn
<1>8. CASE IndustryOn(p) = None
  BY <1>3, <1>5, <1>6, <1>8, MildOn
<1> QED BY <1>7, <1>8

\* A page that was searched for, with what the model says of it.
LEMMA SiteTextMild ==
  ASSUME NEW w \in Worlds, NEW job, GoodJob(w, job), NEW p \in PagesOf(w), NEW q \in PagesOf(w), NEW source
  PROVE  Mild(w, job, FromSiteText(job, p, source, AnswerIn(w, q)))
<1> DEFINE asked == FromModel(job, p, AnswerIn(w, q))
           told == Fill(asked, "summary", SummaryOn(p, asked.company), source, p.at, "medium", FALSE)
<1>1. "summary" \in Fields /\ "summary" # "website"
  BY DEF Fields
<1>2. Mild(w, job, asked)
  BY ModelMild
<1>3. GoodJob(w, asked)
  BY <1>2 DEF Mild, Onward
<1>4. FromSiteText(job, p, source, AnswerIn(w, q)) = FromCompanySite(told, p, source)
  BY DEF FromSiteText
<1> HIDE DEF asked
<1>5. SummaryOn(p, asked.company) # None => SummaryOn(p, asked.company) \in ClaimsIn(w, "summary")
  BY ClaimsOfPage DEF SummaryOn
<1>6. Mild(w, asked, told)
  BY <1>1, <1>3, <1>5, FillMild
<1>7. GoodJob(w, told)
  BY <1>6 DEF Mild, Onward
<1> HIDE DEF told
<1>8. Mild(w, told, FromCompanySite(told, p, source))
  BY <1>7, CompanySiteMild
<1> QED BY <1>2, <1>4, <1>6, <1>8, MildOn

\* The pages about companies that a world has for sites and searches.
LEMMA AboutPages ==
  ASSUME NEW w, NEW p \in Range(w.sites) \cup Range(w.searches), p # None
  PROVE  p \in PagesOf(w) /\ (p.about # None => p.about \in PagesOf(w))
  BY DEF PagesOf

\* A search for a company without a website finds one.
LEMMA SearchOnward ==
  ASSUME NEW w \in Worlds, NEW job, GoodJob(w, job), NEW p \in Range(w.searches)
  PROVE  LET new == FromSearch(job, p, AnswerIn(w, p))
         IN  /\ Onward(w, job, new) /\ Keeps(job, new)
             /\ Lacks(job, "website") => new.website # None
<1> DEFINE site == Normal(p.labelled)
           sited == Fill(job, "website", site, "browser_company_search", "search", "medium", FALSE)
           told == FromSiteText(sited, p, "browser_company_search", AnswerIn(w, p))
           new == IF p.about = None THEN told
                  ELSE FromSiteText(told, p.about, "browser_company_about", AnswerIn(w, p))
<1>1. p # None /\ p.labelled # None
  BY WorldAssumption
<1>2. p \in PagesOf(w) /\ (p.about # None => p.about \in PagesOf(w))
  BY <1>1, AboutPages
<1>3. site # None /\ site \in ClaimsIn(w, "website")
  BY <1>1, <1>2, PageTypes, ClaimsOfPage DEF IsSite
<1>4. "website" \in Fields
  BY DEF Fields
<1>5. FromSearch(job, p, AnswerIn(w, p)) = new
  BY DEF FromSearch
<1> HIDE DEF site
<1>6. Onward(w, job, sited) /\ Keeps(job, sited)
  BY <1>3, <1>4, FillOnward
<1>7. Lacks(job, "website") => sited.website # None
  <2>1. ASSUME Lacks(job, "website")
        PROVE  sited = Put(job, "website", site, "browser_company_search", "search", "medium", FALSE)
    BY <1>3, <2>1 DEF Fill
  <2>2. IsJob(job)
    BY DEF GoodJob
  <2>3. \A no : \A f \in Fields : Put(job, f, site, "browser_company_search", "search", "medium", no)[f] = site
    BY <2>2, PutFields
  <2> QED BY <1>3, <1>4, <2>1, <2>3
<1>8. GoodJob(w, sited)
  BY <1>6 DEF Onward
<1> HIDE DEF sited
<1>9. Mild(w, sited, told)
  BY <1>2, <1>8, SiteTextMild
<1>10. GoodJob(w, told)
  BY <1>9 DEF Mild, Onward
<1> HIDE DEF told
<1>11. Mild(w, told, new)
  BY <1>2, <1>10, SiteTextMild, GoodIsMild
<1> HIDE DEF new
<1>12. Mild(w, sited, new)
  BY <1>9, <1>11, MildOn
<1>13. Onward(w, job, new) /\ Keeps(job, new)
  BY <1>6, <1>12, OnwardOn, KeepsOn DEF Mild
<1>14. sited.website # None => new.website # None
  BY <1>12 DEF Mild, Keeps
<1> QED BY <1>5, <1>7, <1>13, <1>14

\* The profile a page links to.
LEMMA ProfiledGood ==
  ASSUME NEW w, NEW job, GoodJob(w, job), NEW profile
  PROVE  LET new == [job EXCEPT !.profile = profile]
         IN  /\ GoodJob(w, new) /\ new.profile = profile
             /\ \A x \in JobFields \ {"profile"} : new[x] = job[x]
<1> DEFINE new == [job EXCEPT !.profile = profile]
<1>1. new = [x \in JobFields |-> IF x = "profile" THEN profile ELSE job[x]]
  BY DEF GoodJob, IsJob
<1> HIDE DEF new
<1>2. new.profile = profile /\ \A x \in JobFields \ {"profile"} : new[x] = job[x]
  BY <1>1 DEF JobFields
<1>3. new.identity = job.identity /\ new.apply = job.apply /\ new.text = job.text /\ \A f \in Fields : new[f] = job[f]
  BY <1>1 DEF JobFields, Fields
<1>4. GoodJob(w, new)
  BY <1>1, <1>3 DEF GoodJob, IsJob, Earned, Backed
<1> QED BY <1>2, <1>4 DEF new

\* A posting on Indeed, which may lead to a profile.
LEMMA IndeedGood ==
  ASSUME NEW w \in Worlds, NEW job, GoodJob(w, job), NEW p \in PagesOf(w)
  PROVE  LET new == FromIndeed(job, p)
         IN  /\ GoodJob(w, new) /\ new.apply = job.apply /\ OkSite(new.website)
             /\ new.profile \in {job.profile, p.profile}
<1> DEFINE told == FromFacts(job, p, "indeed_detail")
           site == OutsideSite(p.onBoard, p, job.company)
           at == IF p.profile # None THEN p.profile ELSE told.profile
           seen == [told EXCEPT !.profile = at]
           sited == Fill(seen, "website", site, "indeed_apply_link", p.at, "high", FALSE)
<1>1. "website" \in Fields
  BY DEF Fields
<1>2. Mild(w, job, told)
  BY FactsMild
<1>3. GoodJob(w, told) /\ told.apply = job.apply /\ told.profile = job.profile
  BY <1>2 DEF Mild, Onward
<1>4. FromIndeed(job, p) = Sanitized(sited)
  BY DEF FromIndeed
<1>5. (site # None => site \in ClaimsIn(w, "website")) /\ OkSite(site)
  BY OutsideSiteClaim
<1> HIDE DEF told, site
<1>6. GoodJob(w, seen) /\ seen.profile = at /\ seen.apply = told.apply
  BY <1>3, ProfiledGood DEF JobFields, Fields
<1>7. at \in {job.profile, p.profile}
  BY <1>3
<1> HIDE DEF at, seen
<1>8. Mild(w, seen, sited)
  BY <1>1, <1>5, <1>6, FillMild
<1>9. GoodJob(w, sited)
  BY <1>8 DEF Mild, Onward
<1> HIDE DEF sited
<1>10. Onward(w, sited, Sanitized(sited)) /\ OkSite(Sanitized(sited).website)
  BY <1>9, SanitizedOnward
<1> QED BY <1>3, <1>4, <1>6, <1>7, <1>8, <1>10 DEF Mild, Onward

\* A profile on Indeed.
LEMMA IndeedProfileMild ==
  ASSUME NEW w \in Worlds, NEW job, GoodJob(w, job), NEW p \in PagesOf(w)
  PROVE  Mild(w, job, FromIndeedProfile(job, p))
<1> DEFINE told == FromFacts(job, p, "indeed_profile")
           leaves(s) == OutsideSite(s, p, job.company) # None
           I == {i \in 1..Len(p.links) : leaves(p.links[i])}
           fit == SelectInSeq(p.links, LAMBDA s : OutsideSite(s, p, job.company) # None)
           site == IF fit = 0 THEN None ELSE Normal(p.links[fit])
           new == Fill(told, "website", site, "indeed_company_profile", p.at, "high", FALSE)
<1>1. "website" \in Fields
  BY DEF Fields
<1>2. Mild(w, job, told)
  BY FactsMild
<1>3. GoodJob(w, told)
  BY <1>2 DEF Mild, Onward
<1>4. FromIndeedProfile(job, p) = new
  BY DEF FromIndeedProfile
<1>5. fit # 0 => p.links[fit] \in Range(p.links) /\ leaves(p.links[fit])
  <2>1. fit = IF I # {} THEN Min(I) ELSE 0
    BY DEF SelectInSeq
  <2>2. p.links \in Seq(Range(p.links))
    BY PageTypes
  <2>3. CASE I # {}
    <3>1. I = {i \in 1..Len(p.links) : i \in I}
      OBVIOUS
    <3>2. Min(I) \in I /\ p.links[Min(I)] \in Range(p.links)
      <4> HIDE DEF I
      <4> QED BY <2>2, <2>3, <3>1, FirstIn
    <3> QED BY <2>1, <2>3, <3>2
  <2> QED BY <2>1, <2>3
<1>6. \A s \in Range(p.links) : leaves(s) => Normal(s) \in ClaimsIn(w, "website") /\ OkSite(Normal(s))
  BY OutsideSiteClaim
<1> HIDE DEF told, fit, leaves
<1>7. (site # None => site \in ClaimsIn(w, "website")) /\ OkSite(site)
  BY <1>5, <1>6 DEF OkSite
<1> HIDE DEF site
<1>8. Mild(w, told, new)
  BY <1>1, <1>3, <1>7, FillMild
<1> QED BY <1>2, <1>4, <1>8, MildOn

\* A profile elsewhere; it may replace the website, by one that was accepted.
LEMMA ProfileGood ==
  ASSUME NEW w \in Worlds, NEW job, GoodJob(w, job), NEW p \in PagesOf(w)
  PROVE  LET new == FromProfile(job, p)
         IN  GoodJob(w, new) /\ new.apply = job.apply /\ Sited(job, new)
<1> DEFINE put(j, f, value) == IF value = None THEN j
                               ELSE Put(j, f, value, "company_profile", p.at, "high", FALSE)
           seen == [job EXCEPT !.profile = p.at]
           site == SiteOn(p, job.company)
           summary == SummaryOn(p, job.company)
           sited == put(seen, "website", site)
           told == put(sited, "summary", summary)
           named == put(told, "industry", IndustryOn(p))
<1>1. "website" \in Fields /\ "summary" \in Fields \ {"website"} /\ "industry" \in Fields \ {"website"}
  BY DEF Fields
<1>2. FromProfile(job, p) = FromFacts(named, p, "company_profile")
  BY DEF FromProfile
<1>3. GoodJob(w, seen) /\ seen.apply = job.apply /\ seen.website = job.website
  BY ProfiledGood DEF JobFields, Fields
<1> HIDE DEF seen
<1>4. (site # None => site \in ClaimsIn(w, "website")) /\ OkSite(site)
  BY SiteOnClaim
<1>5. summary # None => summary \in ClaimsIn(w, "summary")
  BY ClaimsOfPage DEF SummaryOn
<1>6. IndustryOn(p) # None => IndustryOn(p) \in ClaimsIn(w, "industry")
  BY ClaimsOfPage DEF IndustryOn
<1> HIDE DEF site, summary
<1>7. Onward(w, seen, sited) /\ Sited(seen, sited)
  <2>1. CASE site = None
    BY <1>3, <2>1, GoodIsMild DEF Mild
  <2>2. CASE site # None
    <3>1. Onward(w, seen, sited)
      BY <1>1, <1>3, <1>4, <2>2, PutOnward
    <3>2. \A no : \A f \in Fields : Put(seen, f, site, "company_profile", p.at, "high", no)[f] = site
      BY <1>3, PutFields DEF GoodJob
    <3>3. sited.website = site
      BY <1>1, <2>2, <3>2
    <3> QED BY <1>4, <3>1, <3>3 DEF Sited
  <2> QED BY <2>1, <2>2
<1>8. GoodJob(w, sited)
  BY <1>7 DEF Onward
<1> HIDE DEF sited
<1>9. Mild(w, sited, told)
  BY <1>1, <1>5, <1>8, PutMild, GoodIsMild
<1>10. GoodJob(w, told)
  BY <1>9 DEF Mild, Onward
<1> HIDE DEF told
<1>11. Mild(w, told, named)
  BY <1>1, <1>6, <1>10, PutMild, GoodIsMild
<1>12. GoodJob(w, named)
  BY <1>11 DEF Mild, Onward
<1> HIDE DEF named
<1>13. Mild(w, named, FromFacts(named, p, "company_profile"))
  BY <1>12, FactsMild
<1> QED BY <1>2, <1>3, <1>7, <1>9, <1>11, <1>13 DEF Mild, Onward, Sited

\* The text of the job may have a link to apply at.
LEMMA DescriptionGood ==
  ASSUME NEW w \in Worlds, NEW job, GoodJob(w, job)
  PROVE  GoodJob(w, FromDescription(job)) /\ FromDescription(job).profile = job.profile
<1> DEFINE p == job.text
           at == job.apply.page
           to == IF p.direct # None THEN p.direct ELSE job.apply
           moved == [job EXCEPT !.apply = to, !.paid = @ \/ p.paid]
           q == [p EXCEPT !.at = at]
           sited == Fill(moved, "website", SiteOn(q, job.company), "job_description", at, "medium", FALSE)
           told == SummaryFrom(sited, p, "job_description", at)
           named == Put(told, "industry", IndustryOn(p), "job_description", at, "medium", FALSE)
           guessed == Put(told, "industry", Implied(told.summary), "summary_inference", at, "low", TRUE)
<1>1. "website" \in Fields /\ "industry" \in Fields \ {"website"}
  BY DEF Fields
<1>2. CASE p = None
  BY <1>2 DEF FromDescription
<1>3. CASE p # None
  <2>1. p \in PagesOf(w)
    BY <1>3 DEF GoodJob
  <2>2. to \in AppliesOf(w)
    BY <2>1 DEF GoodJob, AppliesOf
  <2>3. FromDescription(job) = IF IndustryOn(p) # None THEN named
                               ELSE IF Implied(told.summary) # None THEN guessed ELSE told
    BY <1>3 DEF FromDescription
  <2>4. GoodJob(w, moved) /\ moved.profile = job.profile
    <3> HIDE DEF to
    <3> DEFINE paid == job.paid \/ p.paid
    <3>1. moved = [x \in JobFields |-> IF x = "apply" THEN to ELSE IF x = "paid" THEN paid ELSE job[x]]
      <4>1. job = [x \in JobFields |-> job[x]]
        BY DEF GoodJob, IsJob
      <4>2. moved = [job EXCEPT !.apply = to, !.paid = paid]
        OBVIOUS
      <4> HIDE DEF moved, paid
      <4> QED BY <4>1, <4>2
    <3> HIDE DEF moved, paid
    <3>2. /\ moved.apply = to /\ moved.text = job.text /\ moved.profile = job.profile
          /\ moved.identity = job.identity /\ \A f \in Fields : moved[f] = job[f]
      BY <3>1 DEF JobFields, Fields
    <3> QED BY <2>2, <3>1, <3>2 DEF GoodJob, IsJob, Earned, Backed
  <2>5. q.labelled = p.labelled /\ q.structured = p.structured /\ q.links = p.links
    BY <2>1, PageTypes
  <2> HIDE DEF p, q, moved
  <2>6. /\ SiteOn(q, job.company) # None => SiteOn(q, job.company) \in ClaimsIn(w, "website")
        /\ OkSite(SiteOn(q, job.company))
    BY <2>1, <2>5, SiteOnClaim
  <2>7. Mild(w, moved, sited)
    BY <1>1, <2>4, <2>6, FillMild
  <2>8. GoodJob(w, sited) /\ sited.profile = job.profile
    BY <2>4, <2>7 DEF Mild, Onward
  <2> HIDE DEF sited
  <2>9. Mild(w, sited, told)
    BY <2>1, <2>8, SummaryMild
  <2>10. GoodJob(w, told) /\ told.profile = job.profile
    BY <2>8, <2>9 DEF Mild, Onward
  <2> HIDE DEF told
  <2>11. IndustryOn(p) # None => Mild(w, told, named)
    <3>1. IndustryOn(p) # None => IndustryOn(p) \in ClaimsIn(w, "industry")
      BY <2>1, ClaimsOfPage DEF IndustryOn
    <3> QED BY <1>1, <2>10, <3>1, PutMild
  <2>12. Mild(w, told, guessed)
    BY <1>1, <2>10, ProvisionalIsWeak, PutMild
  <2> HIDE DEF named, guessed
  <2> QED BY <2>3, <2>10, <2>11, <2>12 DEF Mild, Onward
<1> QED BY <1>2, <1>3

-----------------------------------------------------------------------------
(* Records.                                                                *)

\* A record of which every field can be trusted.
Pure(w, r) == GoodRecord(w, r) /\ \A f \in Fields : r[f] # None => Trusted(r, f)

\* The fields of a record.
RecordFields == Fields \cup {"identity"}

\* The empty record is one.
LEMMA NoRecordPure == ASSUME NEW w PROVE Pure(w, NoRecord)
<1>1. NoRecord = [x \in RecordFields |-> IF x = "identity" THEN NoIdentity ELSE None]
  BY DEF NoRecord, RecordFields, Fields
<1>2. NoRecord.identity = NoIdentity /\ \A f \in Fields : NoRecord[f] = None
  BY <1>1 DEF Fields, RecordFields
<1>3. IsRecord(NoRecord)
  BY <1>1, <1>2 DEF IsRecord, IsIdentity, NoIdentity, RecordFields
<1>4. \A f \in Fields : ~Backed(NoRecord, f)
  BY <1>2 DEF Backed
<1> QED BY <1>2, <1>3, <1>4 DEF Pure, GoodRecord, Earned

\* What is remembered of a good job is good.
LEMMA RecordOfGood ==
  ASSUME NEW w, NEW job, GoodJob(w, job)
  PROVE  GoodRecord(w, RecordOf(job)) /\ RecordOf(job).website = job.website
<1>1. RecordOf(job) = [x \in RecordFields |-> job[x]]
  BY DEF RecordOf, RecordFields, Fields
<1>2. RecordOf(job).identity = job.identity /\ \A f \in Fields : RecordOf(job)[f] = job[f]
  BY <1>1 DEF Fields, RecordFields
<1>3. IsRecord(RecordOf(job))
  BY <1>1, <1>2 DEF IsRecord, GoodJob, IsJob, RecordFields
<1>4. \A f \in Fields : Backed(RecordOf(job), f) => Backed(job, f)
  BY <1>2 DEF Backed
<1> QED BY <1>2, <1>3, <1>4 DEF GoodRecord, Earned, GoodJob, Fields

\* So is what is stored of it.
LEMMA TrustedRecordGood ==
  ASSUME NEW w, NEW job, GoodJob(w, job)
  PROVE  GoodRecord(w, TrustedRecord(job))
<1> DEFINE known(f) == IF TrustedField(job, f) THEN job[f] ELSE None
           why(f) == IF TrustedField(job, f) THEN job.identity[f] ELSE None
           r == TrustedRecord(job)
<1>1. r = [x \in RecordFields |-> IF x = "identity" THEN [f \in Fields |-> why(f)] ELSE known(x)]
  BY DEF TrustedRecord, RecordFields, Fields
<1>2. r.identity = [f \in Fields |-> why(f)] /\ \A f \in Fields : r[f] = known(f)
  BY <1>1 DEF Fields, RecordFields
<1> HIDE DEF r
<1>3. IsIdentity(r.identity)
  BY <1>2 DEF GoodJob, IsJob, IsIdentity
<1>4. IsRecord(r)
  BY <1>1, <1>3 DEF IsRecord, RecordFields
<1>5. ASSUME NEW f \in Fields, Backed(r, f) PROVE r[f] \in ClaimsIn(w, f)
  <2>1. r[f] # None /\ TrustedField(job, f)
    BY <1>2, <1>5 DEF Backed
  <2>2. r[f] = job[f] /\ r.identity[f] = job.identity[f]
    BY <1>2, <2>1
  <2>3. Backed(job, f)
    BY <2>2, <1>5 DEF Backed
  <2> QED BY <2>2, <2>3 DEF GoodJob, Earned
<1> QED BY <1>4, <1>5 DEF GoodRecord, Earned, r

\* Filling a field from such a record changes no other.
LEMMA FillFromOnward ==
  ASSUME NEW w, NEW job, GoodJob(w, job), NEW r, Pure(w, r), NEW f \in Fields, NEW source
  PROVE  LET new == FillFrom(job, r, f, source)
         IN  /\ Onward(w, job, new) /\ Keeps(job, new) /\ (OkSite(r.website) => Sited(job, new))
             /\ \A x \in JobFields \ {f, "identity"} : new[x] = job[x]
             /\ \A g \in Fields \ {f} : new.identity[g] = job.identity[g]
             /\ \/ new = job /\ ~(r[f] # None /\ Lacks(job, f) /\ (f = "website" => ~EvidenceBlocked(r)))
                \/ /\ r[f] # None /\ Lacks(job, f) /\ new[f] = r[f]
                   /\ \E why : new.identity[f] = Evidence(r[f], why, r.identity[f].page,
                                              r.identity[f].confidence, r.identity[f].provisional)
<1> DEFINE e == r.identity[f]
           fills == r[f] # None /\ Lacks(job, f) /\ (f = "website" => ~EvidenceBlocked(r))
           why == IF source = None THEN e.source ELSE source
           new == FillFrom(job, r, f, source)
           put == Put(job, f, r[f], why, e.page, e.confidence, e.provisional)
<1>1. CASE ~fills
  <2>1. new = job
    BY <1>1 DEF FillFrom
  <2>2. Onward(w, job, job) /\ Keeps(job, job) /\ Sited(job, job)
    BY GoodIsMild DEF Mild
  <2> HIDE DEF new
  <2> QED BY <1>1, <2>1, <2>2 DEF new
<1>2. CASE fills
  <2>1. Trusted(r, f)
    BY <1>2 DEF Pure
  <2>2. e # None /\ EvidenceRank(e) > 0 /\ e.value = r[f]
    BY <2>1 DEF Trusted, EvidenceRank
  <2>3. r[f] \in ClaimsIn(w, f)
    BY <2>1 DEF Pure, GoodRecord, Earned, Trusted, Backed
  <2>4. new = put
    BY <1>2, <2>2 DEF FillFrom
  <2>5. Onward(w, job, put)
    <3> HIDE DEF why
    <3> QED BY <2>3, PutOnward
  <2>6. /\ put[f] = r[f] /\ put.identity[f] = Evidence(r[f], why, e.page, e.confidence, e.provisional)
        /\ \A x \in JobFields \ {f, "identity"} : put[x] = job[x]
        /\ \A g \in Fields \ {f} : put.identity[g] = job.identity[g]
    <3> HIDE DEF why
    <3> QED BY PutFields DEF GoodJob
  <2> HIDE DEF put
  <2>7. f = "website" \/ put.website = job.website
    BY <2>6 DEF JobFields, Fields
  <2>8. Keeps(job, put) /\ (OkSite(r.website) => Sited(job, put))
    BY <1>2, <2>6, <2>7 DEF Keeps, Sited
  <2> HIDE DEF new
  <2> QED BY <1>2, <2>4, <2>5, <2>6, <2>8 DEF new
<1> QED BY <1>1, <1>2

\* Filling all fields.
LEMMA FillAllOnward ==
  ASSUME NEW w, NEW job, GoodJob(w, job), NEW r, Pure(w, r), NEW source
  PROVE  LET new == FillAll(job, r, source)
         IN  /\ Onward(w, job, new) /\ Keeps(job, new) /\ (OkSite(r.website) => Sited(job, new))
             /\ new.company = job.company
<1> DEFINE a == FillFrom(job, r, "website", source)
           b == FillFrom(a, r, "summary", source)
           c == FillFrom(b, r, "industry", source)
           ok(x, y) == Onward(w, x, y) /\ Keeps(x, y) /\ (OkSite(r.website) => Sited(x, y)) /\ y.company = x.company
<1>1. ASSUME NEW x, GoodJob(w, x), NEW f \in Fields PROVE ok(x, FillFrom(x, r, f, source))
  BY <1>1, FillFromOnward DEF JobFields, Fields
<1>2. "website" \in Fields /\ "summary" \in Fields /\ "industry" \in Fields
  BY DEF Fields
<1>3. \A x, y : ok(x, y) => GoodJob(w, y)
  BY DEF Onward
<1>4. \A x, y, z : ok(x, y) /\ ok(y, z) => ok(x, z)
  BY OnwardOn, KeepsOn DEF Sited
<1> HIDE DEF ok
<1>5. ok(job, a)
  BY <1>1, <1>2
<1> HIDE DEF a
<1>6. ok(a, b)
  BY <1>1, <1>2, <1>3, <1>5
<1> HIDE DEF b
<1>7. ok(b, c)
  BY <1>1, <1>2, <1>3, <1>6
<1>8. FillAll(job, r, source) = c
  BY DEF FillAll, a, b
<1> HIDE DEF c
<1>9. ok(job, c)
  BY <1>4, <1>5, <1>6, <1>7
<1> QED BY <1>8, <1>9 DEF ok

\* What is applied of a record is what it can be trusted for.
LEMMA AppliedOnward ==
  ASSUME NEW w, NEW job, GoodJob(w, job), NEW r, GoodRecord(w, r)
  PROVE  LET new == Applied(job, r)
         IN  Onward(w, job, new) /\ Keeps(job, new) /\ (OkSite(r.website) => Sited(job, new))
<1> DEFINE known(f) == IF Trusted(r, f) THEN r[f] ELSE None
           p == [r EXCEPT !.website = known("website"), !.summary = known("summary"),
                          !.industry = known("industry")]
<1>1. r = [x \in RecordFields |-> r[x]] /\ IsIdentity(r.identity)
  BY DEF GoodRecord, IsRecord, RecordFields
<1>2. p = [x \in RecordFields |-> IF x = "identity" THEN r.identity ELSE known(x)]
  BY <1>1 DEF RecordFields, Fields
<1>3. Applied(job, r) = FillAll(job, p, None)
  BY DEF Applied
<1> HIDE DEF p
<1>4. p.identity = r.identity /\ \A f \in Fields : p[f] = known(f)
  BY <1>2 DEF RecordFields, Fields
<1>5. IsRecord(p)
  BY <1>1, <1>2, <1>4 DEF IsRecord, RecordFields
<1>6. ASSUME NEW f \in Fields, p[f] # None PROVE Trusted(r, f) /\ p[f] = r[f] /\ Trusted(p, f)
  BY <1>4, <1>6 DEF Trusted
<1>7. Pure(w, p)
  <2>1. ASSUME NEW f \in Fields, Backed(p, f) PROVE p[f] \in ClaimsIn(w, f)
    <3>1. p[f] # None
      BY <2>1 DEF Backed
    <3>2. Backed(r, f)
      BY <3>1, <1>6 DEF Trusted, Backed
    <3> QED BY <3>1, <3>2, <1>6 DEF GoodRecord, Earned
  <2> QED BY <1>5, <1>6, <2>1 DEF Pure, GoodRecord, Earned
<1>8. OkSite(r.website) => OkSite(p.website)
  BY <1>4 DEF Fields, OkSite
<1> QED BY <1>3, <1>7, <1>8, FillAllOnward

\* A field of a job after all were filled: as it was, or the record's.
Filled(new, job, r, f) ==
  LET fills == r[f] # None /\ Lacks(job, f) /\ (f = "website" => ~EvidenceBlocked(r))
  IN  \/ new[f] = job[f] /\ new.identity[f] = job.identity[f] /\ ~fills
      \/ /\ fills /\ new[f] = r[f]
         /\ \E why : new.identity[f] = Evidence(r[f], why, r.identity[f].page,
                                                r.identity[f].confidence, r.identity[f].provisional)

\* What all three fills did to one field.
LEMMA FillAllField ==
  ASSUME NEW w, NEW job, GoodJob(w, job), NEW r, Pure(w, r), NEW source, NEW f \in Fields
  PROVE  Filled(FillAll(job, r, source), job, r, f)
<1> DEFINE a == FillFrom(job, r, "website", source)
           b == FillFrom(a, r, "summary", source)
           c == FillFrom(b, r, "industry", source)
           others(x, y, g) == \A h \in Fields \ {g} :
                                 y[h] = x[h] /\ y.identity[h] = x.identity[h] /\ (Lacks(y, h) <=> Lacks(x, h))
           fills(x, g) == r[g] # None /\ Lacks(x, g) /\ (g = "website" => ~EvidenceBlocked(r))
<1>1. ASSUME NEW x, GoodJob(w, x), NEW g \in Fields
      PROVE  /\ GoodJob(w, FillFrom(x, r, g, source))
             /\ others(x, FillFrom(x, r, g, source), g)
             /\ Filled(FillFrom(x, r, g, source), x, r, g)
  <2> DEFINE y == FillFrom(x, r, g, source)
  <2>1. /\ Onward(w, x, y)
        /\ \A z \in JobFields \ {g, "identity"} : y[z] = x[z]
        /\ \A h \in Fields \ {g} : y.identity[h] = x.identity[h]
        /\ \/ y = x /\ ~fills(x, g)
           \/ /\ r[g] # None /\ Lacks(x, g) /\ y[g] = r[g]
              /\ \E why : y.identity[g] = Evidence(r[g], why, r.identity[g].page,
                                                   r.identity[g].confidence, r.identity[g].provisional)
    BY <1>1, FillFromOnward
  <2>2. fills(x, g) \/ y = x
    BY DEF FillFrom
  <2> HIDE DEF y
  <2>3. others(x, y, g)
    <3> SUFFICES ASSUME NEW h \in Fields \ {g}
                 PROVE  y[h] = x[h] /\ y.identity[h] = x.identity[h] /\ (Lacks(y, h) <=> Lacks(x, h))
      OBVIOUS
    <3>1. y[h] = x[h] /\ y.identity[h] = x.identity[h] /\ y.company = x.company
      BY <2>1 DEF JobFields, Fields
    <3>2. Lacks(y, h) <=> Lacks(x, h)
      BY <3>1 DEF Lacks, Fields
    <3> QED BY <3>1, <3>2
  <2> QED BY <2>1, <2>2, <2>3 DEF Onward, Filled, y
<1>2. "website" \in Fields /\ "summary" \in Fields /\ "industry" \in Fields
  BY DEF Fields
<1>3. GoodJob(w, a) /\ others(job, a, "website") /\ Filled(a, job, r, "website")
  BY <1>1, <1>2
<1> HIDE DEF a
<1>4. GoodJob(w, b) /\ others(a, b, "summary") /\ Filled(b, a, r, "summary")
  BY <1>1, <1>2, <1>3
<1> HIDE DEF b
<1>5. GoodJob(w, c) /\ others(b, c, "industry") /\ Filled(c, b, r, "industry")
  BY <1>1, <1>2, <1>4
<1>6. FillAll(job, r, source) = c
  BY DEF FillAll, a, b
<1> HIDE DEF c
<1>7. CASE f = "website"
  <2>1. c[f] = a[f] /\ c.identity[f] = a.identity[f]
    BY <1>2, <1>4, <1>5, <1>7
  <2> QED BY <1>3, <1>6, <1>7, <2>1 DEF Filled
<1>8. CASE f = "summary"
  <2>1. c[f] = b[f] /\ c.identity[f] = b.identity[f]
    BY <1>2, <1>5, <1>8
  <2>2. a[f] = job[f] /\ a.identity[f] = job.identity[f] /\ (Lacks(a, f) <=> Lacks(job, f))
    BY <1>2, <1>3, <1>8
  <2> QED BY <1>4, <1>6, <1>8, <2>1, <2>2 DEF Filled
<1>9. CASE f = "industry"
  <2>1. a[f] = job[f] /\ a.identity[f] = job.identity[f] /\ (Lacks(a, f) <=> Lacks(job, f))
    BY <1>2, <1>3, <1>9
  <2>2. b[f] = a[f] /\ b.identity[f] = a.identity[f] /\ (Lacks(b, f) <=> Lacks(a, f))
    BY <1>2, <1>4, <1>9
  <2> QED BY <1>5, <1>6, <1>9, <2>1, <2>2 DEF Filled
<1> QED BY <1>7, <1>8, <1>9 DEF Fields

-----------------------------------------------------------------------------
(* Copies between the jobs of a company.                                   *)

\* A batch of good jobs.
GoodJobs(w, js) == DOMAIN js \subseteq Nat \ {0} /\ \A i \in DOMAIN js : GoodJob(w, js[i])

\* The best evidence of a field is some job's, if there is any.
LEMMA BestOfFinds ==
  ASSUME NEW js, DOMAIN js \subseteq Nat \ {0}, NEW company, NEW f
  PROVE  LET of == {i \in DOMAIN js : js[i].company = company /\ TrustedField(js[i], f)}
         IN  IF of = {} THEN BestOf(js, company, f) = 0 ELSE BestOf(js, company, f) \in of
<1> DEFINE of == {i \in DOMAIN js : js[i].company = company /\ TrustedField(js[i], f)}
           rank(i) == EvidenceRank(js[i].identity[f])
           best == {i \in of : \A k \in of : rank(i) >= rank(k)}
<1>1. CASE of = {}
  BY <1>1 DEF BestOf
<1>2. CASE of # {}
  <2>1. BestOf(js, company, f) = Min(best)
    BY <1>2 DEF BestOf
  <2>2. \A i \in of : rank(i) \in {0, 1, 2}
    BY DEF EvidenceRank
  <2> HIDE DEF rank
  <2>3. best # {}
    <3>1. CASE \E i \in of : rank(i) = 2
      BY <2>2, <3>1
    <3>2. CASE (\A i \in of : rank(i) # 2) /\ \E i \in of : rank(i) = 1
      BY <2>2, <3>2
    <3>3. CASE \A i \in of : rank(i) = 0
      BY <1>2, <3>3
    <3> HIDE DEF of, best
    <3> QED BY <2>2, <3>1, <3>2, <3>3
  <2>4. best \in SUBSET Nat
    OBVIOUS
  <2>5. \E m \in best : \A n \in best : m <= n
    <3> HIDE DEF best
    <3> QED BY <2>3, <2>4, LeastNumber
  <2>6. Min(best) \in best
    <3> HIDE DEF best
    <3> QED BY <2>5 DEF Min
  <2> QED BY <1>2, <2>1, <2>6
<1> QED BY <1>1, <1>2

\* What the best record of a company takes from which job.
LEMMA BestRecordFields ==
  ASSUME NEW js, NEW company
  PROVE  LET r == BestRecord(js, company)
         IN  /\ r = [x \in RecordFields |-> r[x]]
             /\ r.identity = [f \in Fields |-> r.identity[f]]
             /\ \A f \in Fields : LET from == BestOf(js, company, f)
                                  IN  IF from = 0 THEN r[f] = None /\ r.identity[f] = None
                                      ELSE r[f] = js[from][f] /\ r.identity[f] = js[from].identity[f]
<1> DEFINE from(f) == BestOf(js, company, f)
           known(f) == IF from(f) = 0 THEN None ELSE js[from(f)][f]
           why(f) == IF from(f) = 0 THEN None ELSE js[from(f)].identity[f]
           r == BestRecord(js, company)
<1> HIDE DEF from
<1>1. r = [website |-> known("website"), summary |-> known("summary"), industry |-> known("industry"),
           identity |-> [f \in Fields |-> why(f)]]
  BY DEF BestRecord, from
<1>2. r = [x \in RecordFields |-> IF x = "identity" THEN [f \in Fields |-> why(f)] ELSE known(x)]
  BY <1>1 DEF RecordFields, Fields
<1> HIDE DEF r
<1>3. r.identity = [f \in Fields |-> why(f)] /\ \A f \in Fields : r[f] = known(f)
  BY <1>2 DEF RecordFields, Fields
<1> QED BY <1>2, <1>3 DEF r, from

\* It holds only what is trusted.
LEMMA BestRecordPure ==
  ASSUME NEW w, NEW js, GoodJobs(w, js), NEW company
  PROVE  Pure(w, BestRecord(js, company))
<1> DEFINE r == BestRecord(js, company)
           from(f) == BestOf(js, company, f)
<1>1. /\ r = [x \in RecordFields |-> r[x]] /\ r.identity = [f \in Fields |-> r.identity[f]]
      /\ \A f \in Fields : IF from(f) = 0 THEN r[f] = None /\ r.identity[f] = None
                           ELSE r[f] = js[from(f)][f] /\ r.identity[f] = js[from(f)].identity[f]
  BY BestRecordFields
<1>2. \A f \in Fields : from(f) = 0 \/ (from(f) \in DOMAIN js /\ TrustedField(js[from(f)], f))
  BY BestOfFinds DEF GoodJobs
<1> HIDE DEF r, from
<1>3. IsRecord(r)
  <2>1. ASSUME NEW f \in Fields, r.identity[f] # None
        PROVE  {"confidence", "provisional"} \subseteq DOMAIN r.identity[f]
    <3>1. from(f) \in DOMAIN js /\ r.identity[f] = js[from(f)].identity[f]
      BY <1>1, <1>2, <2>1
    <3>2. IsIdentity(js[from(f)].identity)
      BY <3>1 DEF GoodJobs, GoodJob, IsJob
    <3> QED BY <2>1, <3>1, <3>2 DEF IsIdentity
  <2>2. IsIdentity(r.identity)
    BY <1>1, <2>1 DEF IsIdentity
  <2> QED BY <1>1, <2>2 DEF IsRecord, RecordFields
<1>4. ASSUME NEW f \in Fields, r[f] # None
      PROVE  Trusted(r, f) /\ r[f] \in ClaimsIn(w, f)
  <2>1. from(f) \in DOMAIN js /\ TrustedField(js[from(f)], f)
    BY <1>1, <1>2, <1>4
  <2>2. r[f] = js[from(f)][f] /\ r.identity[f] = js[from(f)].identity[f]
    BY <1>1, <1>4
  <2>3. Trusted(js[from(f)], f)
    BY <2>1 DEF TrustedField
  <2>4. Trusted(r, f) /\ Backed(js[from(f)], f)
    BY <2>2, <2>3 DEF Trusted, Backed
  <2> QED BY <2>1, <2>2, <2>4 DEF GoodJobs, GoodJob, Earned
<1>5. \A f \in Fields : Backed(r, f) => r[f] \in ClaimsIn(w, f)
  BY <1>4 DEF Backed
<1> QED BY <1>3, <1>4, <1>5 DEF Pure, GoodRecord, Earned, r

\* The copies between jobs of a company keep every job good.
LEMMA PropagatedOnward ==
  ASSUME NEW w, NEW js, GoodJobs(w, js)
  PROVE  /\ GoodJobs(w, Propagated(js)) /\ DOMAIN Propagated(js) = DOMAIN js
         /\ \A i \in DOMAIN js :
               LET new == Propagated(js)[i]
               IN  Onward(w, js[i], new) /\ Keeps(js[i], new) /\ new.company = js[i].company
<1>1. DOMAIN Propagated(js) = DOMAIN js
  BY DEF Propagated
<1>2. ASSUME NEW i \in DOMAIN js
      PROVE  LET new == Propagated(js)[i]
             IN  Onward(w, js[i], new) /\ Keeps(js[i], new) /\ new.company = js[i].company
  <2>1. CASE js[i].company = None
    BY <2>1, GoodIsMild DEF Propagated, GoodJobs, Mild
  <2>2. CASE js[i].company # None
    <3>1. Propagated(js)[i] = FillAll(js[i], BestRecord(js, js[i].company), "same_company_identity_copy")
      BY <2>2 DEF Propagated, Copied
    <3>2. Pure(w, BestRecord(js, js[i].company)) /\ GoodJob(w, js[i])
      BY BestRecordPure DEF GoodJobs
    <3> QED BY <3>1, <3>2, FillAllOnward
  <2> QED BY <2>1, <2>2
<1> QED BY <1>1, <1>2 DEF GoodJobs, Onward

\* Afterwards no job misses what another job of its company has on good evidence.
LEMMA PropagatedShares ==
  ASSUME NEW w, NEW js, GoodJobs(w, js), NEW i \in DOMAIN js, NEW k \in DOMAIN js, NEW f \in Fields,
         js[i].company # None, js[k].company = js[i].company, TrustedField(Propagated(js)[i], f)
  PROVE  ~Lacks(Propagated(js)[k], f)
<1> DEFINE c == js[i].company
           r == BestRecord(js, c)
           b == BestOf(js, c, f)
           to == Propagated(js)[i]
           new == Propagated(js)[k]
           of == {x \in DOMAIN js : js[x].company = c /\ TrustedField(js[x], f)}
<1> SUFFICES ~Lacks(new, f)
  OBVIOUS
<1>1. Pure(w, r)
  BY BestRecordPure
<1>2. Filled(to, js[i], r, f) /\ Filled(new, js[k], r, f)
  <2>1. /\ to = FillAll(js[i], r, "same_company_identity_copy")
        /\ new = FillAll(js[k], r, "same_company_identity_copy")
    BY DEF Propagated, Copied
  <2> QED BY <1>1, <2>1, FillAllField DEF GoodJobs
<1>3. IF of = {} THEN b = 0 ELSE b \in of
  BY BestOfFinds DEF GoodJobs
<1>4. IF b = 0 THEN r[f] = None /\ r.identity[f] = None
      ELSE r[f] = js[b][f] /\ r.identity[f] = js[b].identity[f]
  BY BestRecordFields
<1>5. to.company = c /\ new.company = c
  BY PropagatedOnward
<1>6. TrustedField(to, f)
  OBVIOUS
<1>7. b # 0 => b \in DOMAIN js /\ js[b].company = c /\ TrustedField(js[b], f)
  BY <1>3
<1>8. of # {} => b # 0
  BY <1>3 DEF GoodJobs
<1>9. i \in of <=> TrustedField(js[i], f)
  OBVIOUS
<1> HIDE DEF r, b, to, new, of
<1>10. b # 0
  <2>1. CASE r[f] # None
    BY <1>4, <2>1
  <2>2. CASE r[f] = None
    <3>1. to[f] = js[i][f] /\ to.identity[f] = js[i].identity[f]
      BY <1>2, <2>2 DEF Filled
    <3>2. TrustedField(js[i], f)
      BY <1>5, <1>6, <3>1 DEF TrustedField, Trusted, Lacks, EvidenceBlocked, Fields
    <3> QED BY <1>8, <1>9, <3>2
  <2> QED BY <2>1, <2>2
<1>11. r[f] = js[b][f] /\ r.identity[f] = js[b].identity[f] /\ TrustedField(js[b], f) /\ js[b].company = c
  BY <1>4, <1>7, <1>10
<1>12. r[f] # None /\ (f = "website" => ~EvidenceBlocked(r))
  BY <1>11 DEF TrustedField, Trusted, EvidenceBlocked
<1>13. CASE new[f] = js[k][f] /\ new.identity[f] = js[k].identity[f] /\ ~Lacks(js[k], f)
  BY <1>5, <1>13 DEF Lacks, Fields
<1>14. CASE /\ new[f] = r[f]
            /\ \E why : new.identity[f] = Evidence(r[f], why, r.identity[f].page,
                                                   r.identity[f].confidence, r.identity[f].provisional)
  <2>1. CASE f # "industry"
    BY <1>5, <1>11, <1>14, <2>1 DEF TrustedField, Lacks, Fields
  <2>2. CASE f = "industry"
    <3>1. EvidenceRank(r.identity[f]) > 0
      BY <1>11 DEF TrustedField, Trusted
    <3>2. ~r.identity[f].provisional
      BY <3>1 DEF EvidenceRank
    <3>3. ~new.identity[f].provisional
      BY <1>14, <3>2 DEF Evidence
    <3> QED BY <1>12, <1>14, <2>2, <3>3 DEF Lacks
  <2> QED BY <2>1, <2>2
<1> HIDE DEF c
<1> QED BY <1>2, <1>12, <1>13, <1>14 DEF Filled

\* The note that something came with the job.
LEMMA BackfilledFields ==
  ASSUME NEW job, IsJob(job)
  PROVE  LET new == Backfilled(job)
         IN  /\ IsJob(new) /\ \A x \in JobFields \ {"identity"} : new[x] = job[x]
             /\ \A f \in Fields :
                   new.identity[f] = IF job[f] # None /\ job.identity[f] = None
                                     THEN Evidence(job[f], "source_payload", job.apply.page, "low", TRUE)
                                     ELSE job.identity[f]
<1> DEFINE noted(f) == IF job[f] # None /\ job.identity[f] = None
                       THEN Evidence(job[f], "source_payload", job.apply.page, "low", TRUE)
                       ELSE job.identity[f]
           new == Backfilled(job)
<1>1. new = [job EXCEPT !.identity = [f \in Fields |-> noted(f)]]
  BY DEF Backfilled
<1>2. job = [x \in JobFields |-> job[x]] /\ IsIdentity(job.identity)
  BY DEF IsJob
<1>3. new = [x \in JobFields |-> IF x = "identity" THEN [f \in Fields |-> noted(f)] ELSE job[x]]
  BY <1>1, <1>2, FieldNames
<1> HIDE DEF new
<1>4. new.identity = [f \in Fields |-> noted(f)] /\ \A x \in JobFields \ {"identity"} : new[x] = job[x]
  BY <1>3, FieldNames
<1>5. IsIdentity(new.identity)
  <2>1. \A f \in Fields : noted(f) # None => {"confidence", "provisional"} \subseteq DOMAIN noted(f)
    BY <1>2 DEF IsIdentity, Evidence
  <2> HIDE DEF noted
  <2> QED BY <1>4, <2>1 DEF IsIdentity
<1>6. IsJob(new)
  BY <1>3, <1>5 DEF IsJob
<1> QED BY <1>4, <1>6 DEF new

\* It earns nothing new, is made once, and takes nothing from anybody but an
\* industry whose origin it notes.
LEMMA BackfilledGood ==
  ASSUME NEW w, NEW job, GoodJob(w, job)
  PROVE  /\ GoodJob(w, Backfilled(job)) /\ Backfilled(Backfilled(job)) = Backfilled(job)
         /\ Backfilled(job).company = job.company
         /\ \A f \in Fields : TrustedField(Backfilled(job), f) => TrustedField(job, f)
         /\ \A f \in Fields : ~Lacks(job, f) =>
               \/ ~Lacks(Backfilled(job), f)
               \/ f = "industry" /\ Backfilled(job).identity[f] # None
                  /\ Backfilled(job).identity[f].source = "source_payload"
<1> DEFINE new == Backfilled(job)
           again == Backfilled(new)
           note(f) == Evidence(job[f], "source_payload", job.apply.page, "low", TRUE)
           comes(f) == job[f] # None /\ job.identity[f] = None
<1>0. IsJob(job)
  BY DEF GoodJob
<1>1. /\ IsJob(new) /\ \A x \in JobFields \ {"identity"} : new[x] = job[x]
      /\ \A f \in Fields : new.identity[f] = IF comes(f) THEN note(f) ELSE job.identity[f]
  BY <1>0, BackfilledFields
<1>2. /\ IsJob(again) /\ \A x \in JobFields \ {"identity"} : again[x] = new[x]
      /\ \A f \in Fields :
            again.identity[f] = IF new[f] # None /\ new.identity[f] = None
                                THEN Evidence(new[f], "source_payload", new.apply.page, "low", TRUE)
                                ELSE new.identity[f]
  <2>1. IsJob(new)
    BY <1>1
  <2> HIDE DEF new
  <2> QED BY <2>1, BackfilledFields
<1> HIDE DEF new, again
<1>3. /\ new.apply = job.apply /\ new.text = job.text /\ new.company = job.company
      /\ \A f \in Fields : new[f] = job[f]
  BY <1>1 DEF JobFields, Fields
<1>4. \A f \in Fields : comes(f) => EvidenceRank(new.identity[f]) = 0
  <2>1. \A f : EvidenceRank(note(f)) = 0
    BY ProvisionalIsWeak DEF Weak
  <2> HIDE DEF note
  <2> QED BY <1>1, <2>1
<1>5. \A f \in Fields : EvidenceRank(new.identity[f]) > 0 => new.identity[f] = job.identity[f]
  <2> SUFFICES ASSUME NEW f \in Fields, EvidenceRank(new.identity[f]) > 0
               PROVE  new.identity[f] = job.identity[f]
    OBVIOUS
  <2>1. ~comes(f)
    BY <1>4
  <2> HIDE DEF comes, note
  <2> QED BY <1>1, <2>1
<1>6. GoodJob(w, new)
  <2>1. ASSUME NEW f \in Fields, Backed(new, f) PROVE new[f] \in ClaimsIn(w, f)
    <3>1. Backed(job, f)
      BY <1>3, <1>5, <2>1 DEF Backed
    <3> QED BY <1>3, <3>1 DEF GoodJob, Earned
  <2> QED BY <1>1, <1>3, <2>1 DEF GoodJob, Earned
<1>7. again = new
  <2>1. \A f \in Fields : again.identity[f] = new.identity[f]
    <3> TAKE f \in Fields
    <3>1. CASE new[f] # None /\ new.identity[f] = None
      <4>1. comes(f)
        BY <1>1, <1>3, <3>1
      <4>2. new.identity[f] = note(f)
        BY <1>1, <4>1
      <4> QED BY <1>2, <1>3, <3>1, <4>2
    <3>2. CASE ~(new[f] # None /\ new.identity[f] = None)
      BY <1>2, <3>2
    <3> QED BY <3>1, <3>2
  <2>2. /\ again.identity = [f \in Fields |-> again.identity[f]]
        /\ new.identity = [f \in Fields |-> new.identity[f]]
        /\ again = [x \in JobFields |-> again[x]] /\ new = [x \in JobFields |-> new[x]]
    BY <1>1, <1>2 DEF IsJob, IsIdentity
  <2>3. again.identity = new.identity
    BY <2>1, <2>2
  <2> QED BY <1>2, <2>2, <2>3
<1>8. ASSUME NEW f \in Fields, TrustedField(new, f) PROVE TrustedField(job, f)
  <2>1. EvidenceRank(new.identity[f]) > 0 /\ new.identity[f] = job.identity[f] /\ new[f] = job[f]
    BY <1>3, <1>5, <1>8 DEF TrustedField, Trusted
  <2>2. Lacks(new, f) <=> Lacks(job, f)
    BY <1>3, <2>1 DEF Lacks, Fields
  <2>3. f = "website" => (EvidenceBlocked(new) <=> EvidenceBlocked(job))
    BY <2>1 DEF EvidenceBlocked
  <2> QED BY <1>8, <2>1, <2>2, <2>3 DEF TrustedField, Trusted
<1>9. ASSUME NEW f \in Fields, ~Lacks(job, f), Lacks(new, f)
      PROVE  f = "industry" /\ new.identity[f] # None /\ new.identity[f].source = "source_payload"
  <2>1. f = "industry"
    BY <1>3, <1>9 DEF Lacks, Fields
  <2>2. new[f] = job[f] /\ job[f] # None /\ new.identity[f] # None
    BY <1>3, <1>9, <2>1 DEF Lacks
  <2>3. comes(f)
    BY <1>1, <1>9, <2>1, <2>2 DEF Lacks
  <2>4. new.identity[f] = note(f)
    BY <1>1, <2>3
  <2> QED BY <2>1, <2>2, <2>4 DEF Evidence
<1> QED BY <1>3, <1>6, <1>7, <1>8, <1>9 DEF new, again

-----------------------------------------------------------------------------
(* The store.                                                              *)

\* A store of such records.
GoodStore(w, kept) == "rows" \in DOMAIN kept /\ \A r \in Range(kept.rows) : GoodRecord(w, r)

\* What the store answers was written to it.
LEMMA LookupGood ==
  ASSUME NEW w, NEW kept, GoodStore(w, kept), NEW company, NEW site
  PROVE  Lookup(kept, company, site) # None => GoodRecord(w, Lookup(kept, company, site))
<1> DEFINE keys == QueryKeys(company, site)
           I == {i \in 1..Len(keys) : HasRow(kept, keys[i])}
           d == <<"domain", site.host, site.prefix>>
           n == <<"name", company, FALSE>>
           K == {d, n}
           hit == SelectInSeq(keys, LAMBDA key : HasRow(kept, key))
<1>1. keys \in Seq(K)
  <2>1. DomainKeys(site) \in {<<>>, <<d>>} /\ NameKeys(company) \in {<<>>, <<n>>}
    BY DEF DomainKeys, NameKeys
  <2> HIDE DEF d, n
  <2>2. <<>> \in Seq(K) /\ <<d>> \in Seq(K) /\ <<n>> \in Seq(K)
    OBVIOUS
  <2> HIDE DEF K
  <2>3. DomainKeys(site) \in Seq(K) /\ NameKeys(company) \in Seq(K)
    BY <2>1, <2>2
  <2>4. keys = DomainKeys(site) \o NameKeys(company)
    BY DEF QueryKeys
  <2> HIDE DEF keys
  <2> QED BY <2>3, <2>4
<1>2. hit = IF I # {} THEN Min(I) ELSE 0
  BY DEF SelectInSeq
<1>3. Lookup(kept, company, site) = IF hit = 0 THEN None ELSE RowAt(kept, keys[hit])
  BY DEF Lookup
<1>4. CASE I # {}
  <2>1. I = {i \in 1..Len(keys) : i \in I}
    OBVIOUS
  <2>2. Min(I) \in I
    <3> HIDE DEF I, keys
    <3> QED BY <1>1, <1>4, <2>1, FirstIn
  <2>3. HasRow(kept, keys[Min(I)])
    BY <2>2
  <2>4. RowAt(kept, keys[Min(I)]) \in Range(kept.rows)
    BY <2>3 DEF HasRow, RowAt, Range
  <2> HIDE DEF keys, I, hit
  <2> QED BY <1>2, <1>3, <1>4, <2>4 DEF GoodStore
<1>5. CASE I = {}
  BY <1>2, <1>3, <1>5
<1> QED BY <1>4, <1>5

\* What is written to the store, under however many keys, keeps it good.
LEMMA SavedGood ==
  ASSUME NEW w, NEW kept, GoodStore(w, kept), NEW company, NEW r, GoodRecord(w, r)
  PROVE  GoodStore(w, Saved(kept, company, r))
<1> DEFINE keys == QueryKeys(company, r.website)
           rows == IF kept.memory THEN Written(kept.rows, Range(keys), r)
                   ELSE Written(kept.rows, {Head(keys)}, r)
           new == Saved(kept, company, r)
<1>1. new.rows = rows /\ "rows" \in DOMAIN new
  BY DEF Saved, GoodStore
<1>2. Range(rows) \subseteq {r} \cup Range(kept.rows)
  <2>1. \A A : Range(Written(kept.rows, A, r)) \subseteq {r} \cup Range(kept.rows)
    BY DEF Range, Written
  <2> QED BY <2>1
<1> HIDE DEF rows, new
<1> QED BY <1>1, <1>2 DEF GoodStore, new

-----------------------------------------------------------------------------
(* The invariant.                                                          *)

\* Where a worker has not read a profile yet.
Early == {"new", "hydrate", "remember", "recall", "page"}
\* Where the website of its job has been looked at.
Late == {"page", "profile", "home", "about", "keep", "persist", "emit"}
\* Where a worker has ended.
Through == {"done", "skipped"}

\* What a worker that is at this point has established about its job.
Placed(at, job, record) ==
    /\ at = "remember" => GoodRecord(world, record)
    /\ at \in Early => job.profile \in world.profiles \cup {None}
    /\ at = "page" => job.apply.board # "builtin"
    /\ at = "profile" => /\ ProfileOf(job) \in world.profiles
                         /\ job.apply.board # "builtin" =>
                               job.apply.page \in DOMAIN world.pages /\ ApplyPage(job) # None
    /\ at = "about" => HomePage(job) # None /\ HomePage(job).about # None
    /\ at \in Late => OkSite(job.website)

\* Every job of the batch is good, wherever its worker is.
JobsInv ==
    /\ world \in Worlds
    /\ Batch = DOMAIN world.jobs
    /\ \A j \in Batch : GoodJob(world, jobs[j])
    /\ jobs = [j \in Batch |-> jobs[j]] /\ pc = [j \in Batch |-> pc[j]]
    /\ held = [j \in Batch |-> held[j]] /\ sent = [j \in Batch |-> sent[j]]
    /\ \A j \in Batch : Placed(pc[j], jobs[j], held[j])

\* The cache of companies holds earned values only.
CacheInv ==
    /\ cache = [c \in Companies |-> cache[c]]
    /\ \A c \in Companies : cache[c] # None => GoodRecord(world, cache[c])

\* So do the profiles, and their websites were accepted.
ProfilesInv ==
    /\ profiles = [at \in world.profiles |-> profiles[at]]
    /\ \A at \in world.profiles : profiles[at] # None =>
          /\ profiles[at] = [read |-> profiles[at].read, record |-> profiles[at].record]
          /\ GoodRecord(world, profiles[at].record) /\ OkSite(profiles[at].record.website)

\* How far the batch is, and what was sent of it.
SentInv ==
    /\ phase \in {"idle", "working", "publishing", "ended"}
    /\ phase = "idle" => \A j \in Batch : pc[j] = "new"
    /\ phase = "working" => \A j \in Batch : pc[j] = "done" => sent[j] = jobs[j] /\ OkSite(jobs[j].website)
    /\ phase \in {"publishing", "ended"} => \A j \in Batch :
          /\ pc[j] \in Through /\ Backfilled(jobs[j]) = jobs[j]
          /\ pc[j] = "done" /\ j \notin due => Backfilled(sent[j]) = jobs[j]
    /\ phase = "ended" => due = {}

\* The inductive invariant.
EnrichInv == JobsInv /\ CacheInv /\ ProfilesInv /\ GoodStore(world, store) /\ SentInv /\ BatchIsShared

\* The jobs of a batch are numbered.
LEMMA BatchNumbers ==
  ASSUME NEW w \in Worlds
  PROVE  /\ \E n \in Nat : DOMAIN w.jobs = 1..n
         /\ w.jobs = [j \in DOMAIN w.jobs |-> w.jobs[j]]
<1>1. w.jobs \in Seq(Range(w.jobs))
  BY WorldAssumption
<1> QED BY <1>1

\* The invariant holds at the start.
LEMMA EnrichInitInv == EnrichInit => EnrichInv
<1> SUFFICES ASSUME EnrichInit PROVE EnrichInv
  OBVIOUS
<1>1. world \in Worlds /\ jobs = world.jobs /\ phase = "idle"
  BY DEF EnrichInit
<1>2. \E n \in Nat : DOMAIN world.jobs = 1..n
  BY <1>1, BatchNumbers
<1>3. ASSUME NEW j \in Batch PROVE GoodJob(world, jobs[j])
  <2>1. IsJob(jobs[j]) /\ jobs[j].apply # None
    BY <1>1, <1>3, WorldAssumption DEF Batch
  <2>2. jobs[j].apply \in AppliesOf(world) /\ jobs[j].text \in PagesOf(world) \cup {None}
    BY <1>1, <1>3, <2>1 DEF AppliesOf, PagesOf, Batch
  <2>3. ASSUME NEW f \in Fields, Backed(jobs[j], f) PROVE jobs[j][f] \in ClaimsIn(world, f)
    <3>1. jobs[j][f] \in BroughtIn(world, f)
      BY <1>1, <1>3, <2>3 DEF BroughtIn, Batch
    <3> QED BY <3>1, KindsOfClaims DEF Fields
  <2> QED BY <2>1, <2>2, <2>3 DEF GoodJob, Earned
<1>4. GoodStore(world, store)
  <2>1. store = world.store /\ "rows" \in DOMAIN store
    BY <1>1, WorldAssumption DEF EnrichInit
  <2>2. ASSUME NEW r \in Range(store.rows) PROVE GoodRecord(world, r)
    <3>1. IsRecord(r)
      BY <1>1, <2>1, WorldAssumption
    <3>2. ASSUME NEW f \in Fields, Backed(r, f) PROVE r[f] \in ClaimsIn(world, f)
      <4>1. r[f] \in BroughtIn(world, f)
        BY <2>1, <3>2 DEF BroughtIn
      <4> QED BY <4>1, KindsOfClaims DEF Fields
    <3> QED BY <3>1, <3>2 DEF GoodRecord, Earned
  <2> QED BY <2>1, <2>2 DEF GoodStore
<1>5. JobsInv
  <2>1. Batch = DOMAIN world.jobs /\ jobs = [j \in Batch |-> jobs[j]]
    BY <1>1, BatchNumbers DEF Batch
  <2>2. /\ pc = [j \in Batch |-> "new"] /\ held = [j \in Batch |-> None] /\ sent = [j \in Batch |-> None]
    BY DEF EnrichInit
  <2>3. ASSUME NEW j \in Batch PROVE Placed(pc[j], jobs[j], held[j])
    <3>1. pc[j] = "new" /\ jobs[j].profile \in world.profiles \cup {None}
      BY <1>1, <2>2, <2>3, WorldAssumption DEF Batch
    <3> QED BY <3>1 DEF Placed, Late
  <2> HIDE DEF Batch
  <2> QED BY <1>1, <1>3, <2>1, <2>2, <2>3 DEF JobsInv
<1>6. CacheInv /\ ProfilesInv
  <2>1. cache = [c \in Companies |-> None] /\ profiles = [at \in world.profiles |-> None]
    BY DEF EnrichInit
  <2> QED BY <2>1 DEF CacheInv, ProfilesInv
<1>7. SentInv /\ BatchIsShared
  BY <1>1 DEF SentInv, BatchIsShared, EnrichInit
<1> QED BY <1>4, <1>5, <1>6, <1>7 DEF EnrichInv

\* Whoever is at work, the batch is.
LEMMA WorkIsWorking ==
  ASSUME EnrichInv, NEW j \in Batch, pc[j] \notin {"new", "done", "skipped"}
  PROVE  phase = "working"
  BY DEF EnrichInv, SentInv, Through

\* A step of a worker keeps what it does not touch.
LEMMA WorkInv ==
  ASSUME EnrichInv, NEW j \in Batch, NEW job, NEW next, Work(j, job, next),
         phase = "working", GoodJob(world, job),
         held' = [k \in Batch |-> held'[k]], \A k \in Batch \ {j} : held'[k] = held[k],
         sent' = [k \in Batch |-> sent'[k]], \A k \in Batch \ {j} : sent'[k] = sent[k],
         Placed(next, job, held'[j]),
         next = "done" => sent'[j] = job /\ OkSite(job.website),
         CacheInv', ProfilesInv', GoodStore(world, store')
  PROVE  EnrichInv'
<1>1. /\ jobs' = [jobs EXCEPT ![j] = job] /\ pc' = [pc EXCEPT ![j] = next]
      /\ world' = world /\ phase' = phase
  BY DEF Work
<1>2. /\ jobs = [k \in Batch |-> jobs[k]] /\ pc = [k \in Batch |-> pc[k]] /\ Batch = DOMAIN world.jobs
      /\ world \in Worlds /\ \A k \in Batch : GoodJob(world, jobs[k]) /\ Placed(pc[k], jobs[k], held[k])
  BY DEF EnrichInv, JobsInv
<1>3. Batch' = Batch
  <2>1. jobs' = [k \in Batch |-> IF k = j THEN job ELSE jobs[k]]
    BY <1>1, <1>2
  <2> QED BY <2>1 DEF Batch
<1>4. /\ jobs' = [k \in Batch |-> IF k = j THEN job ELSE jobs[k]]
      /\ pc' = [k \in Batch |-> IF k = j THEN next ELSE pc[k]]
  BY <1>1, <1>2
<1>5. ASSUME NEW k \in Batch PROVE Placed(pc'[k], jobs'[k], held'[k])
  BY <1>2, <1>4, <1>5
<1>6. \A k \in Batch : Placed(pc[k], jobs[k], held[k])'
  BY <1>1, <1>5 DEF Placed, ProfileOf, ApplyPage, HomePage
<1>7. JobsInv'
  <2>1. \A k \in Batch : GoodJob(world, jobs'[k])
    BY <1>2, <1>4
  <2>2. jobs' = [k \in Batch |-> jobs'[k]] /\ pc' = [k \in Batch |-> pc'[k]]
    BY <1>4
  <2> HIDE DEF Batch
  <2> QED BY <1>1, <1>2, <1>3, <1>6, <2>1, <2>2 DEF JobsInv
<1>8. SentInv'
  <2>1. ASSUME NEW k \in Batch, pc'[k] = "done" PROVE sent'[k] = jobs'[k] /\ OkSite(jobs'[k].website)
    BY <1>4, <2>1 DEF EnrichInv, SentInv
  <2> HIDE DEF Batch
  <2> QED BY <1>1, <1>3, <2>1 DEF SentInv
<1>9. BatchIsShared'
  BY <1>1 DEF BatchIsShared
<1>10. GoodStore(world, store)'
  BY <1>1
<1> QED BY <1>7, <1>8, <1>9, <1>10 DEF EnrichInv

\* The pages a worker visits.
LEMMA VisitedPages ==
  ASSUME NEW w \in Worlds
  PROVE  /\ \A at \in DOMAIN w.pages : w.pages[at] # None => w.pages[at] \in PagesOf(w)
         /\ \A at \in DOMAIN w.sites : w.sites[at] # None => w.sites[at] \in PagesOf(w)
               /\ (w.sites[at].about # None => w.sites[at].about \in PagesOf(w))
<1>1. ASSUME NEW at \in DOMAIN w.pages, w.pages[at] # None PROVE w.pages[at] \in PagesOf(w)
  <2>1. w.pages[at] \in Range(w.pages)
    BY DEF Range
  <2> QED BY <1>1, <2>1 DEF PagesOf
<1>2. \A at \in DOMAIN w.sites : w.sites[at] \in Range(w.sites)
  BY DEF Range
<1> QED BY <1>1, <1>2, AboutPages

\* The unchanged parts.
LEMMA CacheStays ==
  ASSUME EnrichInv, UNCHANGED <<world, cache>>
  PROVE  CacheInv'
<1>1. Companies' = Companies
  BY DEF Companies
<1> HIDE DEF Companies
<1> QED BY <1>1 DEF EnrichInv, CacheInv

\* A step that leaves the profiles alone.
LEMMA ProfilesStay ==
  ASSUME EnrichInv, UNCHANGED <<world, profiles>>
  PROVE  ProfilesInv'
  BY DEF EnrichInv, ProfilesInv

\* What the invariant says of the job a worker is at.
LEMMA JobFacts ==
  ASSUME EnrichInv, NEW j \in Batch
  PROVE  /\ world \in Worlds /\ GoodJob(world, jobs[j]) /\ Placed(pc[j], jobs[j], held[j])
         /\ held = [k \in Batch |-> held[k]] /\ sent = [k \in Batch |-> sent[k]]
         /\ GoodStore(world, store) /\ jobs[j].apply \in AppliesOf(world)
  BY DEF EnrichInv, JobsInv, GoodJob

\* A worker that only reads a job, and changes nothing else but it.
LEMMA JobStep ==
  ASSUME EnrichInv, NEW j \in Batch, NEW job, NEW next, Work(j, job, next),
         phase = "working", GoodJob(world, job), next \notin {"remember", "done"},
         Placed(next, job, None), UNCHANGED <<held, cache, profiles, store, sent>>
  PROVE  EnrichInv'
<1>1. world' = world
  BY DEF Work
<1>2. Placed(next, job, held'[j])
  BY DEF Placed
<1>3. CacheInv' /\ ProfilesInv'
  BY <1>1, CacheStays, ProfilesStay
<1>4. GoodStore(world, store')
  BY JobFacts
<1>5. /\ held' = [k \in Batch |-> held'[k]] /\ sent' = [k \in Batch |-> sent'[k]]
      /\ \A k \in Batch \ {j} : held'[k] = held[k] /\ sent'[k] = sent[k]
  BY JobFacts
<1> HIDE DEF Batch
<1> QED BY <1>2, <1>3, <1>4, <1>5, WorkInv

\* A worker takes a job.
LEMMA StartStep == ASSUME EnrichInv, NEW j \in Batch, Start(j) PROVE EnrichInv'
<1> DEFINE job == FromDescription(jobs[j])
<1>1. /\ phase = "working" /\ pc[j] = "new" /\ Work(j, job, "hydrate")
      /\ UNCHANGED <<held, cache, profiles, store, sent>>
  BY DEF Start
<1>2. GoodJob(world, job) /\ job.profile = jobs[j].profile
  BY JobFacts, DescriptionGood
<1>3. jobs[j].profile \in world.profiles \cup {None}
  BY <1>1, JobFacts DEF Placed, Early
<1> HIDE DEF job, Batch
<1>4. Placed("hydrate", job, None)
  BY <1>2, <1>3 DEF Placed, Late
<1> QED BY <1>1, <1>2, <1>4, JobStep

\* A worker finds the batch cancelled.
LEMMA SkipStep == ASSUME EnrichInv, NEW j \in Batch, Skip(j) PROVE EnrichInv'
<1>1. /\ phase = "working" /\ Work(j, jobs[j], "skipped")
      /\ UNCHANGED <<held, cache, profiles, store, sent>>
  BY DEF Skip
<1>2. Placed("skipped", jobs[j], None)
  BY DEF Placed, Early, Late
<1> HIDE DEF Batch
<1> QED BY <1>1, <1>2, JobFacts, JobStep

\* It looks the company up in the store.
LEMMA HydrateStep == ASSUME EnrichInv, NEW j \in Batch, Hydrate(j) PROVE EnrichInv'
<1> DEFINE record == Lookup(store, jobs[j].company, jobs[j].website)
           hit == record # None /\ (store.memory \/ ~cancelled)
           job == IF hit THEN Applied(jobs[j], record) ELSE jobs[j]
           next == IF hit THEN "remember" ELSE "recall"
           read == IF hit THEN record ELSE None
<1>1. /\ pc[j] = "hydrate" /\ held' = [held EXCEPT ![j] = read] /\ Work(j, job, next)
      /\ UNCHANGED <<cache, profiles, store, sent>>
  BY DEF Hydrate
<1>2. phase = "working"
  BY <1>1, WorkIsWorking
<1>3. record # None => GoodRecord(world, record)
  BY JobFacts, LookupGood
<1>4. GoodJob(world, jobs[j])
  BY JobFacts
<1> HIDE DEF record
<1>5. GoodJob(world, job) /\ job.profile = jobs[j].profile
  <2>1. record # None => Onward(world, jobs[j], Applied(jobs[j], record))
    BY <1>3, <1>4, AppliedOnward
  <2> QED BY <1>4, <2>1 DEF Onward
<1>6. jobs[j].profile \in world.profiles \cup {None}
  BY <1>1, JobFacts DEF Placed, Early
<1>7. Placed(next, job, read)
  <2> HIDE DEF job
  <2> QED BY <1>3, <1>5, <1>6 DEF Placed, Late
<1> HIDE DEF job, read
<1>8. held' = [k \in Batch |-> IF k = j THEN read ELSE held[k]]
  <2> HIDE DEF Batch
  <2> QED BY <1>1, JobFacts
<1>9. sent' = sent /\ store' = store /\ world' = world /\ next # "done"
  BY <1>1 DEF Work
<1>10. CacheInv' /\ ProfilesInv'
  BY <1>1, <1>9, CacheStays, ProfilesStay
<1>11. GoodStore(world, store') /\ sent' = [k \in Batch |-> sent'[k]]
  BY <1>9, JobFacts
<1>12. held'[j] = read /\ held' = [k \in Batch |-> held'[k]] /\ \A k \in Batch \ {j} : held'[k] = held[k]
  <2> HIDE DEF Batch
  <2> QED BY <1>8
<1> HIDE DEF Batch, next
<1> QED BY <1>1, <1>2, <1>5, <1>7, <1>9, <1>10, <1>11, <1>12, WorkInv

\* The cache after a worker has remembered a record.
LEMMA CacheGrows ==
  ASSUME EnrichInv, NEW company, NEW r, GoodRecord(world, r), world' = world,
         cache' = Remembered(company, r)
  PROVE  CacheInv'
<1>1. Companies' = Companies
  BY DEF Companies
<1> HIDE DEF Companies
<1>2. cache = [c \in Companies |-> cache[c]] /\ \A c \in Companies : cache[c] # None => GoodRecord(world, cache[c])
  BY DEF EnrichInv, CacheInv
<1>3. cache' = cache \/ cache' = [c \in Companies |-> IF c = company THEN r ELSE cache[c]]
  BY <1>2 DEF Remembered
<1> QED BY <1>1, <1>2, <1>3 DEF CacheInv

\* What the store knew goes to the cache.
LEMMA RememberStep == ASSUME EnrichInv, NEW j \in Batch, Remember(j) PROVE EnrichInv'
<1>1. /\ pc[j] = "remember" /\ held' = [held EXCEPT ![j] = None] /\ Work(j, jobs[j], "recall")
      /\ cache' = Remembered(jobs[j].company, held[j]) /\ UNCHANGED <<profiles, store, sent>>
  BY DEF Remember
<1>2. phase = "working"
  BY <1>1, WorkIsWorking
<1>3. GoodRecord(world, held[j]) /\ jobs[j].profile \in world.profiles \cup {None}
  BY <1>1, JobFacts DEF Placed, Early
<1>4. world' = world
  BY <1>1 DEF Work
<1>5. CacheInv' /\ ProfilesInv'
  BY <1>1, <1>3, <1>4, CacheGrows, ProfilesStay
<1>6. held'[j] = None /\ held' = [k \in Batch |-> held'[k]] /\ \A k \in Batch \ {j} : held'[k] = held[k]
  <2> HIDE DEF Batch
  <2> QED BY <1>1, JobFacts
<1>7. Placed("recall", jobs[j], held'[j])
  BY <1>3 DEF Placed, Late
<1>8. sent' = [k \in Batch |-> sent'[k]] /\ \A k \in Batch \ {j} : sent'[k] = sent[k]
  BY <1>1, JobFacts
<1> HIDE DEF Batch
<1> QED BY <1>1, <1>2, <1>5, <1>6, <1>7, <1>8, JobFacts, WorkInv

\* It looks the company up in the cache and prepares the job.
LEMMA RecallStep == ASSUME EnrichInv, NEW j \in Batch, Recall(j) PROVE EnrichInv'
<1> DEFINE record == Recalled(jobs[j])
           known == IF record = None THEN jobs[j] ELSE Applied(jobs[j], record)
           job == Prepared(known)
           next == FirstPage(job)
<1>1. /\ pc[j] = "recall" /\ Work(j, job, next) /\ UNCHANGED <<held, cache, profiles, store, sent>>
  BY DEF Recall
<1>2. phase = "working" /\ world \in Worlds
  BY <1>1, WorkIsWorking, JobFacts
<1>3. record # None => GoodRecord(world, record)
  BY DEF Recalled, EnrichInv, CacheInv
<1>4. GoodJob(world, jobs[j]) /\ jobs[j].profile \in world.profiles \cup {None}
  BY <1>1, JobFacts DEF Placed, Early
<1> HIDE DEF record
<1>5. Onward(world, jobs[j], known)
  <2>1. Onward(world, jobs[j], jobs[j])
    BY <1>4, GoodIsMild DEF Mild
  <2> QED BY <1>3, <1>4, <2>1, AppliedOnward
<1>6. GoodJob(world, known) /\ known.profile = jobs[j].profile
  BY <1>5 DEF Onward
<1> HIDE DEF known
<1>7. Onward(world, known, job) /\ OkSite(job.website)
  BY <1>2, <1>6, PreparedOnward
<1> HIDE DEF job
<1>8. GoodJob(world, job) /\ job.profile \in world.profiles \cup {None} /\ job.apply \in AppliesOf(world)
  BY <1>4, <1>6, <1>7 DEF Onward, GoodJob
<1>9. next \in {"keep", "home", "profile", "page"}
  BY DEF FirstPage
<1>10. next = "page" => job.apply.board # "builtin"
  BY DEF FirstPage
<1>11. next = "profile" => ProfileOf(job) \in world.profiles /\ job.apply.board = "builtin"
  <2>1. ASSUME next = "profile" PROVE job.apply.board = "builtin" /\ BuiltInProfile(job) # None
    BY <2>1 DEF FirstPage
  <2>2. ASSUME next = "profile" PROVE ProfileOf(job) = "builtin profile"
    BY <2>1, <2>2 DEF ProfileOf, BuiltInProfile
  <2>3. ASSUME next = "profile" PROVE "builtin profile" \in world.profiles
    BY <1>2, <1>8, <2>1, <2>3, WorldAssumption
  <2> QED BY <2>1, <2>2, <2>3
<1> HIDE DEF next, Batch
<1>12. Placed(next, job, None)
  BY <1>7, <1>8, <1>9, <1>10, <1>11 DEF Placed, Early
<1> QED BY <1>1, <1>2, <1>8, <1>9, <1>12, JobStep

\* It reads the apply page.
LEMMA VisitPageStep ==
  ASSUME EnrichInv, NEW j \in Batch, NEW came, VisitPage(j, came)
  PROVE  EnrichInv'
<1> DEFINE job == jobs[j]
           p == ApplyPage(job)
           indeed == job.apply.board = "indeed"
           read == IF indeed THEN FromIndeed(job, p) ELSE FromPage(job, p)
           profiled == IF indeed THEN read.profile = "indeed profile" ELSE p.profile # None
           profile == IF indeed THEN read.profile ELSE p.profile
           seen == [read EXCEPT !.profile = profile]
           told == FromModel(read, p, Answer(p))
<1>1. /\ pc[j] = "page" /\ (came => p # None)
      /\ \/ ~came /\ Work(j, job, "home")
         \/ came /\ profiled /\ Work(j, seen, "profile")
         \/ came /\ ~profiled /\ Work(j, told, "home")
      /\ UNCHANGED <<held, cache, profiles, store, sent>>
  BY DEF VisitPage
<1>2. phase = "working" /\ world \in Worlds /\ GoodJob(world, job) /\ job.apply \in AppliesOf(world)
  BY <1>1, WorkIsWorking, JobFacts
<1>3. job.apply.board # "builtin" /\ job.profile \in world.profiles \cup {None} /\ OkSite(job.website)
  BY <1>1, JobFacts DEF Placed, Early, Late
<1>4. job.apply.page \in DOMAIN world.pages
  BY <1>2, <1>3, WorldAssumption
<1>5. CASE ~came
  <2>1. Work(j, job, "home")
    BY <1>1, <1>5
  <2>2. Placed("home", job, None)
    BY <1>3 DEF Placed, Early
  <2> HIDE DEF Batch
  <2> QED BY <1>1, <1>2, <2>1, <2>2, JobStep
<1>6. CASE came
  <2>1. p \in PagesOf(world) /\ p # None
    BY <1>1, <1>2, <1>4, <1>6, VisitedPages DEF ApplyPage
  <2>2. p.profile \in world.profiles \cup {None}
    BY <1>2, <2>1, PageTypes
  <2>3. /\ GoodJob(world, read) /\ read.apply = job.apply /\ OkSite(read.website)
        /\ indeed => read.profile \in world.profiles \cup {None}
    <3>1. CASE indeed
      <4>1. /\ GoodJob(world, FromIndeed(job, p)) /\ FromIndeed(job, p).apply = job.apply
            /\ OkSite(FromIndeed(job, p).website) /\ FromIndeed(job, p).profile \in {job.profile, p.profile}
        BY <1>2, <2>1, IndeedGood
      <4> QED BY <1>3, <2>2, <3>1, <4>1
    <3>2. CASE ~indeed
      <4>1. Mild(world, job, FromPage(job, p))
        BY <1>2, <2>1, PageMild
      <4> QED BY <1>3, <3>2, <4>1 DEF Mild, Onward, Sited
    <3> QED BY <3>1, <3>2
  <2>4. Mild(world, read, told)
    <3> HIDE DEF read, p
    <3> QED BY <1>2, <2>1, <2>3, ModelMild DEF Answer
  <2> HIDE DEF read
  <2>5. CASE profiled /\ Work(j, seen, "profile")
    <3>1. profile \in world.profiles
      <4>1. "indeed profile" # None
        BY EnrichmentAssumption
      <4> QED BY <2>2, <2>3, <2>5, <4>1
    <3>2. GoodJob(world, seen) /\ seen.profile = profile /\ seen.apply = read.apply /\ seen.website = read.website
      BY <2>3, ProfiledGood DEF JobFields, Fields
    <3> HIDE DEF seen, profile
    <3>3. ProfileOf(seen) \in world.profiles
      BY <1>3, <2>3, <3>1, <3>2 DEF ProfileOf
    <3>4. seen.apply.page \in DOMAIN world.pages /\ ApplyPage(seen) # None
      BY <1>4, <2>1, <2>3, <3>2 DEF ApplyPage
    <3>5. Placed("profile", seen, None)
      BY <2>3, <3>2, <3>3, <3>4 DEF Placed, Early
    <3> HIDE DEF Batch
    <3> QED BY <1>1, <1>2, <2>5, <3>2, <3>5, JobStep
  <2>6. CASE Work(j, told, "home")
    <3>1. GoodJob(world, told) /\ OkSite(told.website)
      BY <2>3, <2>4 DEF Mild, Onward, Sited
    <3> HIDE DEF told
    <3>2. Placed("home", told, None)
      BY <3>1 DEF Placed, Early
    <3> HIDE DEF Batch
    <3> QED BY <1>1, <1>2, <2>6, <3>1, <3>2, JobStep
  <2> QED BY <1>1, <1>6, <2>5, <2>6
<1> QED BY <1>5, <1>6

\* The model reads the page that linked to the profile.
LEMMA AndPageMild ==
  ASSUME NEW job, world \in Worlds, GoodJob(world, job),
         job.apply.board # "builtin" => job.apply.page \in DOMAIN world.pages /\ ApplyPage(job) # None
  PROVE  Mild(world, job, AndPage(job))
<1>1. CASE job.apply.board = "builtin"
  BY <1>1, GoodIsMild DEF AndPage
<1>2. CASE job.apply.board # "builtin"
  <2>1. ApplyPage(job) \in PagesOf(world)
    BY <1>2, VisitedPages DEF ApplyPage
  <2> QED BY <1>2, <2>1, ModelMild DEF AndPage, Answer
<1> QED BY <1>1, <1>2

\* It reads a profile, or takes what another worker read there.
LEMMA VisitProfileStep ==
  ASSUME EnrichInv, NEW j \in Batch, NEW came \in BOOLEAN, VisitProfile(j, came)
  PROVE  EnrichInv'
<1> DEFINE job == jobs[j]
           at == ProfileOf(job)
           p == world.pages[at]
           known == IF profiles[at] = None THEN NoRecord ELSE profiles[at].record
           seen == FromProfile(job, p)
           indeed == FromIndeedProfile(job, p)
           applied == Applied(job, known)
           first == FromModel(seen, p, Answer(p))
           shown == FromModel(indeed, p, Answer(p))
           later == FromModel(applied, p, Answer(p))
           fine(x) == GoodJob(world, x) /\ x.apply = job.apply /\ OkSite(x.website)
           entry1 == [read |-> came, record |-> IF came THEN RecordOf(first) ELSE NoRecord]
           record2 == IF NeedsModel(applied) THEN RecordOf(later) ELSE profiles[at].record
<1>1. /\ pc[j] = "profile"
      /\ \E x \in {job, first, shown, later} : Work(j, AndPage(x), "home")
      /\ \/ profiles' = profiles
         \/ profiles' = [profiles EXCEPT ![at] = entry1]
         \/ profiles[at] # None /\ profiles' = [profiles EXCEPT ![at].record = record2]
      /\ UNCHANGED <<held, cache, store, sent>>
  BY DEF VisitProfile
<1>2. phase = "working" /\ world \in Worlds /\ GoodJob(world, job)
  BY <1>1, WorkIsWorking, JobFacts
<1>3. /\ at \in world.profiles /\ OkSite(job.website)
      /\ job.apply.board # "builtin" => job.apply.page \in DOMAIN world.pages /\ ApplyPage(job) # None
  BY <1>1, JobFacts DEF Placed, Late
<1>4. p \in PagesOf(world)
  BY <1>2, <1>3, VisitedPages, WorldAssumption
<1>5. GoodRecord(world, known) /\ OkSite(known.website)
  <2>1. CASE profiles[at] = None
    BY <2>1, NoRecordPure DEF Pure, NoRecord, OkSite
  <2>2. CASE profiles[at] # None
    <3> HIDE DEF at
    <3> QED BY <1>3, <2>2 DEF EnrichInv, ProfilesInv
  <2> QED BY <2>1, <2>2
<1> HIDE DEF at, p, known
<1>6. fine(job) /\ fine(seen) /\ fine(indeed) /\ fine(applied)
  <2>1. fine(job)
    BY <1>2, <1>3
  <2>2. GoodJob(world, seen) /\ seen.apply = job.apply /\ Sited(job, seen)
    BY <1>2, <1>4, ProfileGood
  <2>3. Mild(world, job, indeed)
    BY <1>2, <1>4, IndeedProfileMild
  <2>4. Onward(world, job, applied) /\ Sited(job, applied)
    BY <1>2, <1>5, AppliedOnward
  <2> HIDE DEF seen, indeed, applied, job
  <2> QED BY <2>1, <2>2, <2>3, <2>4 DEF Mild, Onward, Sited
<1>7. \A x : fine(x) => fine(FromModel(x, p, Answer(p)))
  <2> SUFFICES ASSUME NEW x, fine(x) PROVE fine(FromModel(x, p, Answer(p)))
    OBVIOUS
  <2>1. Mild(world, x, FromModel(x, p, Answer(p)))
    BY <1>2, <1>4, ModelMild DEF Answer
  <2> QED BY <2>1 DEF Mild, Onward, Sited
<1>8. fine(first) /\ fine(shown) /\ fine(later)
  <2> HIDE DEF fine, seen, indeed, applied
  <2> QED BY <1>6, <1>7
<1>9. \A x : fine(x) => fine(AndPage(x))
  <2> SUFFICES ASSUME NEW x, fine(x) PROVE fine(AndPage(x))
    OBVIOUS
  <2>1. Mild(world, x, AndPage(x))
    BY <1>2, <1>3, AndPageMild DEF ApplyPage
  <2> QED BY <2>1 DEF Mild, Onward, Sited
<1>10. PICK x \in {job, first, shown, later} : Work(j, AndPage(x), "home")
  BY <1>1
<1>11. fine(x)
  BY <1>6, <1>8
<1>12. fine(AndPage(x))
  <2> HIDE DEF fine
  <2> QED BY <1>9, <1>11
<1>13. Placed("home", AndPage(x), None)
  BY <1>12 DEF Placed, Early
<1>14. world' = world
  BY <1>10 DEF Work
<1>15. ProfilesInv'
  <2>1. \A y : fine(y) => GoodRecord(world, RecordOf(y)) /\ OkSite(RecordOf(y).website)
    BY RecordOfGood
  <2>2. GoodRecord(world, NoRecord) /\ OkSite(NoRecord.website)
    BY NoRecordPure DEF Pure, NoRecord, OkSite
  <2>3. GoodRecord(world, RecordOf(first)) /\ OkSite(RecordOf(first).website)
        /\ GoodRecord(world, RecordOf(later)) /\ OkSite(RecordOf(later).website)
    <3> HIDE DEF fine, first, later
    <3> QED BY <1>8, <2>1
  <2>4. /\ profiles = [u \in world.profiles |-> profiles[u]]
        /\ \A u \in world.profiles : profiles[u] # None =>
              /\ profiles[u] = [read |-> profiles[u].read, record |-> profiles[u].record]
              /\ GoodRecord(world, profiles[u].record) /\ OkSite(profiles[u].record.website)
    BY DEF EnrichInv, ProfilesInv
  <2> DEFINE good(e) == /\ e = [read |-> e.read, record |-> e.record]
                        /\ GoodRecord(world, e.record) /\ OkSite(e.record.website)
  <2>5. good(entry1)
    <3> DEFINE r == IF came THEN RecordOf(first) ELSE NoRecord
    <3>1. GoodRecord(world, r) /\ OkSite(r.website)
      BY <2>2, <2>3
    <3> HIDE DEF r
    <3> QED BY <3>1 DEF r
  <2> HIDE DEF first, later, applied
  <2>6. CASE profiles' = profiles
    BY <1>14, <2>4, <2>6 DEF ProfilesInv
  <2>7. CASE profiles' = [profiles EXCEPT ![at] = entry1]
    <3>1. profiles' = [u \in world.profiles |-> IF u = at THEN entry1 ELSE profiles[u]]
      BY <2>4, <2>7
    <3> HIDE DEF entry1
    <3> QED BY <1>14, <2>4, <2>5, <3>1 DEF ProfilesInv
  <2>8. CASE profiles[at] # None /\ profiles' = [profiles EXCEPT ![at].record = record2]
    <3> DEFINE e == [read |-> profiles[at].read, record |-> record2]
    <3>1. GoodRecord(world, record2) /\ OkSite(record2.website)
      BY <1>3, <2>3, <2>4, <2>8
    <3> HIDE DEF record2
    <3>2. [profiles[at] EXCEPT !.record = record2] = e
      <4>1. \A a, b, c : [[read |-> a, record |-> b] EXCEPT !.record = c] = [read |-> a, record |-> c]
        OBVIOUS
      <4>2. profiles[at] = [read |-> profiles[at].read, record |-> profiles[at].record]
        BY <1>3, <2>4, <2>8
      <4> QED BY <4>1, <4>2
    <3>3. profiles' = [u \in world.profiles |-> IF u = at THEN e ELSE profiles[u]]
      BY <2>4, <2>8, <3>2
    <3>4. good(e)
      BY <3>1
    <3> HIDE DEF e
    <3> QED BY <1>14, <2>4, <3>3, <3>4 DEF ProfilesInv
  <2> QED BY <1>1, <2>6, <2>7, <2>8
<1>16. /\ held' = [k \in Batch |-> held'[k]] /\ sent' = [k \in Batch |-> sent'[k]]
       /\ \A k \in Batch \ {j} : held'[k] = held[k] /\ sent'[k] = sent[k]
       /\ GoodStore(world, store')
  BY <1>1, JobFacts
<1>17. CacheInv'
  BY <1>1, <1>14, CacheStays
<1>18. Placed("home", AndPage(x), held'[j])
  BY <1>13 DEF Placed
<1> HIDE DEF Batch, fine
<1>19. GoodJob(world, AndPage(x))
  BY <1>12 DEF fine
<1> QED BY <1>2, <1>10, <1>15, <1>16, <1>17, <1>18, <1>19, WorkInv

\* It reads the home page of the company.
LEMMA VisitHomeStep ==
  ASSUME EnrichInv, NEW j \in Batch, NEW came \in BOOLEAN, VisitHome(j, came)
  PROVE  EnrichInv'
<1> DEFINE job == jobs[j]
           p == HomePage(job)
           told == FromCompanySite(job, p, "company_homepage")
           read == FromModel(told, p, Answer(p))
           next == IF NeedsSite(read) /\ p.about # None THEN "about" ELSE "keep"
<1>1. /\ pc[j] = "home" /\ (came => NeedsSite(job) /\ p # None)
      /\ IF came THEN Work(j, read, next) ELSE Work(j, job, "keep")
      /\ UNCHANGED <<held, cache, profiles, store, sent>>
  BY DEF VisitHome
<1>2. phase = "working" /\ world \in Worlds /\ GoodJob(world, job) /\ OkSite(job.website)
  BY <1>1, WorkIsWorking, JobFacts DEF Placed, Late
<1>3. CASE ~came
  <2>1. Placed("keep", job, None)
    BY <1>2 DEF Placed, Early
  <2> HIDE DEF Batch
  <2> QED BY <1>1, <1>2, <1>3, <2>1, JobStep
<1>4. CASE came
  <2>1. p \in PagesOf(world)
    BY <1>1, <1>2, <1>4, VisitedPages DEF HomePage
  <2>2. Mild(world, job, told)
    BY <1>2, <2>1, CompanySiteMild
  <2>3. GoodJob(world, told)
    BY <2>2 DEF Mild, Onward
  <2> HIDE DEF told
  <2>4. Mild(world, told, read)
    <3> HIDE DEF p
    <3> QED BY <1>2, <2>1, <2>3, ModelMild DEF Answer
  <2> HIDE DEF read
  <2>5. Mild(world, job, read)
    BY <2>2, <2>4, MildOn
  <2>6. GoodJob(world, read) /\ OkSite(read.website)
    BY <1>2, <2>5 DEF Mild, Onward, Sited
  <2>7. HomePage(read) = p
    BY <1>1, <1>4, <2>5 DEF Mild, Keeps, NeedsSite, HomePage
  <2>8. Placed(next, read, None) /\ next \in {"about", "keep"}
    BY <1>1, <1>4, <2>6, <2>7 DEF Placed, Early
  <2> HIDE DEF Batch, next
  <2> QED BY <1>1, <1>2, <1>4, <2>6, <2>8, JobStep
<1> QED BY <1>3, <1>4

\* And the page about the company.
LEMMA VisitAboutStep ==
  ASSUME EnrichInv, NEW j \in Batch, NEW came \in BOOLEAN, VisitAbout(j, came)
  PROVE  EnrichInv'
<1> DEFINE job == jobs[j]
           p == HomePage(job).about
           told == FromCompanySite(job, p, "company_about")
           read == FromModel(told, p, Answer(p))
           new == IF came THEN read ELSE job
<1>1. /\ pc[j] = "about" /\ Work(j, new, "keep") /\ UNCHANGED <<held, cache, profiles, store, sent>>
  BY DEF VisitAbout
<1>2. /\ phase = "working" /\ world \in Worlds /\ GoodJob(world, job) /\ OkSite(job.website)
      /\ HomePage(job) # None /\ HomePage(job).about # None
  BY <1>1, WorkIsWorking, JobFacts DEF Placed, Late
<1>3. p \in PagesOf(world)
  BY <1>2, VisitedPages DEF HomePage
<1>4. Mild(world, job, told)
  BY <1>2, <1>3, CompanySiteMild
<1>5. GoodJob(world, told)
  BY <1>4 DEF Mild, Onward
<1> HIDE DEF told
<1>6. Mild(world, told, read)
  <2> HIDE DEF p
  <2> QED BY <1>2, <1>3, <1>5, ModelMild DEF Answer
<1> HIDE DEF read
<1>7. GoodJob(world, new) /\ OkSite(new.website)
  BY <1>2, <1>4, <1>6 DEF Mild, Onward, Sited
<1> HIDE DEF new, Batch
<1>8. Placed("keep", new, None)
  BY <1>7 DEF Placed, Early
<1> QED BY <1>1, <1>2, <1>7, <1>8, JobStep

\* What is kept of a job in the store is good.
LEMMA PersistedGood ==
  ASSUME NEW job, GoodStore(world, store), GoodJob(world, job)
  PROVE  GoodStore(world, Persisted(job))
  BY TrustedRecordGood, SavedGood DEF Persisted

\* The end of a worker.
LEMMA KeepStep == ASSUME EnrichInv, NEW j \in Batch, Keep(j) PROVE EnrichInv'
<1>1. /\ pc[j] = "keep" /\ Work(j, jobs[j], "persist") /\ UNCHANGED <<held, profiles, store, sent>>
      /\ \/ cache' = cache
         \/ cache' = Remembered(jobs[j].company, RecordOf(jobs[j]))
  BY DEF Keep
<1>2. phase = "working" /\ GoodJob(world, jobs[j]) /\ OkSite(jobs[j].website)
  BY <1>1, WorkIsWorking, JobFacts DEF Placed, Late
<1>3. world' = world
  BY <1>1 DEF Work
<1>4. GoodRecord(world, RecordOf(jobs[j]))
  BY <1>2, RecordOfGood
<1>5. CacheInv' /\ ProfilesInv'
  BY <1>1, <1>3, <1>4, CacheGrows, CacheStays, ProfilesStay
<1>6. Placed("persist", jobs[j], held'[j])
  BY <1>2 DEF Placed, Early
<1>7. /\ held' = [k \in Batch |-> held'[k]] /\ sent' = [k \in Batch |-> sent'[k]]
      /\ \A k \in Batch \ {j} : held'[k] = held[k] /\ sent'[k] = sent[k]
      /\ GoodStore(world, store')
  BY <1>1, JobFacts
<1> HIDE DEF Batch
<1> QED BY <1>1, <1>2, <1>5, <1>6, <1>7, WorkInv

\* A worker writes to the store.
LEMMA PersistStep == ASSUME EnrichInv, NEW j \in Batch, Persist(j) PROVE EnrichInv'
<1>1. /\ pc[j] = "persist" /\ Work(j, jobs[j], "emit") /\ UNCHANGED <<held, cache, profiles, sent>>
      /\ store' = Persisted(jobs[j])
  BY DEF Persist
<1>2. phase = "working" /\ GoodJob(world, jobs[j]) /\ OkSite(jobs[j].website)
  BY <1>1, WorkIsWorking, JobFacts DEF Placed, Late
<1>3. world' = world
  BY <1>1 DEF Work
<1>4. CacheInv' /\ ProfilesInv'
  BY <1>1, <1>3, CacheStays, ProfilesStay
<1>5. Placed("emit", jobs[j], held'[j])
  BY <1>2 DEF Placed, Early
<1>6. GoodStore(world, store')
  BY <1>1, <1>2, JobFacts, PersistedGood
<1>7. /\ held' = [k \in Batch |-> held'[k]] /\ sent' = [k \in Batch |-> sent'[k]]
      /\ \A k \in Batch \ {j} : held'[k] = held[k] /\ sent'[k] = sent[k]
  BY <1>1, JobFacts
<1> HIDE DEF Batch
<1> QED BY <1>1, <1>2, <1>4, <1>5, <1>6, <1>7, WorkInv

\* A worker sends its job.
LEMMA EmitStep == ASSUME EnrichInv, NEW j \in Batch, Emit(j) PROVE EnrichInv'
<1>1. /\ pc[j] = "emit" /\ Work(j, jobs[j], "done") /\ UNCHANGED <<held, cache, profiles, store>>
      /\ sent' = [sent EXCEPT ![j] = jobs[j]]
  BY DEF Emit
<1>2. phase = "working" /\ GoodJob(world, jobs[j]) /\ OkSite(jobs[j].website)
  BY <1>1, WorkIsWorking, JobFacts DEF Placed, Late
<1>3. world' = world
  BY <1>1 DEF Work
<1>4. CacheInv' /\ ProfilesInv'
  BY <1>1, <1>3, CacheStays, ProfilesStay
<1>5. Placed("done", jobs[j], held'[j])
  BY DEF Placed, Early, Late
<1>6. sent' = [k \in Batch |-> sent'[k]] /\ sent'[j] = jobs[j] /\ \A k \in Batch \ {j} : sent'[k] = sent[k]
  <2> HIDE DEF Batch
  <2> QED BY <1>1, JobFacts
<1>7. /\ held' = [k \in Batch |-> held'[k]] /\ \A k \in Batch \ {j} : held'[k] = held[k]
      /\ GoodStore(world, store')
  BY <1>1, JobFacts
<1> HIDE DEF Batch
<1> QED BY <1>1, <1>2, <1>4, <1>5, <1>6, <1>7, WorkInv

-----------------------------------------------------------------------------
(* The batch.                                                              *)

\* Steps of requests leave the batch alone.
LEMMA SameBatch ==
  ASSUME EnrichInv, UNCHANGED <<world, phase, jobs, pc, held, cache, profiles, store, sent, due>>
  PROVE  EnrichInv'
<1>1. CacheInv' /\ ProfilesInv'
  BY CacheStays, ProfilesStay
<1>2. JobsInv'
  BY DEF EnrichInv, JobsInv, Batch, Placed, ProfileOf, ApplyPage, HomePage
<1>3. SentInv' /\ BatchIsShared' /\ GoodStore(world, store)'
  BY DEF EnrichInv, SentInv, BatchIsShared, Batch
<1> QED BY <1>1, <1>2, <1>3 DEF EnrichInv

\* What the invariant says of the batch as a whole.
LEMMA BatchGood ==
  ASSUME EnrichInv
  PROVE  /\ world \in Worlds /\ Batch \subseteq Nat \ {0}
         /\ \E n \in Nat : Batch = 1..n
         /\ GoodJobs(world, jobs)
<1>1. world \in Worlds /\ Batch = DOMAIN world.jobs
  BY DEF EnrichInv, JobsInv
<1>2. PICK n \in Nat : Batch = 1..n
  BY <1>1, BatchNumbers
<1>3. Batch \subseteq Nat \ {0}
  BY <1>2
<1> QED BY <1>1, <1>2, <1>3 DEF EnrichInv, JobsInv, GoodJobs, Batch

\* The batch begins with what its jobs know of each other.
LEMMA SeedStep == ASSUME EnrichInv, NEW b, Seed(b) PROVE EnrichInv'
<1>1. /\ phase = "idle" /\ phase' = "working" /\ jobs' = Propagated(jobs)
      /\ UNCHANGED <<world, pc, held, profiles, store, sent, due>>
  BY DEF Seed
<1>2. /\ GoodJobs(world, jobs') /\ DOMAIN jobs' = Batch
      /\ \A j \in Batch : Onward(world, jobs[j], jobs'[j])
  BY <1>1, BatchGood, PropagatedOnward DEF Batch
<1>3. Batch' = Batch
  BY <1>2 DEF Batch
<1>4. \A j \in Batch : pc[j] = "new"
  BY <1>1 DEF EnrichInv, SentInv
<1>5. ASSUME NEW j \in Batch PROVE Placed(pc[j], jobs'[j], held[j])
  <2>1. jobs[j].profile \in world.profiles \cup {None}
    BY <1>4, JobFacts DEF Placed, Early
  <2>2. jobs'[j].profile = jobs[j].profile
    BY <1>2 DEF Onward
  <2> QED BY <1>4, <2>1, <2>2 DEF Placed, Late
<1>6. JobsInv'
  <2>1. \A j \in Batch : Placed(pc[j], jobs[j], held[j])'
    BY <1>1, <1>5 DEF Placed, ProfileOf, ApplyPage, HomePage
  <2>2. jobs' = [j \in Batch |-> jobs'[j]]
    BY <1>1 DEF Propagated, Batch
  <2>3. /\ world \in Worlds /\ Batch = DOMAIN world.jobs /\ pc = [j \in Batch |-> pc[j]]
        /\ held = [j \in Batch |-> held[j]] /\ sent = [j \in Batch |-> sent[j]]
    BY DEF EnrichInv, JobsInv
  <2>4. \A j \in Batch : GoodJob(world, jobs'[j])
    BY <1>2 DEF GoodJobs
  <2> HIDE DEF Batch
  <2> QED BY <1>1, <1>3, <2>1, <2>2, <2>3, <2>4 DEF JobsInv
<1>7. CacheInv'
  <2> DEFINE complete(c) == {j \in Batch : jobs'[j].company = c /\ IdentityComplete(jobs'[j])}
             next(c) == IF c = None \/ complete(c) = {} THEN cache[c] ELSE RecordOf(jobs'[Max(complete(c))])
  <2>1. cache' = [c \in Companies |-> next(c)]
    BY DEF Seed
  <2>2. Companies' = Companies
    BY <1>1 DEF Companies
  <2>3. ASSUME NEW c \in Companies, next(c) # None PROVE GoodRecord(world, next(c))
    <3>1. CASE c = None \/ complete(c) = {}
      BY <2>3, <3>1 DEF EnrichInv, CacheInv
    <3>2. CASE ~(c = None \/ complete(c) = {})
      <4>1. PICK n \in Nat : Batch = 1..n
        BY BatchGood
      <4>2. complete(c) \in SUBSET (1..n)
        BY <4>1
      <4>3. Max(complete(c)) \in complete(c)
        <5> HIDE DEF complete
        <5> QED BY <3>2, <4>2, GreatestNumber
      <4>4. GoodJob(world, jobs'[Max(complete(c))])
        <5>1. Max(complete(c)) \in Batch
          BY <4>3
        <5> HIDE DEF complete, Batch
        <5> QED BY <1>2, <5>1 DEF GoodJobs
      <4> HIDE DEF complete
      <4> QED BY <3>2, <4>4, RecordOfGood
    <3> QED BY <3>1, <3>2
  <2> HIDE DEF next, Companies
  <2> QED BY <1>1, <2>1, <2>2, <2>3 DEF CacheInv
<1>8. ProfilesInv'
  BY <1>1, ProfilesStay
<1>9. SentInv' /\ BatchIsShared'
  BY <1>1, <1>3, <1>4 DEF SentInv, BatchIsShared
<1>10. GoodStore(world, store)'
  BY <1>1 DEF EnrichInv
<1> QED BY <1>6, <1>7, <1>8, <1>9, <1>10 DEF EnrichInv

\* A job that changed after it was sent is sent again.
LEMMA RepublishStep == ASSUME EnrichInv, NEW j \in Batch, Republish(j) PROVE EnrichInv'
<1>1. /\ phase = "publishing" /\ store' = Persisted(jobs[j]) /\ sent' = [sent EXCEPT ![j] = jobs[j]]
      /\ due' = due \ {j} /\ UNCHANGED <<world, phase, jobs, pc, held, profiles, cache>>
  BY DEF Republish
<1>2. Batch' = Batch
  BY <1>1 DEF Batch
<1>3. sent' = [k \in Batch |-> IF k = j THEN jobs[j] ELSE sent[k]]
  <2> HIDE DEF Batch
  <2> QED BY <1>1, JobFacts
<1> HIDE DEF Batch
<1>4. JobsInv'
  BY <1>1, <1>2, <1>3 DEF EnrichInv, JobsInv, Placed, ProfileOf, ApplyPage, HomePage
<1>5. CacheInv' /\ ProfilesInv'
  BY <1>1, CacheStays, ProfilesStay
<1>6. GoodStore(world, store)'
  BY <1>1, JobFacts, PersistedGood
<1>7. SentInv'
  <2>1. ASSUME NEW k \in Batch, pc[k] = "done", k \notin due \ {j} PROVE Backfilled(sent'[k]) = jobs[k]
    <3>1. CASE k = j
      BY <1>1, <1>3, <3>1 DEF EnrichInv, SentInv
    <3>2. CASE k # j
      BY <1>1, <1>3, <2>1, <3>2 DEF EnrichInv, SentInv
    <3> QED BY <3>1, <3>2
  <2> QED BY <1>1, <1>2, <2>1 DEF EnrichInv, SentInv
<1>8. BatchIsShared'
  BY <1>1, <1>2 DEF EnrichInv, BatchIsShared
<1> QED BY <1>4, <1>5, <1>6, <1>7, <1>8 DEF EnrichInv

\* The batch ends.
LEMMA FinishStep == ASSUME EnrichInv, NEW b, Finish(b) PROVE EnrichInv'
<1>1. /\ phase = "publishing" /\ due = {} /\ phase' = "ended"
      /\ UNCHANGED <<world, jobs, pc, held, cache, profiles, store, sent, due>>
  BY DEF Finish
<1>2. CacheInv' /\ ProfilesInv'
  BY <1>1, CacheStays, ProfilesStay
<1>3. JobsInv' /\ GoodStore(world, store)'
  BY <1>1 DEF EnrichInv, JobsInv, Batch, Placed, ProfileOf, ApplyPage, HomePage
<1>4. SentInv' /\ BatchIsShared'
  BY <1>1 DEF EnrichInv, SentInv, BatchIsShared, Batch
<1> QED BY <1>2, <1>3, <1>4 DEF EnrichInv

\* A search changes a job for which it finds a site, and no other.
LEMMA SearchedOnward ==
  ASSUME EnrichInv, NEW hits \in SUBSET DOMAIN world.searches
  PROVE  /\ Searched(hits) = [j \in Batch |-> Searched(hits)[j]]
         /\ \A j \in Batch : LET new == Searched(hits)[j]
                             IN  /\ Onward(world, jobs[j], new) /\ Keeps(jobs[j], new)
                                 /\ \/ new = jobs[j]
                                    \/ Lacks(jobs[j], "website") /\ new.website # None
<1> DEFINE hit(j) == NeedsSearch(jobs[j]) /\ jobs[j].company \in hits
           page2(j) == world.searches[jobs[j].company]
           new(j) == IF hit(j) THEN FromSearch(jobs[j], page2(j), Answer(page2(j))) ELSE jobs[j]
<1>1. Searched(hits) = [j \in Batch |-> new(j)]
  BY DEF Searched
<1>2. ASSUME NEW j \in Batch
      PROVE  /\ Onward(world, jobs[j], new(j)) /\ Keeps(jobs[j], new(j))
             /\ new(j) = jobs[j] \/ (Lacks(jobs[j], "website") /\ new(j).website # None)
  <2>1. CASE ~hit(j)
    BY <2>1, JobFacts, GoodIsMild DEF Mild
  <2>2. CASE hit(j)
    <3>1. page2(j) \in Range(world.searches)
      BY <2>2 DEF Range
    <3>2. Lacks(jobs[j], "website")
      BY <2>2 DEF NeedsSearch
    <3>3. world \in Worlds /\ GoodJob(world, jobs[j])
      BY JobFacts
    <3>4. new(j) = FromSearch(jobs[j], page2(j), AnswerIn(world, page2(j)))
      BY <2>2 DEF Answer
    <3> HIDE DEF page2, new
    <3> QED BY <3>1, <3>2, <3>3, <3>4, SearchOnward
  <2> QED BY <2>1, <2>2
<1> HIDE DEF new, Batch
<1> QED BY <1>1, <1>2

\* What happens after all workers: searches, copies between jobs, the note of
\* origins, and which jobs are due again.
LEMMA PostProcessStep ==
  ASSUME EnrichInv, NEW hits \in SUBSET DOMAIN world.searches, PostProcess(hits)
  PROVE  EnrichInv'
<1> DEFINE searched == Searched(hits)
           copied == Propagated(searched)
           final == [j \in Batch |-> Backfilled(copied[j])]
           changed == \E j \in Batch : Told(searched[j]) # Told(jobs[j]) \/ copied[j] # searched[j]
<1>1. /\ phase = "working" /\ \A j \in Batch : pc[j] \in Through
      /\ jobs' = final /\ phase' = "publishing"
      /\ due' = IF changed THEN {j \in Batch : final[j] # jobs[j]} ELSE {}
      /\ UNCHANGED <<world, pc, held, cache, profiles, store, sent>>
  BY DEF PostProcess, SnapshotsOf, Through
<1>2. /\ searched = [j \in Batch |-> searched[j]]
      /\ \A j \in Batch : /\ Onward(world, jobs[j], searched[j]) /\ Keeps(jobs[j], searched[j])
                          /\ \/ searched[j] = jobs[j]
                             \/ Lacks(jobs[j], "website") /\ searched[j].website # None
  BY SearchedOnward
<1>3. Batch \subseteq Nat \ {0} /\ world \in Worlds
  BY BatchGood
<1> HIDE DEF searched
<1>4. GoodJobs(world, searched) /\ DOMAIN searched = Batch
  <2>1. DOMAIN searched = Batch
    BY <1>2
  <2> HIDE DEF Batch
  <2> QED BY <1>2, <1>3, <2>1 DEF GoodJobs, Onward
<1>5. GoodJobs(world, copied) /\ DOMAIN copied = Batch
      /\ \A j \in Batch : copied[j].company = searched[j].company
  BY <1>4, PropagatedOnward
<1>6. \A i, k \in Batch, f \in Fields :
         searched[i].company # None /\ searched[k].company = searched[i].company /\ TrustedField(copied[i], f)
         => ~Lacks(copied[k], f)
  BY <1>4, PropagatedShares
<1> HIDE DEF copied
<1>7. /\ final = [j \in Batch |-> final[j]] /\ \A j \in Batch : final[j] = Backfilled(copied[j])
      /\ DOMAIN final = Batch
  OBVIOUS
<1>8. \A j \in Batch :
        /\ GoodJob(world, final[j]) /\ Backfilled(final[j]) = final[j]
        /\ final[j].company = copied[j].company
        /\ \A f \in Fields : TrustedField(final[j], f) => TrustedField(copied[j], f)
        /\ \A f \in Fields : ~Lacks(copied[j], f) =>
              \/ ~Lacks(final[j], f)
              \/ f = "industry" /\ final[j].identity[f] # None
                 /\ final[j].identity[f].source = "source_payload"
  <2> TAKE j \in Batch
  <2>1. GoodJob(world, copied[j])
    BY <1>5 DEF GoodJobs
  <2> QED BY <1>7, <2>1, BackfilledGood
<1> HIDE DEF final
<1>9. Batch' = Batch
  BY <1>1, <1>7 DEF Batch
<1>10. \A j \in Batch : pc[j] = "done" => sent[j] = jobs[j] /\ OkSite(jobs[j].website)
  BY <1>1 DEF EnrichInv, SentInv
<1> HIDE DEF Batch, changed
<1>11. JobsInv'
  <2>1. ASSUME NEW j \in Batch PROVE Placed(pc[j], jobs[j], held[j])'
    <3>1. pc'[j] \in Through
      BY <1>1
    <3> QED BY <3>1 DEF Placed, Through, Early, Late
  <2> QED BY <1>1, <1>7, <1>8, <1>9, <2>1 DEF EnrichInv, JobsInv
<1>12. CacheInv' /\ ProfilesInv' /\ GoodStore(world, store)'
  BY <1>1, CacheStays, ProfilesStay DEF EnrichInv
<1>13. \A j \in Batch : pc[j] = "done" /\ j \notin due' => Backfilled(sent[j]) = final[j]
  <2> SUFFICES ASSUME NEW j \in Batch, pc[j] = "done", j \notin due' PROVE Backfilled(sent[j]) = final[j]
    OBVIOUS
  <2>1. CASE changed
    BY <1>1, <1>8, <1>10, <2>1
  <2>2. CASE ~changed
    <3>1. Told(searched[j]) = Told(jobs[j]) /\ copied[j] = searched[j]
      BY <2>2 DEF changed
    <3>2. searched[j].website = jobs[j].website
      <4>1. Told(searched[j])["website"] = Told(jobs[j])["website"]
        BY <3>1
      <4> QED BY <4>1 DEF Told, Fields
    <3>3. searched[j] = jobs[j]
      BY <1>2, <1>10, <3>2 DEF OkSite, Lacks
    <3> QED BY <1>7, <1>10, <3>1, <3>3
  <2> QED BY <2>1, <2>2
<1>14. SentInv'
  BY <1>1, <1>8, <1>9, <1>13 DEF SentInv
<1>15. BatchIsShared'
  <2>1. ASSUME NEW i \in Batch, NEW k \in Batch, NEW f \in Fields,
               final[i].company # None, final[i].company = final[k].company, TrustedField(final[i], f)
        PROVE  \/ ~Lacks(final[k], f)
               \/ f = "industry" /\ final[k].identity[f] # None
                  /\ final[k].identity[f].source = "source_payload"
    <3>1. TrustedField(copied[i], f)
      BY <1>8, <2>1
    <3>2. searched[i].company # None /\ searched[k].company = searched[i].company
      BY <1>5, <1>8, <2>1
    <3>3. ~Lacks(copied[k], f)
      BY <1>6, <3>1, <3>2
    <3> QED BY <1>8, <3>3
  <2> QED BY <1>1, <1>9, <2>1 DEF BatchIsShared
<1> QED BY <1>11, <1>12, <1>14, <1>15 DEF EnrichInv

\* Every step keeps the invariant.
LEMMA EnrichNextInv == EnrichInv /\ [EnrichNext]_vars => EnrichInv'
<1> SUFFICES ASSUME EnrichInv, [EnrichNext]_vars PROVE EnrichInv'
  OBVIOUS
<1>1. CASE UNCHANGED enrichVars
  BY <1>1, SameBatch DEF enrichVars
<1>2. ASSUME NEW b \in Batches, Seed(b) \/ Finish(b) PROVE EnrichInv'
  BY <1>2, SeedStep, FinishStep
<1>3. CASE Cancel
  BY <1>3, SameBatch DEF Cancel
<1>4. ASSUME NEW j \in Batch,
             Start(j) \/ Skip(j) \/ Hydrate(j) \/ Remember(j) \/ Recall(j)
             \/ Keep(j) \/ Persist(j) \/ Emit(j) \/ Republish(j)
      PROVE  EnrichInv'
  BY <1>4, StartStep, SkipStep, HydrateStep, RememberStep, RecallStep, KeepStep, PersistStep, EmitStep,
     RepublishStep
<1>5. ASSUME NEW j \in Batch, NEW came \in BOOLEAN,
             VisitPage(j, came) \/ VisitProfile(j, came) \/ VisitHome(j, came) \/ VisitAbout(j, came)
      PROVE  EnrichInv'
  BY <1>5, VisitPageStep, VisitProfileStep, VisitHomeStep, VisitAboutStep
<1>6. ASSUME NEW hits \in SUBSET DOMAIN world.searches, PostProcess(hits) PROVE EnrichInv'
  BY <1>6, PostProcessStep
<1>7. UNCHANGED vars => UNCHANGED enrichVars
  BY DEF vars
<1> QED BY <1>1, <1>2, <1>3, <1>4, <1>5, <1>6, <1>7 DEF EnrichNext, BatchStep

\* Jobs, caches, profiles and the store of a batch hold, in every state, trusted
\* values only that somebody claimed, however workers, failures and requests
\* interleave.
THEOREM EnrichInvariance == EnrichSpec => []EnrichInv
<1>1. EnrichInit => EnrichInv
  BY EnrichInitInv
<1>2. EnrichInv /\ [EnrichNext]_vars => EnrichInv'
  BY EnrichNextInv
<1> QED BY <1>1, <1>2, PTL DEF EnrichSpec

\* Nothing is called confirmed, in a job or in the store, that no page, profile,
\* model or stored record said: the ways by which company_identity_cache.go and
\* apply_page_enrichment.go pass values on lose no mark.
THEOREM TrustIsEarnedTheorem == EnrichSpec => []TrustIsEarned
<1>1. EnrichInv => TrustIsEarned
  <2> SUFFICES ASSUME EnrichInv, NEW f \in Fields
               PROVE  /\ \A j \in Batch : Trusted(jobs[j], f) => jobs[j][f] \in Claims(f)
                      /\ \A r \in Range(store.rows) : Trusted(r, f) => r[f] \in Claims(f)
    BY DEF TrustIsEarned
  <2>1. \A r : Trusted(r, f) => Backed(r, f)
    BY DEF Trusted, Backed
  <2> QED BY <2>1 DEF EnrichInv, JobsInv, GoodJob, GoodStore, GoodRecord, Earned, Claims
<1> QED BY <1>1, EnrichInvariance, PTL

\* When the workers are through, what one job of a company has on good evidence no
\* other one misses, whichever worker looked first.
THEOREM BatchIsSharedTheorem == EnrichSpec => []BatchIsShared
<1>1. EnrichInv => BatchIsShared
  BY DEF EnrichInv
<1> QED BY <1>1, EnrichInvariance, PTL

\* What the list holds of a finished job is what the batch left of it: what changes
\* after it was sent (apply_page_enrichment.go:332) is sent again.
THEOREM SentIsFinalTheorem == EnrichSpec => []SentIsFinal
<1>1. EnrichInv => SentIsFinal
  BY DEF EnrichInv, SentInv, SentIsFinal
<1> QED BY <1>1, EnrichInvariance, PTL

-----------------------------------------------------------------------------
(* The batch and the registry.                                             *)

\* A batch uses the registry of visits by its own operations only (startURLVisitRun
\* and what it returns), whatever its workers do: every behaviour of the two is one
\* of the registry, fairness of its requests included.
THEOREM EnrichmentImplementsVisits == EnrichSpec => FairSpec
<1>1. EnrichInit => Init
  BY DEF EnrichInit
<1>2. [EnrichNext]_vars => [Next]_registryVars
  <2> SUFFICES ASSUME [EnrichNext]_vars PROVE Next \/ UNCHANGED registryVars
    OBVIOUS
  <2>1. CASE UNCHANGED vars
    BY <2>1 DEF vars
  <2>2. CASE Next
    BY <2>2
  <2>3. ASSUME NEW b \in Batches, LookForRegistry(b) \/ BeginBatch(b) \/ Seed(b) \/ Finish(b) \/ BeginFetch
        PROVE  Next \/ UNCHANGED registryVars
    BY <2>3 DEF Next, Seed, Finish
  <2>4. CASE Cancel
    BY <2>4 DEF Cancel
  <2>5. ASSUME NEW j \in Batch,
               \/ Start(j) \/ Skip(j) \/ Hydrate(j) \/ Remember(j) \/ Recall(j) \/ Keep(j) \/ Persist(j)
               \/ Emit(j) \/ Republish(j)
        PROVE  UNCHANGED registryVars
    BY <2>5 DEF Start, Skip, Hydrate, Remember, Recall, Keep, Persist, Emit, Republish, Work
  <2>6. ASSUME NEW j \in Batch, NEW came \in BOOLEAN,
               VisitPage(j, came) \/ VisitProfile(j, came) \/ VisitHome(j, came) \/ VisitAbout(j, came)
        PROVE  UNCHANGED registryVars
    BY <2>6 DEF VisitPage, VisitProfile, VisitHome, VisitAbout, Work
  <2>7. ASSUME NEW hits, PostProcess(hits)
        PROVE  UNCHANGED registryVars
    BY <2>7 DEF PostProcess
  <2> QED
    BY <2>1, <2>2, <2>3, <2>4, <2>5, <2>6, <2>7 DEF EnrichNext, BatchStep
<1> QED
  BY <1>1, <1>2, PTL DEF EnrichSpec, FairSpec, Spec

=============================================================================
