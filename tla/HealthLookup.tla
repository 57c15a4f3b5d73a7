---------------------------- MODULE HealthLookup ----------------------------
(***************************************************************************)
(* A lookup of a company's health (internal/health): LoadCompanyHealth     *)
(* behind "h", which answers from the stored reports when it can, and      *)
(* RefreshCompanyHealth behind "H", whose answer the handler stores.       *)
(* Lookups run beside each other; they share the stored reports and the    *)
(* slots for the browser and the language model.                           *)
(*                                                                         *)
(* The steps between two uses of what is shared are actions of their own   *)
(* all the same, one per source, so that the sources may answer in every   *)
(* combination.  What a report is made of is in module HealthEvidence.     *)
(***************************************************************************)
EXTENDS HealthEvidence

CONSTANTS
    Worlds,       \* who looks up and what the sources may answer, see world
    BrowserSlots, \* companyHealthBrowserConcurrency (3 in the code)
    LLMSlots,     \* companyHealthLLMConcurrency (2 in the code)
    StoryLimit,   \* maxCompanyHealthLLMConcernStories (3 in the code)
    MaxAge        \* bound: the days a stored report is counted

ASSUME HealthLookupAssumption ==
    /\ BrowserSlots \in Nat \ {0} /\ LLMSlots \in Nat \ {0}
    /\ StoryLimit \in Nat /\ MaxAge \in Nat

\* What the sources answer has the types of the code: lists, numbers, and the
\* outcomes of a lookup at the SEC.
ASSUME HealthWorldAssumption ==
    \A w \in Worlds :
        /\ \A site \in w.sites : site.profiles \in Seq(ToSet(site.profiles))
        /\ \A reviews \in w.reviews : reviews \in Seq(ToSet(reviews))
        /\ \A sec \in w.filings :
               \/ sec.answer \in {"unavailable", "unknown", "listed"}
               \/ /\ sec.answer = "filed"
                  /\ sec.terms \in Nat /\ sec.filings \in DOMAIN FilingPoints
        /\ \A stock \in w.stocks \ {None} : stock.drop \in Int /\ stock.change \in Int
        /\ \A answer \in w.models : answer.modifier \in Int

VARIABLES
    world,  \* one of Worlds, fixed: [who, starts (bound: lookups started), ways, ids, sites,
            \* pages, registrations, filings, talks, news, headlines, listed, stocks, reviews,
            \* models]
    lookup, \* per lookup: its state, see NoLookup
    stored, \* the health_cache table: per key an entry [report, age in days] or None
    starts  \* lookups started

lookupVars == <<world, lookup, stored, starts>>

Everyone == UNION {w.who : w \in Worlds}
Keys == {"name", "domain"}

\* The lookups of one company: its key is its name until a website is known
\* (CacheKeyForIdentity).
KeyOf(id) == IF id.website THEN "domain" ELSE "name"

NoLookup == [stage |-> "off", single |-> FALSE, force |-> FALSE, llm |-> FALSE, id |-> None,
             key |-> "name", site |-> None, report |-> None, slot |-> None,
             cached |-> FALSE, articles |-> {}]

LookupInit ==
    /\ world \in Worlds
    /\ lookup = [l \in Everyone |-> NoLookup]
    /\ stored = [k \in Keys |-> None]
    /\ starts = 0

Becomes(l, new) == /\ lookup' = [lookup EXCEPT ![l] = new]
                   /\ UNCHANGED <<world, starts>>
At(l, stage) == lookup[l].stage = stage
Steps(l, new) == Becomes(l, new) /\ UNCHANGED stored

-----------------------------------------------------------------------------
(* Slots and time.                                                         *)

InUse(slot) == Cardinality({l \in Everyone : lookup[l].slot = slot})

\* shouldSkipEmployerReviewLookup: a report that is good without reviews, from
\* several sources, one of them authoritative.
ReviewsSkipped(r) ==
    /\ r.confidence = "high" /\ r.score >= 70 /\ r.risk < 25
    /\ r.layoffs = {} /\ r.flags = {}
    /\ Cardinality(r.sources \ {"employer_reviews", "company_site"}) >= 4
    /\ r.sources \cap {"sec", "stock", "wikidata"} # {}

\* The stories whose articles are read (selectConcernStoriesForLLM).
Selected(r) == ToSet(SubSeq(r.stories, 1, LeastOf(StoryLimit, Len(r.stories))))

\* companyHealthIdentityNeedsLLM
IdentityIncomplete(id) == ~id.website \/ ~id.industry

\* The slot a step waits for (runThrottledHealthStep), if it waits for one.
Wanted(p) ==
    CASE p.stage = "identity" /\ p.llm /\ IdentityIncomplete(p.id) -> "llm"
      [] p.stage = "profile" /\ p.id.website -> "browser"
      [] p.stage = "site" /\ ProfileWanted(p.report) /\ p.site = None -> "browser"
      [] p.stage = "reviews" /\ p.report.reviews = <<>> /\ ~ReviewsSkipped(p.report) -> "browser"
      [] p.stage = "articles" /\ Selected(p.report) # {} -> "browser"
      [] p.stage = "assess" -> "llm"
      [] OTHER -> None

\* A slot is taken; it is given back with the step.
TakeSlot(l) ==
    LET slot == Wanted(lookup[l])
    IN  /\ slot # None /\ lookup[l].slot = None
        /\ InUse(slot) < (IF slot = "llm" THEN LLMSlots ELSE BrowserSlots)
        /\ Steps(l, [lookup[l] EXCEPT !.slot = slot])

\* A step that waits for no slot or holds it can be made; one that waits fails
\* when the 120 seconds of the lookup are over, and one that works may fail.
Ready(l) == Wanted(lookup[l]) = None \/ lookup[l].slot # None
Fails(l) == Wanted(lookup[l]) # None

\* The days after which a report is looked up again (healthCacheTTL): 1 or 7 in
\* the code, 1 or 2 here.
TTL(r) == IF Volatile(r) THEN 1 ELSE 2
Fresh(entry) == entry # None /\ entry.age <= TTL(entry.report)

\* A day goes by while nobody looks anything up.
Day ==
    /\ \A l \in Everyone : At(l, "off")
    /\ \E k \in Keys : stored[k] # None /\ stored[k].age < MaxAge
    /\ stored' = [k \in Keys |->
                    IF stored[k] = None \/ stored[k].report.age >= MaxAge THEN stored[k]
                    ELSE [stored[k] EXCEPT !.age = @ + 1, !.report.age = @ + 1]]
    /\ UNCHANGED <<world, lookup, starts>>

-----------------------------------------------------------------------------
(* The stored reports and the identity.                                    *)

\* "h" or a step of "H".  A company without a website is not looked up unless the
\* language model may find it, and never by "H".
Start(l, single, force, llm, id) ==
    /\ At(l, "off") /\ l \in world.who /\ starts < world.starts
    /\ [single |-> single, force |-> force, llm |-> llm] \in world.ways
    /\ id.website \/ (single /\ llm)
    /\ starts' = starts + 1
    /\ lookup' = [lookup EXCEPT ![l] =
            [NoLookup EXCEPT !.stage = IF single /\ ~force THEN "cache" ELSE "identity",
                             !.single = single, !.force = force, !.llm = llm, !.id = id,
                             !.key = KeyOf(id)]]
    /\ UNCHANGED <<world, stored>>

\* Whether the model is asked for an assessment: once per report (mutant: again
\* and again).
AlwaysAsked(p) == p.llm
NeedsAssessment(p) == p.llm /\ ~p.report.assessed

\* loadCachedCompanyHealth, under the first key and once more if the identity led
\* to another one.
ReadStored(l) ==
    LET p == lookup[l]
        hit == [p EXCEPT !.report = stored[p.key].report, !.cached = TRUE]
    IN  /\ p.stage \in {"cache", "recheck"}
        /\ IF Fresh(stored[p.key])
           THEN Steps(l, [hit EXCEPT !.stage = IF NeedsAssessment(hit) THEN "reviews" ELSE "answer"])
           ELSE Steps(l, [p EXCEPT !.stage = IF p.stage = "cache" THEN "identity" ELSE "profile"])

\* ApplyOptionalLLMCompanyIdentity: what the model finds fills what is missing, if
\* it is a website at all (validatedCompanyIdentityWebsite).  A company that has
\* none now is not looked up.
Identify(l) ==
    LET p == lookup[l]
        next(id) ==
            [p EXCEPT !.id = id, !.key = KeyOf(id), !.slot = None,
                      !.stage = IF ~id.website THEN "answer"
                                ELSE IF p.single /\ ~p.force /\ KeyOf(id) # p.key THEN "recheck"
                                ELSE "profile"]
    IN  /\ p.stage = "identity"
        /\ \/ (Wanted(p) = None \/ Fails(l)) /\ Steps(l, next(p.id))
           \/ /\ Wanted(p) # None /\ Ready(l)
              /\ \E website \in BOOLEAN :
                    Steps(l, next([p.id EXCEPT !.website = @ \/ website, !.industry = TRUE]))

-----------------------------------------------------------------------------
(* The sources (CompanyHealthWithDataSources).                             *)

To(p, stage, report) == [p EXCEPT !.stage = stage, !.report = report, !.slot = None]

\* The company's site first, when it is known: it may complete the identity.
ReadProfile(l) ==
    LET p == lookup[l]
        begin(q) == Steps(l, To(q, "wikipedia", NewReport(q.id)))
    IN  /\ p.stage = "profile"
        /\ \/ Wanted(p) = None /\ begin(p)
           \/ /\ Wanted(p) # None /\ Ready(l)
              /\ \E site \in world.sites :
                    begin([p EXCEPT !.site = site, !.id = WithSiteIdentity(@, site)])
           \/ Fails(l) /\ begin([p EXCEPT !.site = NoSite])

ReadWikipedia(l) ==
    LET p == lookup[l]
    IN  /\ p.stage = "wikipedia"
        /\ \/ \E page \in world.pages :
                 WikiRelevant(p.id, page) /\ Steps(l, To(p, "sec", WithWikipedia(p.report, page)))
           \/ /\ \E page \in world.pages : ~WikiRelevant(p.id, page)
              /\ \E year \in world.registrations :
                    Steps(l, To(p, "sec", WithDomainAge(p.report, year)))

ReadSEC(l) ==
    /\ At(l, "sec")
    /\ \E sec \in world.filings :
          Steps(l, To(lookup[l], "site", WithSEC(lookup[l].report, sec)))

\* The site now, if something is missing and it has not been tried.
FetchSite(l) ==
    LET p == lookup[l]
        got(site) == Steps(l, [p EXCEPT !.site = site, !.slot = None])
    IN  /\ p.stage = "site" /\ Wanted(p) # None
        /\ \/ Ready(l) /\ \E site \in world.sites : got(site)
           \/ Fails(l) /\ got(NoSite)

\* What the site says fills what is missing.
ReadSite(l) ==
    LET p == lookup[l]
        site == p.site
        report == IF ProfileWanted(p.report) /\ site # None
                  THEN [WithSite(p.report, site) EXCEPT !.website = @ \/ site.website]
                  ELSE p.report
        id == IF ProfileWanted(p.report) /\ site # None
              THEN WithSiteIdentity(p.id, site) ELSE p.id
    IN  /\ p.stage = "site" /\ Wanted(p) = None
        /\ Steps(l, To([p EXCEPT !.id = id, !.site = None], "talk", WithPrivateBonus(report)))

ReadHackerNews(l) ==
    /\ At(l, "talk")
    /\ \E items \in world.talks :
          Steps(l, To(lookup[l], "news", WithHackerNews(lookup[l].report, lookup[l].id, items)))

ReadNews(l) ==
    LET p == lookup[l]
    IN  /\ p.stage = "news"
        /\ \E news \in world.news :
              Steps(l, To(p, "layoffs", IF news = None THEN p.report
                                        ELSE WithNews(p.report, p.id, news)))

ReadLayoffs(l) ==
    LET p == lookup[l]
    IN  /\ p.stage = "layoffs"
        /\ \E headlines \in world.headlines, listed \in world.listed :
              Steps(l, To(p, "risk", WithLayoffs(p.report, p.id, headlines, listed)))

\* The prices, if a ticker is known; the risk, the reviews and the cap.
Weigh(l) ==
    LET p == lookup[l]
        known(stock) == IF p.report.ticker /\ stock # None
                        THEN [p.report EXCEPT !.sources = @ \cup {"stock"}] ELSE p.report
        done(stock) == Capped(WithReviews([known(stock) EXCEPT
                          !.risk = EmploymentRisk(p.report, stock), !.terms = 0, !.news = 0]))
    IN  /\ p.stage = "risk"
        /\ \E stock \in IF p.report.ticker THEN world.stocks ELSE {None} :
              LET q == To(p, "reviews", done(stock))
              IN  Steps(l, [q EXCEPT !.stage = IF NeedsAssessment(q) THEN "reviews" ELSE "save"])

-----------------------------------------------------------------------------
(* The assessment by the language model (ApplyOptionalLLMCompanyHealth).   *)

\* A stored report that stays without an assessment is not stored again.
Unassessed(p) == IF p.cached THEN "answer" ELSE "save"

\* Employer reviews, if the report has none and needs them; they are shown and
\* given to the model, the score is made already.
ReadReviews(l) ==
    LET p == lookup[l]
    IN  /\ p.stage = "reviews"
        /\ \/ Steps(l, To(p, Unassessed(p), p.report))  \* no model can be had
           \/ Wanted(p) = None /\ Steps(l, To(p, "articles", p.report))
           \/ /\ Wanted(p) # None /\ Ready(l)
              /\ \E reviews \in world.reviews :
                    Steps(l, To(p, "articles",
                        [p.report EXCEPT !.reviews = reviews,
                                         !.sources = @ \cup (IF reviews = <<>> THEN {}
                                                             ELSE {"employer_reviews"})]))
           \/ Fails(l) /\ Steps(l, To(p, "articles", p.report))

\* attachConcernStoryArticles: some of the articles have a useful text.
ReadArticles(l) ==
    LET p == lookup[l]
        next(articles) == [To(p, "assess", p.report) EXCEPT !.articles = articles]
    IN  /\ p.stage = "articles"
        /\ \/ Ready(l) /\ \E articles \in SUBSET Selected(p.report) : Steps(l, next(articles))
           \/ Fails(l) /\ Steps(l, next({}))

\* applyLLMCompanyHealthScoreModifier: the model may move the score by ten at
\* most, for a new fact in an article that is about the company.
Modified(r, articles, answer) ==
    LET related == articles \cap answer.related
        delta == LargestOf(-10, LeastOf(10, answer.modifier))
        new == Clamp(r.score + delta, r.risk)
    IN  IF related # {} /\ answer.sources # {} /\ answer.sources \subseteq related /\ answer.novel
        THEN [r EXCEPT !.score = new, !.moved = @ + new - r.score]
        ELSE r

\* The model answers, or the report stays without an assessment.
Assess(l) ==
    LET p == lookup[l]
    IN  /\ p.stage = "assess"
        /\ \/ /\ Ready(l)
              /\ \E answer \in world.models :
                    Steps(l, To(p, "save",
                        [Modified(p.report, p.articles, answer) EXCEPT !.assessed = TRUE]))
           \/ Fails(l) /\ Steps(l, To(p, Unassessed(p), p.report))

-----------------------------------------------------------------------------
(* The end of a lookup.                                                    *)

\* The age under which a report is stored: its own.
StoredAge(p) == p.report.age

\* SetHealth: by the lookup itself for "h", and by handleBulkHealthStepMsg for
\* "H", under the key of the report's identity.
Save(l) ==
    LET p == lookup[l]
    IN  /\ p.stage = "save"
        /\ stored' = [stored EXCEPT ![IF p.single THEN p.key ELSE KeyOf(p.report)] =
                        [report |-> p.report, age |-> StoredAge(p)]]
        /\ Becomes(l, [p EXCEPT !.stage = "answer"])

\* The store refuses: the report is shown all the same.
SaveFails(l) == At(l, "save") /\ Steps(l, [lookup[l] EXCEPT !.stage = "answer"])

\* The answer is handled (modules BulkHealth and HealthWindow).
Handled(l) == At(l, "answer") /\ Steps(l, NoLookup)

LookupNext ==
    \/ Day
    \/ \E l \in Everyone :
          \/ \E single, force, llm \in BOOLEAN, id \in world.ids : Start(l, single, force, llm, id)
          \/ TakeSlot(l)
          \/ ReadStored(l) \/ Identify(l)
          \/ ReadProfile(l) \/ ReadWikipedia(l) \/ ReadSEC(l) \/ FetchSite(l) \/ ReadSite(l)
          \/ ReadHackerNews(l) \/ ReadNews(l) \/ ReadLayoffs(l) \/ Weigh(l)
          \/ ReadReviews(l) \/ ReadArticles(l) \/ Assess(l)
          \/ Save(l) \/ SaveFails(l) \/ Handled(l)

LookupSpec == LookupInit /\ [][LookupNext]_lookupVars

-----------------------------------------------------------------------------
(* Properties.                                                             *)

\* Every report that is complete: stored, or at the end of its lookup.
Complete ==
    ({stored[k].report : k \in {k \in Keys : stored[k] # None}}
     \cup {lookup[l].report : l \in {l \in Everyone :
                    lookup[l].stage \in {"reviews", "articles", "assess", "save", "answer"}}})
    \ {None}

\* "If employment risk is high, the overall health score cannot be Good"
\* (domain/company_health.go:353), and the model's judgement of some articles may
\* not get round it: however often a report is stored, read again and assessed,
\* its score stays in the range of its risk, the model has moved it once and by
\* ten at most, and reading it again has not made it look newer.
ReportsAreSound ==
    /\ \A r \in Complete : r.score \in 0..RiskCap(r.risk) /\ r.moved \in -10..10
    /\ \A k \in Keys : stored[k] # None => stored[k].age >= stored[k].report.age

\* Of the values that were observed a report has the best: none is missing, none of a
\* higher confidence was overruled by one that came before it, and only a source of
\* high confidence confirms.  The company's site is asked for what is missing only
\* (company_health_site_profile.go:45), so that the age of the domain can keep out
\* the founding year it tells; but a fact is missing only if the site, with the public
\* profiles it links to, cannot fill it either: whatever the order of the lookup's
\* sources, those that failed and what they left of the report.
FactsAreTheBest ==
    \A r \in Complete : \A f \in {r.year, r.staff} :
        /\ f.value = None <=> f.seen = {}
        /\ f.value = None => f.onSite = {}
        /\ \A c \in f.seen : Rank[c] <= Rank[f.confidence]
        /\ f.status = "confirmed" => f.confidence = "high"

=============================================================================
