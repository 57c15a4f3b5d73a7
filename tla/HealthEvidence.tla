--------------------------- MODULE HealthEvidence ---------------------------
(***************************************************************************)
(* What the sources say about a company and how a health report is made of *)
(* it (internal/domain/company_health*.go): the founding year and the      *)
(* number of employees with the confidence of their source, the score, and *)
(* the employment risk that caps the score.  Pure operators; the steps of  *)
(* a lookup that apply them are in module HealthLookup.                    *)
(*                                                                         *)
(* Texts are abstracted to what the code finds in them: a year, a number,  *)
(* the keywords, whether they name the company.                            *)
(***************************************************************************)
EXTENDS Integers, FiniteSets, FiniteSetsExt, SequencesExt

CONSTANTS
    None,       \* what is not known (nil)
    ThisYear,   \* the current year
    CleanTitles \* more headlines than this without a bad word are a clean record (5)

ASSUME HealthEvidenceAssumption == ThisYear \in Nat /\ CleanTitles \in Nat

LeastOf(a, b) == IF a < b THEN a ELSE b
LargestOf(a, b) == IF a > b THEN a ELSE b

-----------------------------------------------------------------------------
(* Facts and their confidence.                                             *)

\* confidenceRank
Rank == [none |-> 0, low |-> 1, medium |-> 2, high |-> 3]

\* CompanyHealthFieldAssessment with the accepted value; seen stands for the list
\* of evidence: the confidences of the plausible values that were observed; onSite
\* for the values that the company's site can fill a gap with.
NoFact == [value |-> None, confidence |-> "none", status |-> "gap", seen |-> {}, onSite |-> {}]

\* fieldStatusForConfidence, setAcceptedFieldState
AcceptFact(fact, value, confidence) ==
    [fact EXCEPT !.value = value, !.confidence = confidence,
                 !.status = IF Rank[confidence] >= Rank["high"] THEN "confirmed" ELSE "estimated"]

\* Whether evidence replaces the accepted value (mutant: it has to contradict it).
OnlyConflictsReplace(fact, conflict, confidence) ==
    conflict /\ Rank[confidence] > Rank[fact.confidence] /\ Rank[confidence] >= Rank["medium"]
Replaces(fact, conflict, confidence) ==
    /\ Rank[confidence] > Rank[fact.confidence]
    /\ conflict => Rank[confidence] >= Rank["medium"]

\* The common part of observeFoundedYear and observeEmployeeCount.
Observed(fact, value, confidence, conflict) ==
    LET f == [fact EXCEPT !.seen = @ \cup {confidence}]
    IN  IF fact.value = None \/ Replaces(fact, conflict, confidence)
        THEN AcceptFact(f, value, confidence)
        ELSE IF conflict THEN [f EXCEPT !.status = "conflict"] ELSE f

\* foundedYearConflicts, employeeCountConflicts
YearsConflict(a, b) == a - b > 2 \/ b - a > 2
CountsConflict(a, b) ==
    LET high == LargestOf(a, b)
        low == LeastOf(a, b)
    IN  IF low = 0 THEN high # low ELSE high >= (3 * low) \div 2 /\ high - low >= 200

\* observeFoundedYear
ObserveYear(r, year, confidence) ==
    IF year = None THEN r
    ELSE [r EXCEPT !.year = Observed(@, year, confidence,
                                     @.value # None /\ YearsConflict(@.value, year))]

\* plausibleEmployeeCount
Plausible(count) == count # None /\ count >= 2

\* observeEmployeeCount
ObserveStaff(r, count, confidence) ==
    IF ~Plausible(count) THEN r
    ELSE [r EXCEPT !.staff = Observed(@, count, confidence,
                                      @.value # None /\ CountsConflict(@.value, count))]

\* result.AgeYears
Age(r) == ThisYear - r.year.value

Scored(r, points) == [r EXCEPT !.score = @ + points]
AtLeastMedium(r) == [r EXCEPT !.confidence = IF @ = "low" THEN "medium" ELSE @]

-----------------------------------------------------------------------------
(* The sources, in the order they are asked.                               *)

\* The report a lookup starts from: the facts stored with the job.
NewReport(id) ==
    LET empty == [year |-> NoFact, staff |-> NoFact, score |-> 50, confidence |-> "low",
                  public |-> None, ticker |-> id.ticker, flags |-> {}, sources |-> {},
                  terms |-> 0, news |-> 0, layoffs |-> {}, reviews |-> <<>>, stories |-> <<>>,
                  risk |-> 0, website |-> id.website, assessed |-> FALSE, moved |-> 0, age |-> 0]
    IN  ObserveStaff(ObserveYear(empty, id.year, "medium"), id.staff, "medium")

\* validateWikiRelevance, validateWikiRelevanceForIdentity: a page about a company
\* with a technical name has technical words, a young kind of company is not old,
\* and an industry that is known is mentioned.
WikiRelevant(id, page) ==
    /\ page.found
    /\ id.techName => page.techText
    /\ id.aiName /\ page.year # None /\ page.year < 1990 => page.aiTitle
    /\ id.industry => page.industry

\* bestWikidataTimeYear, bestWikidataEmployeeCount, bestWikidataString: the claim
\* of the highest rank that is not deprecated, of equal ones the first, or for a
\* head count the latest.
WikidataRank == [preferred |-> 2, normal |-> 1, deprecated |-> 0]
BestClaim(claims) ==
    LET usable == {i \in DOMAIN claims : claims[i].rank # "deprecated" /\ claims[i].value # None}
        before(i, j) ==
            \/ WikidataRank[claims[i].rank] > WikidataRank[claims[j].rank]
            \/ /\ WikidataRank[claims[i].rank] = WikidataRank[claims[j].rank]
               /\ \/ claims[i].asOf > claims[j].asOf
                  \/ claims[i].asOf = claims[j].asOf /\ i < j
    IN  IF usable = {} THEN None
        ELSE claims[CHOOSE i \in usable : \A j \in usable \ {i} : before(i, j)].value

\* Points for the age that the text of the page tells, accepted or not.
AgePoints(year) ==
    CASE year = None -> 0
      [] year # None /\ ThisYear - year >= 10 -> 10
      [] year # None /\ ThisYear - year \in 5..9 -> 5
      [] OTHER -> 0

\* The summary of the page, then the claims of its entity.
WithWikipedia(r, page) ==
    LET text == ObserveStaff(ObserveYear(Scored(r, AgePoints(page.year)), page.year, "medium"),
                             page.staff, "medium")
        medium == [text EXCEPT !.confidence = "medium", !.sources = @ \cup {"wikipedia"}]
        facts == page.facts
    IN  IF facts = None THEN medium
        ELSE [ObserveStaff(ObserveYear(medium, BestClaim(facts.years), "medium"),
                           BestClaim(facts.staff), "medium")
              EXCEPT !.ticker = @ \/ BestClaim(facts.tickers) # None,
                     !.sources = @ \cup {"wikidata"}]

\* Without a page: fetchWhoisAge, the registration of the domain.
WithDomainAge(r, year) ==
    IF year = None THEN r
    ELSE ObserveYear(Scored(r, IF ThisYear - year >= 5 THEN 5 ELSE 0), year, "low")

\* Points for the last filing: within 180 days, older, or none at all.
FilingPoints == [recent |-> 10, old |-> 4, none |-> 0]

\* secLookupCIK, secGetSubmissions, secGetHeadcount and what is read from them.
WithSEC(r, sec) ==
    CASE sec.answer = "unavailable" -> r
      [] sec.answer = "unknown" -> [r EXCEPT !.public = "no"]
      [] sec.answer = "listed" ->
            [r EXCEPT !.public = "yes", !.ticker = TRUE, !.confidence = "high"]
      [] sec.answer = "filed" ->
            [ObserveStaff(r, sec.staff, "high")
             EXCEPT !.public = "yes", !.ticker = TRUE, !.confidence = "high",
                    !.sources = @ \cup {"sec"}, !.terms = sec.terms,
                    !.flags = @ \cup (IF sec.terms > 0 THEN {"sec_risk"} ELSE {}),
                    !.score = @ + FilingPoints[sec.filings] + (IF sec.exchange THEN 3 ELSE 0)
                                - LeastOf(12, 4 * sec.terms)]

\* ShouldUseBrowserCompanyProfile
ProfileWanted(r) == r.year.value = None \/ r.staff.value = None \/ r.confidence = "low"

\* appendUniqueEmployerReviewSignal
WithReview(reviews, review) ==
    IF \E i \in DOMAIN reviews : reviews[i].url = review.url THEN reviews ELSE Append(reviews, review)

\* applyCompanyPublicProfileFoundedYears, ...EmployeeCounts: of an unknown field, the
\* first profile that fills it.
TellYear(profiles) == {i \in DOMAIN profiles : profiles[i].year # None}
TellStaff(profiles) == {i \in DOMAIN profiles : Plausible(profiles[i].staff)}
First(S) == CHOOSE i \in S : \A h \in S : i <= h

FirstYear(r, profiles) ==
    IF TellYear(profiles) = {} THEN r
    ELSE ObserveYear(r, profiles[First(TellYear(profiles))].year, "medium")
FirstStaff(r, profiles) ==
    IF TellStaff(profiles) = {} THEN r
    ELSE ObserveStaff(r, profiles[First(TellStaff(profiles))].staff, "medium")

\* A profile without text, address and public profiles.
NoSite == [website |-> FALSE, industry |-> FALSE, year |-> None, staff |-> None,
           registered |-> None, profiles |-> <<>>]

\* EnrichCompanyHealthContextFromSiteProfile
WithSiteIdentity(id, site) ==
    [id EXCEPT !.website = @ \/ site.website, !.industry = @ \/ site.industry]

\* What the site's text and the public profiles it links to tell, needed or not.  A
\* number of employees in the text, plausible or not, takes the place of those of the
\* profiles.
SiteYears(site) ==
    IF site.year # None \/ TellYear(site.profiles) # {} THEN {"medium"} ELSE {}
SiteStaff(site) ==
    IF Plausible(site.staff) \/ (site.staff = None /\ TellStaff(site.profiles) # {})
    THEN {"medium"} ELSE {}

\* ApplyCompanySiteProfile: only fills what is missing.
WithSite(r, site) ==
    LET reviewed == [r EXCEPT
            !.year.onSite = SiteYears(site),
            !.staff.onSite = SiteStaff(site),
            !.reviews = FoldLeft(LAMBDA s, p : IF p.review = None THEN s ELSE WithReview(s, p.review),
                                 @, site.profiles),
            !.sources = @ \cup {"company_site"}
                          \cup (IF site.profiles = <<>> THEN {} ELSE {"public_profiles"})]
        dated ==
            IF reviewed.year.value # None THEN reviewed
            ELSE IF site.year # None THEN AtLeastMedium(ObserveYear(reviewed, site.year, "medium"))
            ELSE IF site.registered # None THEN AtLeastMedium(ObserveYear(reviewed, site.registered, "low"))
            ELSE FirstYear(reviewed, site.profiles)
    IN  IF site = NoSite THEN r
        ELSE IF dated.staff.value # None THEN dated
        ELSE IF site.staff # None THEN AtLeastMedium(ObserveStaff(dated, site.staff, "medium"))
        ELSE FirstStaff(dated, site.profiles)

\* A private company that has lasted is thought stable.
WithPrivateBonus(r) ==
    IF r.public = "no" /\ r.year.value # None /\ Age(r) >= 5 THEN Scored(r, 8) ELSE r

-----------------------------------------------------------------------------
(* News.                                                                   *)

\* healthEvidenceMatchesCompanyContext: a headline is about the company if it has
\* its domain, its name or an alias, or two words of its business.
AboutCompany(item, id) ==
    CASE item.about = "name" -> TRUE
      [] item.about = "domain" -> id.website
      [] item.about = "business" -> id.industry
      [] OTHER -> FALSE

Relevant(items, id) == SelectSeq(items, LAMBDA i : AboutCompany(i, id))

\* Stories that may worry a reader, each address once and at most a year old
\* (companyHealthConcernStoryRecent, appendUniqueCompanyHealthConcernStories).
AddStories(stories, bad) ==
    FoldLeft(LAMBDA s, i : IF i.lastYear /\ ~Contains(s, i.url) THEN Append(s, i.url) ELSE s,
             stories, bad)

\* fetchHNVibeCheckForContext: a discussed bad story counts twice.
BadTalk(items) == FoldLeft(LAMBDA n, i : n + (IF ~i.bad THEN 0 ELSE IF i.discussed THEN 2 ELSE 1), 0, items)
GoodTalk(items) == FoldLeft(LAMBDA n, i : n + (IF i.good THEN 1 ELSE 0), 0, items)

WithHackerNews(r, id, items) ==
    LET own == Relevant(items, id)
        points == CASE BadTalk(own) >= 2 -> -8
                    [] BadTalk(own) = 0 /\ GoodTalk(own) >= 2 -> 5
                    [] OTHER -> 0
    IN  IF own = <<>> THEN r
        ELSE [Scored(r, points) EXCEPT
                !.flags = @ \cup (IF BadTalk(own) >= 2 THEN {"hn_negative"} ELSE {}),
                !.sources = @ \cup {"hn"},
                !.stories = AddStories(@, SelectSeq(own, LAMBDA i : i.bad))]

\* googleNewsSentimentDetailsForContextWithFetcher: the hits are the keywords found
\* in all the headlines together (wordHitCount), so a word counts once.
Hits(words) == Cardinality(UNION words)

NewsPoints(neg, pos, titles) ==
    (CASE neg >= 3 /\ neg > pos -> -10
       [] neg \in 1..2 /\ neg > pos -> -4
       [] neg = 0 /\ titles > CleanTitles -> 5
       [] OTHER -> 0)
    + (IF pos > neg THEN (IF pos >= 2 THEN 4 ELSE 2) ELSE 0)

WithNews(r, id, news) ==
    LET own == Relevant(news, id)
        neg == Hits({i.bad : i \in ToSet(own)})
        pos == Hits({i.good : i \in ToSet(own)})
        scored == [Scored(r, NewsPoints(neg, pos, Len(own))) EXCEPT
                     !.news = neg - pos,
                     !.sources = @ \cup {"news"},
                     !.flags = @ \cup (IF neg >= 3 /\ neg > pos THEN {"negative_news"} ELSE {}),
                     !.stories = AddStories(@, SelectSeq(own, LAMBDA i : i.bad # {}))]
    IN  IF own = <<>> THEN scored ELSE AtLeastMedium(scored)

\* mergeLayoffSignals: of two with one address the headline is kept.
MergeLayoffs(headlines, listed) ==
    headlines \o SelectSeq(listed, LAMBDA s : \A i \in DOMAIN headlines : headlines[i].url # s.url)

\* The layoffs of the news and of layoffs.fyi that are about the company.
WithLayoffs(r, id, headlines, listed) ==
    LET own == Relevant(listed, id)
        all == MergeLayoffs(Relevant(headlines, id), own)
    IN  IF all = <<>> THEN r
        ELSE [r EXCEPT !.layoffs = ToSet(all),
                       !.flags = @ \cup {"layoff"},
                       !.sources = @ \cup (IF own # <<>> THEN {"layoffs_fyi"} ELSE {}),
                       !.stories = AddStories(@, all)]

-----------------------------------------------------------------------------
(* The employment risk and the score.                                      *)

\* Tenths: how large the largest layoff is, by its share of the staff if that is
\* known, else by its size.
Scale(count, staff) ==
    LET share == IF staff = None THEN 0 ELSE (100 * count) \div staff
    IN  CASE share >= 20 -> 25
          [] share \in 10..19 -> 18
          [] share < 10 /\ count >= 1000 -> 20
          [] share < 10 /\ count \in 100..999 -> 12
          [] OTHER -> 10

\* Tenths: how long ago the last dated layoff was, in days.
Recency(days) == CASE days = None -> 10
                   [] days # None /\ days < 30 -> 15
                   [] days # None /\ days \in 30..89 -> 13
                   [] OTHER -> 10

LayoffRisk(layoffs, staff) ==
    LET counts == {l.count : l \in layoffs} \ {0}
        dates == {l.days : l \in layoffs} \ {None}
        scale == IF counts = {} THEN 10 ELSE Scale(Max(counts), staff)
        recency == Recency(IF dates = {} THEN None ELSE Min(dates))
    IN  IF layoffs = {} THEN 0 ELSE LeastOf(75, (25 * scale * recency) \div 100)

\* A year of prices: the drop from the highest and the change, in percent.
StockRisk(stock) ==
    IF stock = None THEN 0
    ELSE LeastOf(40, LargestOf(IF stock.drop > 30 THEN (stock.drop - 20) \div 2 ELSE 0,
                               IF stock.change < -20 THEN (-stock.change) \div 2 ELSE 0))

\* calculateEmploymentRisk
EmploymentRisk(r, stock) ==
    LeastOf(100, LayoffRisk(r.layoffs, r.staff.value) + StockRisk(stock)
                 + LeastOf(20, 5 * r.terms) + (IF r.news > 2 THEN 10 ELSE 0))

\* applyEmployerReviewHealthSignals; ratings in tenths.
ReviewPoints(v) ==
    (CASE v.rating = None -> 0
       [] v.rating # None /\ v.rating < 30 -> -8
       [] v.rating # None /\ v.rating \in 30..34 -> -3
       [] v.rating # None /\ v.rating >= 42 -> 3
       [] OTHER -> 0)
    + (IF v.recommend = None THEN 0
       ELSE IF v.recommend < 50 THEN -6 ELSE IF v.recommend >= 80 THEN 2 ELSE 0)
    - (IF v.ceo # None /\ v.ceo < 50 THEN 3 ELSE 0)

ReviewRisk(v) ==
    (CASE v.rating = None -> 0
       [] v.rating # None /\ v.rating < 30 -> 15
       [] v.rating # None /\ v.rating \in 30..34 -> 7
       [] OTHER -> 0)
    + (IF v.recommend # None /\ v.recommend < 50 THEN 12 ELSE 0)
    + (IF v.ceo # None /\ v.ceo < 50 THEN 5 ELSE 0)

LowReviews(reviews) ==
    \E i \in DOMAIN reviews : \/ reviews[i].rating # None /\ reviews[i].rating < 30
                              \/ reviews[i].recommend # None /\ reviews[i].recommend < 50

Added(base, points) == FoldLeft(LAMBDA sum, n : sum + n, base, points)

WithReviews(r) ==
    [r EXCEPT !.score = Added(@, [i \in DOMAIN r.reviews |-> ReviewPoints(r.reviews[i])]),
              !.risk = LeastOf(100, Added(@, [i \in DOMAIN r.reviews |-> ReviewRisk(r.reviews[i])])),
              !.flags = @ \cup (IF LowReviews(r.reviews) THEN {"low_reviews"} ELSE {})]

\* The highest score that goes with a risk.
RiskCap(risk) == IF risk >= 75 THEN 40 ELSE IF risk >= 50 THEN 55 ELSE 100

\* The deduction for a risk.
RiskPenalty(risk) == IF risk >= 75 THEN 30 ELSE IF risk >= 50 THEN 15 ELSE IF risk >= 25 THEN 5 ELSE 0

\* clampHealthScoreForRisk
Clamp(score, risk) == LargestOf(0, LeastOf(score, RiskCap(risk)))

\* The end of CompanyHealthWithDataSources.
Capped(r) == [r EXCEPT !.score = Clamp(@ - RiskPenalty(r.risk), r.risk)]

\* healthResultHasVolatileSignals
Volatile(r) == r.layoffs # {} \/ r.risk >= 25 \/ r.flags \cap {"layoff", "negative_news", "sec_risk"} # {}

=============================================================================
