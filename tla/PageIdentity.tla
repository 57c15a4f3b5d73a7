---------------------------- MODULE PageIdentity ----------------------------
(***************************************************************************)
(* What pages say about the company of a job, and what a job takes from    *)
(* them: postings and job boards, profiles of the company on other sites,  *)
(* its own site, the text of the job and the answers of a language model   *)
(* (internal/fetcher/company_identity_extract.go, structured_job_posting.  *)
(* go, job_board_identity.go, company_profile_extract.go,                  *)
(* job_identity_llm.go, job_description_enrichment.go,                     *)
(* company_identity_browser.go, site_search_browser.go).                   *)
(*                                                                         *)
(* A page is a record of what the extraction finds in its text: nothing    *)
(* (None) or a candidate, which the operators accept or not.               *)
(***************************************************************************)
EXTENDS JobIdentity

\* A page on which nothing is found; at is the host that served it.
BlankPage(at) ==
    [at |-> at,
     board |-> None,      \* the job board whose posting it is
     company |-> None,    \* the name of the company on it
     posting |-> None,    \* the JobPosting of its structured data
     structured |-> None, \* other structured data with the website of the company
     labelled |-> None,   \* the link labelled as the website
     onBoard |-> None,    \* the link a known board has for the company
     links |-> <<>>,      \* the other links
     summary |-> None, industry |-> None, paid |-> FALSE,
     facts |-> None,      \* the industry among the facts of a public profile
     profile |-> None,    \* the company's profile it links to
     direct |-> None,     \* a link to apply at (in the text of a job)
     about |-> None]      \* the page about the company it links to

NoPosting == [company |-> None, website |-> None, summary |-> None, industry |-> None, paid |-> FALSE]

\* publicProfileSource
ProfileSites == {"linkedin", "glassdoor", "indeed"}

\* extractLabeledHref
Labelled(page) ==
    IF LooksLikeSite(page.labelled, page.at) /\ ~Blocked(page.labelled, page.at)
    THEN page.labelled ELSE None

\* structuredCompanyWebsiteAllowed
StructuredAllowed(site, page, company) ==
    /\ LooksLikeSite(site, page.at)
    /\ ~Blocked(site, page.at)
    /\ page.at \in ProfileSites => SiteMatches(site, company)

\* extractCompanyWebsiteFromHTML
SiteOn(page, company) ==
    LET fit == SelectInSeq(page.links, LAMBDA s : LooksLikeSite(s, page.at) /\ SiteMatches(s, company))
        site == IF page.at = "linkedin" /\ Labelled(page) # None THEN Labelled(page)
                ELSE IF StructuredAllowed(page.structured, page, company) THEN page.structured
                ELSE IF Labelled(page) # None THEN Labelled(page)
                ELSE IF fit # 0 THEN page.links[fit]
                ELSE None
    IN  IF site = None THEN None ELSE Normal(site)

\* extractCompanySummaryFromHTML, extractCompanyProfileSummary
SummaryOn(page, company) == IF LooksLikeSummary(page.summary, company) THEN page.summary ELSE None

\* extractExplicitCompanyIndustryFromHTML
IndustryOn(page) == IF LooksLikeIndustry(page.industry) THEN page.industry ELSE None

\* The industry a summary gives away is provisional.
FillImplied(job, page) ==
    Fill(job, "industry", Implied(job.summary), "summary_inference", page, "low", TRUE)

\* enrichJobIndustryFromExistingSummary
ImpliedByOwnSummary(job) ==
    IF job.industry = None /\ ~Lacks(job, "summary")
    THEN FillImplied(job, IF job.website # None THEN job.website.host ELSE job.apply.page) ELSE job

-----------------------------------------------------------------------------
(* The page of the posting.                                                *)

\* enrichJobFromStructuredJobPosting
FromPosting(job, page) ==
    LET p == page.posting
        named == WithCompany(job, p.company)
        site == IF LooksLikeSite(p.website, page.at) /\ SiteMatches(Normal(p.website), named.company)
                THEN Normal(p.website) ELSE None
        sited == Fill(named, "website", site, "structured_job_posting", page.at, "high", FALSE)
        told == Fill(sited, "summary",
                     IF LooksLikeSummary(p.summary, named.company) THEN p.summary ELSE None,
                     "structured_job_posting", page.at, "medium", FALSE)
    IN  IF p = None THEN job
        ELSE Fill([told EXCEPT !.paid = @ \/ p.paid], "industry", p.industry,
                  "structured_job_posting", page.at, "high", FALSE)

\* enrichJobFromKnownJobBoardHTML: the site a board links the company to
\* (howToApply, the links of a Y Combinator page, the logo of Greenhouse).
BoardSite(page, company) ==
    LET site == page.onBoard
    IN  IF LooksLikeSite(site, page.at) /\ SiteMatches(site, company) THEN Normal(site) ELSE None

FromBoard(job, page) ==
    LET named == WithCompany(job, page.company)
        told == IF page.board = "yc" /\ named.company # None /\ page.summary # None
                   /\ page.summary.names = named.company
                THEN Fill(named, "summary", page.summary, "board", page.at, "high", FALSE) ELSE named
    IN  IF page.board = None THEN job
        ELSE Fill(told, "website", BoardSite(page, named.company), "board", page.at, "high", FALSE)

\* enrichJobFromHTML.  A summary that is none goes, its evidence stays.
SummaryFrom(job, page, source, at) ==
    LET summary == SummaryOn(page, job.company)
    IN  IF ~Lacks(job, "summary") THEN job
        ELSE IF summary = None THEN [job EXCEPT !.summary = None]
        ELSE Put(job, "summary", summary, source, at, "medium", FALSE)

FromPage(job, page) ==
    LET known == FromBoard(FromPosting(job, page), page)
        sited == Fill([known EXCEPT !.paid = @ \/ page.paid], "website", SiteOn(page, known.company),
                      "apply_page", page.at, "medium", FALSE)
        told == SummaryFrom(sited, page, "apply_page", page.at)
        named == WithCompany(told, CompanyOf(told.summary))
    IN  FillImplied(Fill(named, "industry", IndustryOn(page), "apply_page", page.at, "medium", FALSE),
                    page.at)

-----------------------------------------------------------------------------
(* Profiles of the company and its own site.                               *)

\* applyCompanyPublicProfileEvidence
FromFacts(job, page, source) == Fill(job, "industry", page.facts, source, page.at, "medium", FALSE)

\* enrichJobFromCompanyProfileHTML: what a profile says replaces what was known.
FromProfile(job, page) ==
    LET put(j, f, value) == IF value = None THEN j
                            ELSE Put(j, f, value, "company_profile", page.at, "high", FALSE)
        sited == put([job EXCEPT !.profile = page.at], "website", SiteOn(page, job.company))
        told == put(sited, "summary", SummaryOn(page, job.company))
    IN  FromFacts(put(told, "industry", IndustryOn(page)), page, "company_profile")

\* enrichJobFromCompanySiteHTML: a label of the site replaces the industry.
FromCompanySite(job, page, source) ==
    LET told == Fill(job, "summary", SummaryOn(page, job.company), source, page.at, "high", FALSE)
    IN  IF IndustryOn(page) # None
        THEN Put(told, "industry", IndustryOn(page), source, page.at, "high", FALSE)
        ELSE FillImplied(told, page.at)

\* applyLLMJobIdentityEnrichment: what the model reads on a page.  It is not asked
\* unless something is missing, and its industry needs something to stand on.
NeedsModel(job) == \E f \in Fields : Lacks(job, f)

FromModel(job, page, answer) ==
    LET site == IF LooksLikeSite(answer.website, page.at) /\ ~Blocked(answer.website, page.at)
                THEN Normal(answer.website) ELSE None
        summary == IF LooksLikeSummary(answer.summary, job.company) THEN answer.summary ELSE None
        anchored == \/ ~Lacks(job, "website") \/ ~Lacks(job, "summary")
                    \/ site # None \/ summary # None
        sited == Fill(job, "website", site, "llm", page.at, answer.confidence, FALSE)
        told == Fill(sited, "summary", summary, "llm", page.at, answer.confidence, FALSE)
    IN  IF answer = None \/ ~NeedsModel(job) THEN job
        ELSE IF anchored /\ LooksLikeIndustry(answer.industry)
        THEN Fill(told, "industry", answer.industry, "llm", page.at, answer.confidence, answer.provisional)
        ELSE told

\* enrichJobFromCompanySiteText
FromSiteText(job, page, source, answer) ==
    LET asked == FromModel(job, page, answer)
        told == Fill(asked, "summary", SummaryOn(page, asked.company), source, page.at, "medium", FALSE)
    IN  FromCompanySite(told, page, source)

\* applyBrowserCompanySiteProfile: the site a search for the name finds, and its page
\* about the company.
FromSearch(job, found, answer) ==
    LET sited == Fill(job, "website", Normal(found.labelled), "browser_company_search", "search", "medium", FALSE)
        told == FromSiteText(sited, found, "browser_company_search", answer)
    IN  IF found.about = None THEN told
        ELSE FromSiteText(told, found.about, "browser_company_about", answer)

\* companyWebsiteFromExternalApplyURL: the domain of a link that leaves the board.
OutsideSite(link, page, company) ==
    IF link # None /\ LooksLikeSite(Normal(link), page.at) /\ SiteMatches(link, company)
    THEN Normal(link) ELSE None

\* An Indeed page, shown in the browser: enrichJobFromIndeedDetailText and -Links.
FromIndeed(job, page) ==
    LET told == FromFacts(job, page, "indeed_detail")
        site == OutsideSite(page.onBoard, page, job.company)
    IN  Sanitized(Fill([told EXCEPT !.profile = IF page.profile # None THEN page.profile ELSE @],
                       "website", site, "indeed_apply_link", page.at, "high", FALSE))

\* ... and the profile there: companyWebsiteFromProfileLinks.
FromIndeedProfile(job, page) ==
    LET fit == SelectInSeq(page.links, LAMBDA s : OutsideSite(s, page, job.company) # None)
        site == IF fit = 0 THEN None ELSE Normal(page.links[fit])
    IN  Fill(FromFacts(job, page, "indeed_profile"), "website", site,
             "indeed_company_profile", page.at, "high", FALSE)

-----------------------------------------------------------------------------
(* The job's own text, and what is asked for.                              *)

\* enrichJobFromDescription.  The industry is replaced by what the text or the
\* summary says, whatever it was.
FromDescription(job) ==
    LET page == job.text
        at == job.apply.page
        moved == [job EXCEPT !.apply = IF page.direct # None THEN page.direct ELSE @, !.paid = @ \/ page.paid]
        sited == Fill(moved, "website", SiteOn([page EXCEPT !.at = at], job.company),
                      "job_description", at, "medium", FALSE)
        told == SummaryFrom(sited, page, "job_description", at)
    IN  IF page = None THEN job
        ELSE IF IndustryOn(page) # None
        THEN Put(told, "industry", IndustryOn(page), "job_description", at, "medium", FALSE)
        ELSE IF Implied(told.summary) # None
        THEN Put(told, "industry", Implied(told.summary), "summary_inference", at, "low", TRUE)
        ELSE told

\* jobNeedsApplyPageEnrichment, jobNeedsCompanyPageEnrichment,
\* jobNeedsBrowserCompanySearch
NeedsPage(job) ==
    /\ ~job.apply.nonJob
    /\ \/ job.apply.board = "wwr"   \* We Work Remotely and the like have profiles
       \/ job.company = None \/ ~job.paid
       \/ \E f \in Fields : Lacks(job, f)

NeedsSite(job) ==
    ~job.apply.nonJob /\ ~Lacks(job, "website") /\ (Lacks(job, "summary") \/ Lacks(job, "industry"))

NeedsSearch(job) == job.company # None /\ ~job.apply.nonJob /\ Lacks(job, "website")

\* The start of enrichJobFromApplyPage...: what is there is cleaned and used.
Prepared(job) ==
    LET clean == Sanitized(job)
        named == ImpliedByOwnSummary(WithCompany(clean, CompanyOf(clean.summary)))
    IN  IF Lacks(named, "website") /\ SiteOfPosting(named) # None
        THEN WithPostingSite(named, SiteOfPosting(named)) ELSE named

\* builtInCompanyProfileURLFromJob: the Built In profile the evidence is from, of
\* the website first.
BuiltInProfile(job) ==
    LET from(f) == job.identity[f] # None /\ job.identity[f].page = "builtin profile"
    IN  IF \E f \in Fields : from(f) THEN "builtin profile" ELSE None

=============================================================================
