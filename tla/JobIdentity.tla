---------------------------- MODULE JobIdentity ----------------------------
(***************************************************************************)
(* What a job says about its company and how sure that is: the website,    *)
(* summary and industry of a job, each with the evidence for it            *)
(* (internal/domain/job.go, job_merge.go), and the rules by which they are *)
(* cleaned, copied between jobs and taken from records                     *)
(* (internal/fetcher/job_identity_evidence.go, company_identity_cache.go). *)
(* Pure operators; the pages they come from are in module PageIdentity,    *)
(* the tasks that apply them in module Enrichment.                         *)
(*                                                                         *)
(* A company is the key of its name, a site is what the code finds out     *)
(* about a URL, a summary what it finds in the text.                       *)
(***************************************************************************)
EXTENDS Naturals, FiniteSets, SequencesExt

CONSTANT None   \* what is not known (nil, the empty string)

Fields == {"website", "summary", "industry"}

\* A site: its host without and with the prefix of a subdomain (careers., jobs.),
\* the companies whose name the host holds, whether the URL may be a website of a
\* company at all, whether LinkedIn serves its pictures from it.
Site(host, names) == [host |-> host, prefix |-> FALSE, names |-> names, plausible |-> TRUE, asset |-> FALSE]

\* normalizeCompanyWebsiteURL
Normal(site) == [site EXCEPT !.prefix = FALSE]

\* A summary: the company it starts with, whether it reads like one of any company,
\* the industry its words give away.
Summary(names, plain, implies) == [names |-> names, plain |-> plain, implies |-> implies]

\* jobCompanyMissingOrUnknown, setJobCompanyIfMissing
WithCompany(job, company) == IF job.company = None THEN [job EXCEPT !.company = company] ELSE job

\* candidateWebsiteMatchesCompany: any site matches a company without a name.
SiteMatches(site, company) == company = None \/ company \in site.names

\* LooksLikeCompanyWebsite; a page is no website of the company that posts on it.
LooksLikeSite(site, page) == site # None /\ site.plausible /\ site.host # page

\* LooksLikeCompanySummary
LooksLikeSummary(summary, company) ==
    summary # None /\ (summary.plain \/ (company # None /\ summary.names = company))

\* companyNameFromSummary: of "Acme builds ...".
CompanyOf(summary) == IF summary # None /\ summary.plain THEN summary.names ELSE None

\* inferCompanyIndustry
Implied(summary) == IF summary = None THEN None ELSE summary.implies

\* looksLikeCompanyIndustry
LooksLikeIndustry(industry) == industry \notin {None, "junk"}

-----------------------------------------------------------------------------
(* Evidence.                                                               *)

Evidence(value, source, page, confidence, provisional) ==
    [value |-> value, source |-> source, page |-> page,
     confidence |-> confidence, provisional |-> provisional]

NoIdentity == [f \in Fields |-> None]

\* Setting a field with its evidence (SetCompanyIdentityEvidence).
Put(job, f, value, source, page, confidence, provisional) ==
    [job EXCEPT ![f] = value,
                !.identity[f] = Evidence(value, source, page, confidence, provisional)]

\* identityEvidenceRank
EvidenceRank(e) ==
    IF e = None \/ e.provisional THEN 0
    ELSE CASE e.confidence = "high" -> 2 [] e.confidence = "medium" -> 1 [] OTHER -> 0

\* trustedIdentityEvidence: of a field of a job or record, if it is evidence for the
\* value that is there.
Trusted(r, f) ==
    r[f] # None /\ EvidenceRank(r.identity[f]) > 0 /\ r.identity[f].value = r[f]

\* JobCompanyWebsiteMissingOrInvalid, JobCompanySummaryMissingOrInvalid,
\* jobCompanyIndustryNeedsEnrichment
Lacks(job, f) ==
    CASE f = "website" -> ~LooksLikeSite(job.website, None)
      [] f = "summary" -> ~LooksLikeSummary(job.summary, job.company)
      [] f = "industry" -> job.industry = None
                           \/ (job.identity.industry # None /\ job.identity.industry.provisional)

\* The form nearly every source takes: fill what the job lacks.
Fill(job, f, value, source, page, confidence, provisional) ==
    IF value # None /\ Lacks(job, f)
    THEN Put(job, f, value, source, page, confidence, provisional) ELSE job

\* sourceProfileWebsiteCandidateBlocked: LinkedIn's own picture hosts.
Blocked(site, page) == page = "linkedin" /\ site # None /\ site.asset

\* recordWebsiteEvidenceBlocked, jobWebsiteEvidenceBlocked
EvidenceBlocked(r) == r.identity.website # None /\ Blocked(r.website, r.identity.website.page)

-----------------------------------------------------------------------------
(* Cleaning.                                                               *)

Cleared(job, f) == [job EXCEPT ![f] = None, !.identity[f] = None]

\* inferCompanyWebsiteFromApplyURL: the host of the posting, unless it is a job
\* board's, an apply.* host or no job at all.
SiteOfPosting(job) ==
    LET site == Normal(job.apply.site)
    IN  IF job.company # None /\ job.apply.board = None /\ ~job.apply.nonJob
           /\ LooksLikeSite(site, None) /\ SiteMatches(site, job.company)
        THEN site ELSE None

\* shouldPreferApplyURLCompanyWebsite
PreferPosting(job, site) ==
    /\ site # None /\ site # job.website
    /\ \/ Lacks(job, "website")
       \/ job.identity.website = None
       \/ job.identity.website.provisional
       \/ job.identity.website.source \in {"browser_company_search", "source_payload"}

WithPostingSite(job, site) ==
    Put(job, "website", site, "apply_url_host", job.apply.page, "medium", FALSE)

\* The steps of sanitizeExistingJobIdentity, in their order.
CleanWebsite(job) ==
    IF job.website = None THEN job
    ELSE LET site == Normal(job.website)
         IN  IF ~LooksLikeSite(site, None) \/ ~SiteMatches(site, job.company)
             THEN Cleared(job, "website")
             ELSE [job EXCEPT !.website = site,
                              !.identity.website = IF @ = None THEN None ELSE [@ EXCEPT !.value = site]]

PreferredWebsite(job) ==
    LET site == SiteOfPosting(job)
    IN  IF PreferPosting(job, site) THEN WithPostingSite(job, site) ELSE job

\* evidenceURLMatchesCompanyWebsite, evidenceSourceRequiresCompanyWebsiteHost: a
\* summary from a site that is not the company's (any more) goes.
SiteSources == {"browser_company_search", "company_homepage", "company_about", "company_site"}

CleanSummary(job) ==
    LET e == job.identity.summary
    IN  IF job.summary # None
           /\ \/ ~LooksLikeSummary(job.summary, job.company)
              \/ e # None /\ e.source \in SiteSources
                 /\ (job.website = None \/ e.page # job.website.host)
        THEN Cleared(job, "summary") ELSE job

\* shouldClearExistingIndustryEvidence
CleanIndustry(job) ==
    LET e == job.identity.industry
    IN  IF job.industry # None
           /\ \/ ~LooksLikeIndustry(job.industry)
              \/ e # None /\ e.source = "inference"
              \/ e # None /\ e.source = "summary_inference"
                 /\ (Implied(job.summary) = None \/ Implied(job.summary) # job.industry)
        THEN Cleared(job, "industry") ELSE job

Sanitized(job) == CleanIndustry(CleanSummary(PreferredWebsite(CleanWebsite(job))))

\* backfillJobIdentityEvidence: what has no evidence came with the job.
Backfilled(job) ==
    [job EXCEPT !.identity = [f \in Fields |->
        IF job[f] # None /\ job.identity[f] = None
        THEN Evidence(job[f], "source_payload", job.apply.page, "low", TRUE) ELSE @[f]]]

-----------------------------------------------------------------------------
(* Records of a company, and copies between jobs.                          *)

NoRecord == [website |-> None, summary |-> None, industry |-> None, identity |-> NoIdentity]

\* CompanyIdentityRecord of a job as it is.
RecordOf(job) == [website |-> job.website, summary |-> job.summary,
                  industry |-> job.industry, identity |-> job.identity]

\* What trustedIdentityRecordFromJob takes from a job.
TrustedField(job, f) ==
    /\ Trusted(job, f)
    /\ f # "industry" => ~Lacks(job, f)
    /\ f = "website" => ~EvidenceBlocked(job)
    /\ f = "industry" => LooksLikeIndustry(job.industry)

TrustedRecord(job) ==
    LET known(f) == IF TrustedField(job, f) THEN job[f] ELSE None
        why(f) == IF TrustedField(job, f) THEN job.identity[f] ELSE None
    IN  [website |-> known("website"), summary |-> known("summary"), industry |-> known("industry"),
         identity |-> [f \in Fields |-> why(f)]]

\* trustedCompanyIdentityRecordFromJob
HasTrusted(job) == \E f \in Fields : TrustedField(job, f)

\* IsIdentityComplete
IdentityComplete(job) == ~Lacks(job, "website") /\ ~Lacks(job, "summary")

\* ApplyCachedIdentity and applySameCompanyIdentity fill fields from a record, one
\* with the evidence of the record, the other saying that it is a copy.
FillFrom(job, record, f, source) ==
    LET e == record.identity[f]
    IN  IF record[f] # None /\ Lacks(job, f) /\ (f = "website" => ~EvidenceBlocked(record))
        THEN IF e = None THEN Put(job, f, record[f], source, None, "medium", FALSE)
             ELSE Put(job, f, record[f], IF source = None THEN e.source ELSE source, e.page,
                      e.confidence, e.provisional)
        ELSE job

FillAll(job, record, source) ==
    FillFrom(FillFrom(FillFrom(job, record, "website", source), record, "summary", source),
             record, "industry", source)

\* Of a record only what its own evidence supports is applied (mutant: everything).
AppliedWhole(job, record) == FillAll(job, record, None)
Applied(job, record) ==
    FillAll(job, [record EXCEPT !.website = IF Trusted(record, "website") THEN @ ELSE None,
                                !.summary = IF Trusted(record, "summary") THEN @ ELSE None,
                                !.industry = IF Trusted(record, "industry") THEN @ ELSE None], None)

Copied(job, record) == FillAll(job, record, "same_company_identity_copy")

\* propagateSameCompanyIdentity: of every field the evidence of the highest rank
\* among the jobs of a company, the first of them (0: none has any; mutant: of complete jobs only, as for
\* the cache).
BestComplete(jobs, company, f) ==
    LET of == {i \in DOMAIN jobs : jobs[i].company = company /\ IdentityComplete(jobs[i]) /\ TrustedField(jobs[i], f)}
    IN  IF of = {} THEN 0 ELSE Min(of)
BestOf(jobs, company, f) ==
    LET of == {i \in DOMAIN jobs : jobs[i].company = company /\ TrustedField(jobs[i], f)}
        rank(i) == EvidenceRank(jobs[i].identity[f])
    IN  IF of = {} THEN 0 ELSE Min({i \in of : \A k \in of : rank(i) >= rank(k)})

BestRecord(jobs, company) ==
    LET from(f) == BestOf(jobs, company, f)
        known(f) == IF from(f) = 0 THEN None ELSE jobs[from(f)][f]
        why(f) == IF from(f) = 0 THEN None ELSE jobs[from(f)].identity[f]
    IN  [website |-> known("website"), summary |-> known("summary"), industry |-> known("industry"),
         identity |-> [f \in Fields |-> why(f)]]

Propagated(jobs) ==
    [i \in DOMAIN jobs |-> IF jobs[i].company = None THEN jobs[i]
                           ELSE Copied(jobs[i], BestRecord(jobs, jobs[i].company))]

=============================================================================
