---------------------------- MODULE MCEnrichment ----------------------------
\* Enrichment in several worlds.  Requests: the registry of visits alone, with one
\* URL, three requests and a batch.  Postings, Profiles, Indeed, Searches: a batch of
\* two or three jobs, most of one company, whose pages hold what makes a difference.
EXTENDS Enrichment

CONSTANTS u1, c1, c2, c3, b1

UrlsMC == {u1}
CallsMC == {c1, c2, c3}
BatchesMC == {b1}

AcmeSite == Site("acme.com", {"Acme"})
AcmeJobs == [AcmeSite EXCEPT !.prefix = TRUE]
AcmeOld == Site("acme.io", {"Acme"})
Elsewhere == Site("other.com", {})
Link == [Site("bit.ly", {}) EXCEPT !.plausible = FALSE]
Picture == [Site("licdn.com", {}) EXCEPT !.asset = TRUE]

Makes == Summary("Acme", TRUE, "software")
Mission == Summary("Acme", FALSE, "health")
Slogan == Summary("Acme", FALSE, None)
Chatter == Summary(None, FALSE, None)

Apply(at, board, site) == [page |-> at, board |-> board, site |-> site, nonJob |-> FALSE]
JobAt(apply, company) ==
    [company |-> company, apply |-> apply, website |-> None, summary |-> None, industry |-> None,
     identity |-> NoIdentity, profile |-> None, paid |-> TRUE, text |-> None]
Known(job, f, value, source, at) == Put(job, f, value, source, at, "high", FALSE)
Reads(website, summary, industry, provisional) ==
    [website |-> website, summary |-> summary, industry |-> industry,
     confidence |-> "medium", provisional |-> provisional]

Empty == [fetched |-> FALSE, jobs |-> <<>>, names |-> {}, pages |-> <<>>, profiles |-> {}, sites |-> <<>>,
          searches |-> <<>>, answers |-> <<>>, store |-> EmptyStore(FALSE)]

\* A posting of Greenhouse; a row whose summary was edited, so that its evidence is
\* for another one; the text of a job, with an address of the company.
Postings ==
    [Empty EXCEPT
        !.names = {"Acme"},
        !.jobs = <<[JobAt(Apply("board", "greenhouse", Link), None) EXCEPT !.paid = FALSE],
                   [Known(Known(JobAt(Apply("gone", None, Elsewhere), "Acme"), "summary", Makes, "apply_page", "board"),
                          "industry", "trade", "company_profile", "board")
                      EXCEPT !.summary = Mission],
                   [JobAt(Apply("own", None, AcmeJobs), "Acme") EXCEPT
                      !.text = [BlankPage("own") EXCEPT !.summary = Makes, !.links = <<Elsewhere, AcmeSite>>]]>>,
        !.pages = "board" :> [BlankPage("greenhouse.io") EXCEPT !.board = "greenhouse", !.company = "Acme",
                                                                !.onBoard = AcmeSite, !.summary = Chatter]
                  @@ "gone" :> None @@ "own" :> None,
        !.sites = "acme.com" :> [BlankPage("acme.com") EXCEPT
                     !.about = [BlankPage("acme.com") EXCEPT !.summary = Makes, !.industry = "trade"]]]

\* Two jobs whose pages link to one profile at LinkedIn; one posting has structured
\* data.  A job of Built In, with evidence from there, and a
\* summary with none.  The company is stored.
Profiles ==
    [Empty EXCEPT
        !.jobs = <<[JobAt(Apply("first", None, Elsewhere), "Acme") EXCEPT !.website = Link, !.industry = "junk"],
                   JobAt(Apply("second", None, Elsewhere), "Acme"),
                   [Known(JobAt(Apply("builtin", "builtin", Elsewhere), "Acme"), "website", AcmeSite, "card", "builtin profile")
                      EXCEPT !.summary = Slogan]>>,
        !.pages = "first" :> [BlankPage("linkedin") EXCEPT !.profile = "linkedin profile", !.labelled = Picture,
                                 !.posting = [NoPosting EXCEPT !.website = Elsewhere, !.industry = "trade"]]
                  @@ "second" :> [BlankPage("linkedin") EXCEPT !.profile = "linkedin profile", !.summary = Mission]
                  @@ "linkedin profile" :> [BlankPage("linkedin") EXCEPT !.structured = Elsewhere, !.labelled = AcmeOld,
                                                                        !.facts = "software"]
                  @@ "builtin profile" :> [BlankPage("builtin profile") EXCEPT !.summary = Makes, !.industry = "junk"],
        !.profiles = {"linkedin profile", "builtin profile"},
        !.answers = "linkedin" :> Reads(Picture, Makes, "health", TRUE),
        !.store = Saved(EmptyStore(FALSE), "Acme",
                        RecordOf(Known(JobAt(Apply("own", None, Elsewhere), "Acme"), "summary", Mission, "board", "own")))]

\* Two jobs of Indeed, shown by the browser; one of another company.
IndeedJobs ==
    [Empty EXCEPT
        !.fetched = TRUE,
        !.jobs = <<JobAt(Apply("i1", "indeed", Link), "Acme"), JobAt(Apply("i2", "indeed", Link), "Zeta")>>,
        !.pages = "i1" :> [BlankPage("indeed") EXCEPT !.profile = "indeed profile", !.onBoard = AcmeJobs]
                  @@ "i2" :> [BlankPage("indeed") EXCEPT !.onBoard = AcmeSite, !.facts = "trade"]
                  @@ "indeed profile" :> [BlankPage("indeed") EXCEPT !.links = <<Link, AcmeSite>>, !.facts = "software"],
        !.profiles = {"indeed profile"},
        !.sites = "acme.com" :> [BlankPage("acme.com") EXCEPT !.summary = Makes],
        !.answers = "indeed" :> Reads(AcmeOld, Chatter, "trade", FALSE),
        !.searches = "Zeta" :> [BlankPage("zeta.com") EXCEPT !.labelled = Site("zeta.com", {"Zeta"}),
                                  !.summary = Summary("Zeta", TRUE, "trade"),
                                  !.about = [BlankPage("zeta.com") EXCEPT !.industry = "health"]]]

\* Nobody finds the company but a search; the store is in memory, and has an older
\* address under the same name.
Searches ==
    [Empty EXCEPT
        !.jobs = <<[JobAt(Apply("p", None, Elsewhere), "Acme") EXCEPT !.summary = Makes],
                   [Known(JobAt(Apply("q", None, Elsewhere), "Acme"), "industry", "trade", "company_profile", "q")
                      EXCEPT !.website = Link]>>,
        !.pages = "p" :> BlankPage("jobs.net") @@ "q" :> None,
        !.searches = "Acme" :> [BlankPage("acme.com") EXCEPT !.labelled = AcmeSite, !.summary = Mission],
        !.store = Saved(EmptyStore(TRUE), "Acme",
                        RecordOf(Known(JobAt(Apply("r", None, Elsewhere), "Acme"), "summary", Mission, "board", "r")))]

WorldsMC == {Empty, Postings, Profiles, IndeedJobs, Searches}
=============================================================================
