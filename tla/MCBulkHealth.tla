---------------------------- MODULE MCBulkHealth ----------------------------
\* HealthRefresh in four worlds.  Commands: three jobs, one without a website;
\* OneName gives every job a company of its own, TwoNames has a company with two
\* keys, as when only one of its jobs has a website.  Evidence: one lookup, whose
\* sources answer with everything that makes a difference.  Sharing: two lookups
\* of one company, whose sources tell little.  Model: two callers of the language
\* model, with every kind of credential.
EXTENDS HealthRefresh, TLC

CONSTANTS j1, j2, j3, l1, l2

JobsMC == {j1, j2, j3}
NamelessMC == {j1}
WatchedMC == {j1, j2}
OneName == [j \in JobsMC |-> j]
TwoNames == [j \in JobsMC |-> IF j = j3 THEN j3 ELSE j2]
CompaniesMC == {OneName, TwoNames}
SharedNames == {TwoNames}

Way(one, force, llm) == [single |-> one, force |-> force, llm |-> llm]
Identity(website, year, staff) ==
    [website |-> website, industry |-> TRUE, techName |-> TRUE, aiName |-> FALSE,
     ticker |-> FALSE, year |-> year, staff |-> staff]
Profile(year, staff, review) == [year |-> year, staff |-> staff, review |-> review]
Review(url, rating, recommend, ceo) ==
    [url |-> url, rating |-> rating, recommend |-> recommend, ceo |-> ceo]
Site(year, staff, registered, profiles) ==
    [website |-> TRUE, industry |-> TRUE, year |-> year, staff |-> staff,
     registered |-> registered, profiles |-> profiles]
NoPage == [found |-> FALSE]
Page(year, staff, facts, industry) ==
    [found |-> TRUE, techText |-> TRUE, aiTitle |-> FALSE, industry |-> industry,
     year |-> year, staff |-> staff, facts |-> facts]
Claim(value, rank, asOf) == [value |-> value, rank |-> rank, asOf |-> asOf]
Facts(years, staff, tickers) == [years |-> years, staff |-> staff, tickers |-> tickers]
Filing(staff, terms, filings) ==
    [answer |-> "filed", staff |-> staff, terms |-> terms, filings |-> filings, exchange |-> TRUE]
Item(about, bad, good, url) ==
    [about |-> about, bad |-> bad, good |-> good, discussed |-> TRUE, lastYear |-> TRUE, url |-> url]
Layoff(about, count, days, url) ==
    [about |-> about, count |-> count, days |-> days, lastYear |-> TRUE, url |-> url]
Model(modifier, novel) == [related |-> {"u1", "u2"}, modifier |-> modifier, sources |-> {"u1"}, novel |-> novel]

CommandWorld ==
    [who |-> {}, starts |-> 0, ways |-> {}, ids |-> {}, sites |-> {}, pages |-> {}, registrations |-> {}, filings |-> {},
     talks |-> {}, news |-> {}, headlines |-> {}, listed |-> {}, stocks |-> {}, reviews |-> {},
     models |-> {}]

EvidenceWorld ==
    [who |-> {l1},
     starts |-> 1,
     ways |-> {Way(TRUE, TRUE, TRUE)},
     ids |-> {Identity(TRUE, None, 300), Identity(TRUE, 2001, None)},
     sites |-> {NoSite,
                Site(None, 0, None, <<Profile(2001, 900, None)>>),
                Site(None, None, 2020, <<Profile(2001, 1, Review("v1", 25, 40, 40)), Profile(2001, 900, None)>>)},
     pages |-> {NoPage,
                Page(2001, 900, None, FALSE),
                Page(2020, 300, Facts(<<Claim(2001, "normal", 0), Claim(2002, "preferred", 0)>>,
                                      <<Claim(900, "normal", 1), Claim(1, "normal", 2)>>,
                                      <<Claim("T", "deprecated", 0)>>), TRUE),
                Page(None, 1, Facts(<<>>, <<>>, <<Claim("T", "normal", 0)>>), TRUE)},
     registrations |-> {None, 2001},
     filings |-> {[answer |-> "unknown"], [answer |-> "listed"],
                  Filing(900, 3, "recent"), Filing(300, 0, "old")},
     talks |-> {<<>>, <<Item("name", TRUE, FALSE, "u1"), Item("other", TRUE, FALSE, "u3")>>},
     news |-> {<<Item("name", {}, {"g1"}, "u2"), Item("business", {}, {"g2"}, "u4")>>,
               <<Item("domain", {"b1", "b2"}, {}, "u1"), Item("name", {"b2", "b3"}, {}, "u2")>>},
     headlines |-> {<<>>, <<Layoff("name", 100, 20, "u2")>>},
     listed |-> {<<>>, <<Layoff("name", 1000, 60, "u2"), Layoff("name", 1000, None, "u5")>>},
     stocks |-> {[drop |-> 90, change |-> -10], [drop |-> 10, change |-> -50]},
     reviews |-> {<<>>, <<Review("v2", 45, 90, None)>>},
     models |-> {Model(20, TRUE), Model(-5, TRUE)}]

SharingWorld ==
    [EvidenceWorld EXCEPT
        !.who = {l1, l2},
        !.starts = 3,
        !.ways = {Way(TRUE, FALSE, TRUE), Way(FALSE, FALSE, TRUE)},
        !.ids = {Identity(TRUE, 2001, 300), [Identity(FALSE, 2001, 300) EXCEPT !.industry = FALSE]},
        !.sites = {NoSite},
        !.pages = {NoPage},
        !.registrations = {None},
        !.filings = {[answer |-> "unavailable"]},
        !.talks = {<<Item("name", TRUE, FALSE, "u1")>>},
        !.news = {None},
        !.headlines = {<<Layoff("name", 30, 20, "u1")>>},
        !.listed = {<<>>},
        !.reviews = {<<>>},
        !.models = {Model(8, TRUE)}]

WorldsMC == {CommandWorld, EvidenceWorld, SharingWorld}
CommandWorlds == {CommandWorld}

File(provider, top, own) ==
    [provider |-> provider, first |-> "openai", top |-> top,
     own |-> [p \in Providers |-> IF p = provider \/ provider = "auto" THEN own ELSE NoAuth]]
Auth(mode, value) == [NoAuth EXCEPT !.mode = mode, !.value = value]
Shell(openai, own) ==
    "OPENAI_API_KEY" :> openai @@ "GEMINI_API_KEY" :> "g" @@ "OWN_KEY" :> own
NoAccess == [callers |-> {}, limit |-> 0, files |-> {}, environments |-> {Shell(Unset, Unset)}]
SharedAccess ==
    [callers |-> {l1, l2},
     limit |-> 3,
     files |-> {File("openai", FromEnvironment("GEMINI_API_KEY"), NoAuth),
                File("auto", FromEnvironment("GEMINI_API_KEY"), NoAuth),
                File("gemini", Auth("literal", "k1"), NoAuth),
                File("gemini", NoAuth, FromEnvironment("OWN_KEY")),
                File("openai", NoAuth, Auth("literal", "k1")),
                File("openai", NoAuth, Auth("command", "k2")),
                File("openai", NoAuth, Auth("command", "")),
                File("ollama", NoAuth, NoAuth),
                File("ollama", NoAuth, Auth("literal", "k1"))},
     environments |-> {Shell(Unset, Unset), Shell("o", "m"), Shell("", "m")}]
CredentialsMC == {"k1", "k2", "o", "g", "m"}
AccessesMC == {NoAccess, SharedAccess}
NoAccesses == {NoAccess}
=============================================================================
