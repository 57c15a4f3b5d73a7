------------------------------- MODULE MCFetch ------------------------------
\* Seven configurations: two Built In pages that share a company profile; three
\* browser searches, two of one host; a page of links and the language model; a feed
\* and a browser search in two fetches; the language model alone in two, beside
\* enrichment; a feed and the filter with a batch; a feed whose listing gets its
\* description from the cache, in two fetches with the filter.
EXTENDS Fetch

ListingsMC == {"a1", "a2", "b1", "b2", "m1", "w2"}
KeyOfMC == [l \in ListingsMC |-> IF l \in {"a1", "a2", "m1"} THEN "a" ELSE "b"]
\* All listings of "b" fit "y"; under "x" it depends on the listing.
CriteriaMC == {"x", "y"}
FitsMC == [c \in CriteriaMC |-> IF c = "x" THEN {"a1", "b1", "m1"} ELSE {"a2", "b1", "b2", "w2"}]

TasksMC == {"card1", "card2", "links1", "page1", "page2", "page3"}
SiteOfMC == [t \in TasksMC |->
    CASE t \in {"card1", "card2", "links1"} -> "builtin"
      [] t \in {"page1", "page2"} -> "board"
      [] t = "page3" -> "jobs"]
HostOfMC == SiteOfMC
KindOfMC == [t \in TasksMC |->
    CASE t \in {"card1", "card2"} -> "cards"
      [] t = "links1" -> "links"
      [] OTHER -> "browser"]
FeedsMC == {"rss", "api", "list"}
PostedMC == [s \in TasksMC \cup FeedsMC \cup {"llm", "web"} |->
    CASE s = "llm" -> {"m1"}
      [] s = "web" -> {"w2"}
      [] s \in {"card2", "page2"} -> {"a1"}
      [] s = "page3" -> {"b1"}
      [] s = "rss" -> {"a2"}
      [] s = "api" -> {"a1", "b1"}
      [] s = "list" -> {"b2"}
      [] s = "links1" -> {"b1"}
      [] OTHER -> {"a1", "b2"}]
SavedAtFirstMC == {"a"}
ProfilesMC == {"acme", "bolt"}
\* A page may name a posting of either kind by one company and title, and the address
\* of "b1" may lead to "a1".
CaptionMC == [l \in ListingsMC |-> IF l \in {"a1", "b2"} THEN "engineer" ELSE l]
ElsewhereMC == [l \in ListingsMC |-> IF l = "b1" THEN "a1" ELSE l]
ProfileOfMC == [l \in ListingsMC |-> IF KeyOfMC[l] = "a" THEN "acme" ELSE "bolt"]

Plan(T, f, llm, sources, searches, n, enriches) ==
    [tasks |-> T, feeds |-> f, llm |-> llm, sources |-> sources, searches |-> searches,
     fetches |-> n, enriches |-> enriches]
ByX == {"x", Unfiltered}
ByBoth == {"x", "y"}
PlansMC == {Plan({"card1", "card2"}, {}, FALSE, TRUE, ByX, 1, FALSE),
            Plan({"page1", "page2", "page3"}, {}, FALSE, TRUE, ByX, 1, FALSE),
            Plan({"links1"}, {}, TRUE, TRUE, ByX, 1, FALSE),
            Plan({"page3"}, {"rss"}, FALSE, TRUE, ByBoth, 2, FALSE),
            Plan({}, {}, TRUE, FALSE, {"x"}, 2, TRUE),
            Plan({}, {"api"}, TRUE, TRUE, ByX, 1, FALSE),
            Plan({}, {"list"}, TRUE, TRUE, {"y"}, 2, FALSE)}

Shown(source, weak, complete, size) ==
    [source |-> source, weak |-> weak, complete |-> complete, size |-> size]
DetailsMC == [l \in ListingsMC |->
    CASE l = "m1" -> Shown("llm", FALSE, {}, 1)
      [] l = "w2" -> Shown("llm_web", FALSE, {}, 1)
      [] l = "a1" -> Shown("api", FALSE, {}, 1)
      [] l = "b1" -> Shown("api", FALSE, {Unfiltered}, 1)
      [] l = "a2" -> Shown("rss", FALSE, {}, 3)
      [] l = "b2" -> Shown("api", FALSE, {}, 2)]
DescriptionMC == [l \in ListingsMC |-> IF l = "b2" THEN "none" ELSE IF l = "a2" THEN "short" ELSE "long"]

\* Up to five jobs, in all orders.
ASSUME BatchesMC == \A S \in SUBSET ListingsMC : Cardinality(S) <= 5 => \A jobs \in SetToSeqs(S) : BatchesAreSound(jobs)
=============================================================================
