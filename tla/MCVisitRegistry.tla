-------------------------- MODULE MCVisitRegistry --------------------------
\* VisitRegistry on one URL, three requests and one enrichment batch.
EXTENDS VisitRegistry

CONSTANTS u1, c1, c2, c3, b1

UrlsMC == {u1}
CallsMC == {c1, c2, c3}
BatchesMC == {b1}

=============================================================================
