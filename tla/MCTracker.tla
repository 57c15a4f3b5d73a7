---------------------------- MODULE MCTracker ----------------------------
\* Two jobs and one background task, without incidents; and one job and two tasks
\* that overlap, with one incident.
EXTENDS Tracker, TLC

CONSTANTS k1, k2

KeysMC == {k1, k2}
StatusesMC == {"Unopened", "Applied", "Expired"}
EditedMC == {[key |-> k, status |-> "Applied", info |-> "full"] : k \in KeysMC}
Wide == [keys |-> KeysMC, tasks |-> 1, incidents |-> 0]
ScopesMC == {Wide} \cup {[keys |-> {k}, tasks |-> 2, incidents |-> 1] : k \in KeysMC}
WideMC == {Wide}
Symmetry == Permutations(KeysMC)

=============================================================================
