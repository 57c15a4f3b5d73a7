---------------------------- MODULE MCTaskSlot ----------------------------
\* TaskSlot on two tasks that work on one job, with channels of one place.
EXTENDS TaskSlot

CONSTANTS j1, full

JobsMC == {j1}
ResultsMC == {full}
FullMC == {full}

=============================================================================
