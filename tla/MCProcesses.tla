---- MODULE MCProcesses ----
EXTENDS ProcessClaims, ProcessRefinement
MCTicks == {-2, -1, 0, 1, 2}
MCStatuses == {0, 1}
====
