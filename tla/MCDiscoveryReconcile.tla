------------------------ MODULE MCDiscoveryReconcile ------------------------
EXTENDS DiscoveryReconcile, TLC

CONSTANTS w1, w2, j1, j2, j3, ip1, ip2

Symmetry == Permutations({w1, w2}) \cup Permutations({j1, j2, j3})

OneStaged == {ip1}

\* The faults the workflow is told of.
ReportedFaults == {"sources", "list", "put", "remove", "poll", "error", "crash", "lapse"}

\* The errors the vendor client hides from the workflow.
SwallowedList == {"list swallowed"}

Everything == AllChanges

DataChanges == {"inventory", "scans", "foreign"}
=============================================================================
