------------------------ MODULE MCDiscoveryPipeline -------------------------
EXTENDS DiscoveryPipeline, TLC

CONSTANTS w1, w2, j1, j2, j3, ip1, ip2

Symmetry == Permutations({w1, w2}) \cup Permutations({j1, j2, j3})

Everything == AllChanges

BothSources == {"inventory", "scans"}

BothRuns == {"sync", "sweep"}
=============================================================================
