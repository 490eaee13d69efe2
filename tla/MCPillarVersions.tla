-------------------------- MODULE MCPillarVersions --------------------------
EXTENDS PillarVersions, TLC
Perms == Permutations(Leaves) \cup Permutations(Values) \cup Permutations(Requests)
=============================================================================
