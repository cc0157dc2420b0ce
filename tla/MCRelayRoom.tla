---------------------------- MODULE MCRelayRoom ----------------------------
EXTENDS RelayRoom, TLC

CONSTANTS s1, s2, g1, g2

Symmetries == Permutations({s1, s2})
=============================================================================
