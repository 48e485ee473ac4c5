--------------------------- MODULE MCPingSchedule ---------------------------
EXTENDS PingSchedule, TLC
Symmetry == Permutations(Nodes)
=============================================================================
