--------------------------- MODULE MCToolExecutor ---------------------------
(* Instances of ToolExecutor: two overlapping attempts of one call, and one *)
(* of a call whose tool the executors do not know.                          *)
EXTENDS ToolExecutor

CONSTANTS a1, a2, a3, c1, c2

TwoOfOne == [a \in {a1, a2, a3} |-> IF a = a3 THEN c2 ELSE c1]
=============================================================================
