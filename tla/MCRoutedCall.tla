---------------------------- MODULE MCRoutedCall ----------------------------
(* Model-checking instances of RoutedCall. *)
EXTENDS RoutedCall, TLC

CONSTANTS t1, t2, l1, l2, c1, c2, k1, k2, s1, s2, r1, d1, d2

CallSymmetry ==
    UNION {Permutations(S) : S \in {Scanners, Callers, Tokens, Leases, Digests}}
=============================================================================
