-------------------------- MODULE MCProviderServe ---------------------------
(* Instances of ProviderServe: interchangeable workers and calls. *)
EXTENDS ProviderServe, TLC

Symmetry == Permutations(Workers) \cup Permutations(Calls)
=============================================================================
