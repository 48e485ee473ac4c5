-------------------------- MODULE MCToolsetCatalog --------------------------
(* Model-checking instances of ToolsetCatalog. *)
EXTENDS ToolsetCatalog, TLC

CONSTANTS t1, t2, l1, l2, h1, h2

MCTokens == {t1, t2}
MCLeases == {l1, l2}
MCHandlers == {h1, h2}

\* A rollout: each provider incarnation registers one admission.
Rollout == {<<t1, l1>>, <<t2, l2>>}
\* Every provider registers every admission.
AnyProvider == MCTokens \X MCLeases

HandlerSymmetry == Permutations(MCHandlers)
ProviderSymmetry == Permutations(MCHandlers) \cup Permutations(MCLeases)
=============================================================================
