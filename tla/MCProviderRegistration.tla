----------------------- MODULE MCProviderRegistration -----------------------
(* Instances of ProviderRegistration. *)
EXTENDS ProviderRegistration
=============================================================================
