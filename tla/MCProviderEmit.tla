----------------------------- MODULE MCProviderEmit -----------------------------
(* Instances of ProviderEmit for TLC. *)
EXTENDS ProviderEmit, TLC
=============================================================================
