-------------------------- MODULE MCProviderConfig --------------------------
(* A small instance of the ProviderConfig controller. *)
EXTENDS ProviderConfig

CONSTANTS w1, s1, u1
=============================================================================
