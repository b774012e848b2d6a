----------------------------- MODULE MCCaStore -----------------------------
(* Instances of CaStore for TLC. *)
EXTENDS CaStore

=============================================================================
