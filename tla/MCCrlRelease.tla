--------------------------- MODULE MCCrlRelease ---------------------------
(* Instances of CrlRelease for TLC, with the code's own batch parameters. *)
EXTENDS CrlRelease

=============================================================================
