---------------------------- MODULE MCVaultLock ----------------------------
(* Instances of VaultLock for TLC. *)
EXTENDS VaultLock, TLC

CONSTANTS a, b, c

\* One operation at a time in every process, as the command line runs them.
TwoOps == {a, b}
OwnProcess2 == [o \in TwoOps |-> o]

Symmetry2 == Permutations(TwoOps)

=============================================================================
