----------------------------- MODULE MCCommands -----------------------------
(* Instances of Commands for TLC. *)
EXTENDS Commands, TLC

TwoNames == 1..2
Areas == {"csr", "dkim", "openvpn", "profiles", "cert", "marks", "ca", "session", "schema", "copies",
          "watch"}
Symmetric == Permutations(Vault)

=============================================================================
