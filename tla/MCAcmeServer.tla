---------------------------- MODULE MCAcmeServer ----------------------------
(* Instances of AcmeServer for TLC. *)
EXTENDS AcmeServer, TLC

CONSTANTS o1, z1, z2, c1, c2, c3, r1, r2

\* One order for two names, the first of which offers two challenges.
OneOrder == {o1}
TwoNames == {z1, z2}
ThreeChallenges == {c1, c2, c3}
Names == [z \in TwoNames |-> o1]
Offered == [c \in ThreeChallenges |-> IF c = c3 THEN z2 ELSE z1]

\* One order for one name, with two challenges.
OneName == {z1}
TwoChallenges == {c1, c2}
Name == [z \in OneName |-> o1]
OfferedBoth == [c \in TwoChallenges |-> z1]

TwoRequests == {r1, r2}
Alike == Permutations({r1, r2}) \cup Permutations({c1, c2})

=============================================================================
