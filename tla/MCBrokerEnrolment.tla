------------------------- MODULE MCBrokerEnrolment -------------------------
(* Instances of BrokerEnrolment for TLC. *)
EXTENDS BrokerEnrolment

CONSTANTS d1, d2

TwoDomains == {d1, d2}
NoneOrOther == {None, d2}

=============================================================================
