---------------------------- MODULE MCBrokerStore ----------------------------
(* Instances of BrokerStore for TLC. *)
EXTENDS BrokerStore

Two == 1..2
Clients == {"c", "d"}

\* The client has one host's web server, and the other's TLS server and zone.
Hosts == {"a", "b"}
Controls == {<<"http", "a">>, <<"tls", "b">>, <<"dns", "b">>}
Issuers ==
    {[permitted |-> Hosts, challenges |-> Kind, days |-> 2, maxDays |-> 3, end |-> 6],
     [permitted |-> {"b"}, challenges |-> {"http", "tls"}, days |-> 2, maxDays |-> 2, end |-> 2]}
Periods == {[from |-> 0, to |-> 0], [from |-> 3, to |-> 0], [from |-> 0, to |-> 2], [from |-> 0, to |-> 9]}

=============================================================================
