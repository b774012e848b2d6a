---------------------------- MODULE AcmeIssuance ----------------------------
(***************************************************************************)
(* From an order's names to a certificate: what the ACME server lets a     *)
(* client order (names and authorisation_for of acme/server.rs), how a     *)
(* challenge is validated (acme/validate.rs) and what is issued for a CSR  *)
(* (acme/issue.rs).  AcmeServer has the statuses in between, and orders    *)
(* and validations side by side: here is one order, a challenge at a time. *)
(*                                                                         *)
(* A name is a host or the wildcard under it, in its one spelling.  The    *)
(* client has the web server, the DNS zone or the TLS server of some       *)
(* hosts: only from there is the key authorisation ever answered.          *)
(***************************************************************************)
EXTENDS Naturals, FiniteSets

CONSTANTS
    Host,
    Control,        \* what the client has: pairs of a kind of challenge and a host
    Issuer,         \* configurations: permitted domains, challenges, lifetimes, the subordinate's end
    Period,         \* notBefore and notAfter an order may ask for, 0 for none
    MaxIdentifiers, \* MAX_IDENTIFIERS
    MaxRedirects,   \* MAX_REDIRECTS
    Backdate,       \* BACKDATE
    MaxNow          \* bound on time

Kind == {"http", "dns", "tls"}
Name == [host : Host, wild : BOOLEAN]

ASSUME IssuanceAssumption ==
    /\ Control \subseteq Kind \X Host
    /\ {MaxIdentifiers, MaxRedirects, Backdate, MaxNow} \subseteq Nat /\ Backdate <= MaxNow
    /\ \A i \in Issuer : /\ i.permitted \subseteq Host /\ i.challenges \subseteq Kind
                         /\ {i.days, i.maxDays, i.end} \subseteq Nat
    /\ Period \subseteq [from : Nat, to : Nat]

VARIABLES
    issuer,     \* Server::issuer
    order,      \* names, challenges offered for each, its authorisations, the period asked for
    task,       \* the validation: its kind and name, whom it asks now, how often it asked
    leaf,       \* the certificate issued since the last order was made, and by which issuer
    now

issuanceVars == <<issuer, order, task, leaf, now>>

NoOrder == [names |-> {}]
NoTask == [kind |-> "none"]
NoLeaf == [names |-> {}]
Status == {"pending", "valid", "invalid"}

IssuanceTypeOK ==
    /\ issuer \in Issuer /\ now \in Backdate..MaxNow
    /\ order # NoOrder => /\ order.names \subseteq Name
                          /\ order.authz \in [order.names -> Status]
                          /\ order.offered \in [order.names -> SUBSET Kind]
    /\ task # NoTask => /\ task.kind \in Kind /\ task.name \in order.names
                        /\ task.host \in Host /\ task.https \in BOOLEAN /\ task.asked \in 0..MaxRedirects + 1
    /\ leaf.names \subseteq Name

IssuanceInit ==
    /\ issuer \in Issuer /\ now = Backdate
    /\ order = NoOrder /\ task = NoTask /\ leaf = NoLeaf

-----------------------------------------------------------------------------
(* Orders *)

\* check_identifier, of which case, form and addresses are left out.
Permitted(n, i) == n.host \in i.permitted

\* authorisation_for: a wildcard only by dns-01.
ChallengesFor(n, i) == {k \in i.challenges : n.wild => k = "dns"}

CreateOrder(names, period) ==
    /\ order = NoOrder /\ Cardinality(names) \in 1..MaxIdentifiers
    /\ \A n \in names : Permitted(n, issuer) /\ ChallengesFor(n, issuer) # {}
    /\ order' = [names |-> names, period |-> period, authz |-> [n \in names |-> "pending"],
                 offered |-> [n \in names |-> ChallengesFor(n, issuer)]]
    /\ leaf' = NoLeaf
    /\ UNCHANGED <<issuer, task, now>>

\* An order that failed, or that the client leaves.
LeaveOrder ==
    /\ order # NoOrder /\ task = NoTask /\ order' = NoOrder
    /\ UNCHANGED <<issuer, task, leaf, now>>

-----------------------------------------------------------------------------
(* Validation *)

StartValidation(n, kind) ==
    /\ task = NoTask /\ n \in order.names
    /\ order.authz[n] = "pending" /\ kind \in order.offered[n]
    /\ task' = [kind |-> kind, name |-> n, host |-> n.host, https |-> FALSE, asked |-> 0]
    /\ UNCHANGED <<issuer, order, leaf, now>>

Ends(valid) ==
    /\ order' = [order EXCEPT !.authz[task.name] = IF valid THEN "valid" ELSE "invalid"]
    /\ task' = NoTask

\* Where a server sends the request on.
Location ==
    [scheme : {"path", "relative"}]
    \cup [scheme : {"http", "https", "ftp"}, host : Host \cup {"address"}, port : {"none", "own", "other"}]

\* Those that are not the client's do not send it to the client's.
Redirects(host) ==
    {l \in Location : l.scheme \in {"http", "https", "ftp"} /\ <<"http", l.host>> \in Control
                          => <<"http", host>> \in Control}

Target(t, l) == IF l.scheme = "path" THEN t ELSE [t EXCEPT !.host = l.host, !.https = l.scheme = "https"]

\* redirect: a path, or a DNS name over http or https on its own port.
Follows(l) ==
    \/ l.scheme = "path"
    \/ l.scheme \in {"http", "https"} /\ l.port # "other" /\ l.host \in Host

Asked(n) == n + 1

\* http_01: one request; its answer may be a redirect.
Http01 ==
    /\ task.kind = "http"
    /\ \/ <<"http", task.host>> \in Control /\ Ends(TRUE)
       \/ Ends(FALSE)
       \/ \E l \in Redirects(task.host) :
             IF Follows(l) /\ Asked(task.asked) <= MaxRedirects
             THEN task' = [Target(task, l) EXCEPT !.asked = Asked(@)] /\ UNCHANGED order
             ELSE Ends(FALSE)
    /\ UNCHANGED <<issuer, leaf, now>>

\* dns_01: the records of the host, or of the host under the wildcard.
Dns01 ==
    /\ task.kind = "dns"
    /\ \E found \in SUBSET {"digest", "other"} :
        /\ "digest" \in found => <<"dns", task.host>> \in Control
        /\ Ends("digest" \in found)
    /\ UNCHANGED <<issuer, leaf, now>>

\* What a TLS server presents, and check_validation_certificate of it.
Presented == [alpn : BOOLEAN, onlyName : BOOLEAN, critical : BOOLEAN, digest : BOOLEAN]
Checked(c) == c.alpn /\ c.onlyName /\ c.critical /\ c.digest

TlsAlpn01 ==
    /\ task.kind = "tls"
    /\ \E c \in Presented : (c.digest => <<"tls", task.host>> \in Control) /\ Ends(Checked(c))
    /\ UNCHANGED <<issuer, leaf, now>>

\* validate: no answer in time.
TimesOut ==
    /\ task # NoTask /\ Ends(FALSE)
    /\ UNCHANGED <<issuer, leaf, now>>

-----------------------------------------------------------------------------
(* Issuance *)

\* requested_names: each one the broker may issue for now.
RequestedNames(asked) == asked # {} /\ \A n \in asked : Permitted(n, issuer)

\* Mutant: the CSR may name more.
NamesAtLeast(asked) == order.names \subseteq asked

NamesMatch(asked) == asked = order.names

Least(S) == CHOOSE t \in S : \A u \in S : t <= u

\* validity: capped by the longest and by the subordinate's own end.
NotAfter(from) ==
    Least({IF order.period.to # 0 THEN order.period.to ELSE from + issuer.days,
           from + issuer.maxDays, issuer.end})

NotBefore == IF order.period.from > now - Backdate THEN order.period.from ELSE now - Backdate

\* finalise and issue; a refusal leaves the order ready.
Finalise(asked) ==
    /\ order # NoOrder /\ task = NoTask /\ \A n \in order.names : order.authz[n] = "valid"
    /\ RequestedNames(asked) /\ NamesMatch(asked)
    /\ NotAfter(NotBefore) > NotBefore
    /\ leaf' = [names |-> asked, from |-> NotBefore, to |-> NotAfter(NotBefore), by |-> issuer]
    /\ order' = NoOrder
    /\ UNCHANGED <<issuer, task, now>>

\* set_issuer, after a renewal, another enrolment or a restore.
SetIssuer(i) ==
    /\ i # issuer /\ issuer' = i
    /\ UNCHANGED <<order, task, leaf, now>>

TimePasses ==
    /\ now < MaxNow /\ now' = now + 1
    /\ UNCHANGED <<issuer, order, task, leaf>>

Answers == Http01 \/ Dns01 \/ TlsAlpn01

IssuanceNext ==
    \/ Answers \/ TimesOut \/ LeaveOrder \/ TimePasses
    \/ \E i \in Issuer : SetIssuer(i)
    \/ \E names \in SUBSET Name : Finalise(names) \/ \E p \in Period : CreateOrder(names, p)
    \/ \E n \in Name, k \in Kind : StartValidation(n, k)

-----------------------------------------------------------------------------
(* Properties *)

\* Every name was in the client's control: a wildcard's by DNS.
NamesProven ==
    \A n \in leaf.names : IF n.wild THEN <<"dns", n.host>> \in Control
                                  ELSE \E k \in Kind : <<k, n.host>> \in Control

(* A certificate is issued only for names its client controls and the      *)
(* subordinate that signs it permits, for no longer than that subordinate  *)
(* allows or lasts, however the subordinate or its domains changed between *)
(* the order and its CSR.                                                  *)
IssuedRightly ==
    /\ NamesProven
    /\ leaf # NoLeaf => /\ \A n \in leaf.names : Permitted(n, leaf.by)
                        /\ leaf.from < leaf.to /\ leaf.to <= leaf.by.end
                        /\ leaf.to <= leaf.from + leaf.by.maxDays

=============================================================================
