---------------------------- MODULE OrderPromise ----------------------------
(***************************************************************************)
(* What the ACME server promises of an order whatever requests, proofs and *)
(* restarts there are: it is made, its names are proven one at a time,     *)
(* it is ready from the moment the last of them is, and a certificate is   *)
(* issued only then.  A proof can be lost, which ends every order that is  *)
(* still open and relied on it; issued and ended orders stay that way.     *)
(* AcmeServer is shown to implement this (AcmeServer!KeepsPromise).        *)
(***************************************************************************)
EXTENDS Naturals

CONSTANTS Order, Name,
          OrderOf       \* by name: the order that asks for it

VARIABLES phase,        \* by order: none, open, ready, issued or ended
          proven        \* names whose control is proven

NamesOf(o) == {n \in Name : OrderOf[n] = o}

Init == phase = [o \in Order |-> "none"] /\ proven = {}

Make(o) ==
    /\ phase[o] = "none"
    /\ phase' = [phase EXCEPT ![o] = "open"]
    /\ UNCHANGED proven

\* The order is ready with its last name.
Prove(n) ==
    LET o == OrderOf[n] IN
    /\ n \notin proven /\ phase[o] # "none"
    /\ proven' = proven \cup {n}
    /\ phase' = [phase EXCEPT ![o] = IF @ = "open" /\ NamesOf(o) \subseteq proven'
                                     THEN "ready" ELSE @]

\* Names lost end the orders that are not issued yet; so do failures and time.
Lose(names, orders) ==
    /\ names \subseteq proven
    /\ \A o \in orders : phase[o] \in {"open", "ready"}
    /\ \A n \in names : phase[OrderOf[n]] \in {"open", "ready"} => OrderOf[n] \in orders
    /\ proven' = proven \ names
    /\ phase' = [o \in Order |-> IF o \in orders THEN "ended" ELSE phase[o]]

Issue(o) ==
    /\ phase[o] = "ready" /\ NamesOf(o) \subseteq proven
    /\ phase' = [phase EXCEPT ![o] = "issued"]
    /\ UNCHANGED proven

Next ==
    \/ \E o \in Order : Make(o) \/ Issue(o)
    \/ \E n \in Name : Prove(n)
    \/ \E names \in SUBSET Name, orders \in SUBSET Order : Lose(names, orders)

Spec == Init /\ [][Next]_<<phase, proven>>

=============================================================================
