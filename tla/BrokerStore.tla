----------------------------- MODULE BrokerStore -----------------------------
(***************************************************************************)
(* The broker's acme.db.  Its accounts and its certificates are written by *)
(* different transactions, and of the steps on certificates those of the   *)
(* CRL change nothing that opCA's pages read, and reading changes nothing  *)
(* for the CRL: each part is checked without the steps of the others.      *)
(***************************************************************************)
EXTENDS BrokerLedger, AcmeAccounts, AcmeIssuance

VARIABLE part

storeVars == <<ledgerVars, accountVars, issuanceVars, part>>

Init ==
    /\ part \in {"accounts", "issuance", "crl", "sync"}
    /\ LedgerInit(IF part = "crl" THEN Leaf ELSE {})
    /\ AccountsInit
    /\ IssuanceInit /\ (part # "issuance" => issuer = CHOOSE i \in Issuer : TRUE)

LedgerNext ==
    \/ SharedNext
    \/ part = "crl" /\ CrlNext
    \/ part = "sync" /\ SyncNext

Next ==
    /\ UNCHANGED part
    /\ \/ part = "accounts" /\ AccountsNext /\ UNCHANGED <<ledgerVars, issuanceVars>>
       \/ part = "issuance" /\ IssuanceNext /\ UNCHANGED <<ledgerVars, accountVars>>
       \/ part \in {"crl", "sync"} /\ LedgerNext /\ UNCHANGED <<accountVars, issuanceVars>>

\* The runtime runs each task of the CRL that can go on, and time passes.
InCrl(A) == part = "crl" /\ A /\ UNCHANGED <<accountVars, issuanceVars, part>>
Fairness ==
    /\ WF_storeVars(InCrl(KeeperLooks)) /\ WF_storeVars(InCrl(Ages))
    /\ SF_storeVars(InCrl(KeeperSigns)) /\ SF_storeVars(InCrl(RevokingSigns))
    /\ \A w \in Signer : WF_storeVars(InCrl(NextCrlNumber(w))) /\ WF_storeVars(InCrl(SignCrl(w)))

Spec == Init /\ [][Next]_storeVars /\ Fairness

(* The published CRL comes to have every revoked certificate, although     *)
(* signatures fail and the process may end between the revocation's commit *)
(* and the signature: refresh_crl keeps the force of a failed attempt, and *)
(* signs anew when the CRL on disk has three days left.                    *)
RevocationPublished ==
    part = "crl" /\ ~(Revoked \subseteq crl.list) ~> Revoked \subseteq crl.list

=============================================================================
