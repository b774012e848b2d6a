---------------------------- MODULE BrokerLedger ----------------------------
(***************************************************************************)
(* The certificates a broker has issued, in its acme.db (acme/store.rs):   *)
(* the CRL it signs of them (pki.rs), the pages of them that opCA fetches  *)
(* (opca-core, services/acme_broker/mod.rs), and the restore of a backup   *)
(* under all that.  A transaction is one step.  The task that keeps the    *)
(* CRL fresh and a revocation for opCA sign under one mutex; opCA makes    *)
(* one call at a time, since each of its commands has the vault lock.      *)
(***************************************************************************)
EXTENDS Integers, FiniteSets

CONSTANTS
    Leaf,           \* the certificates, each issued at most once
    Page,           \* certificates in a page
    MaxRestore,     \* bound on restores
    MaxLedgerFault, \* bound on failing signatures, lost calls and deaths of the process
    EmptyBackup     \* TRUE: a backup may be of a broker that had issued nothing

ASSUME LedgerAssumption ==
    /\ IsFiniteSet(Leaf) /\ Leaf \subseteq Nat \ {0} /\ Page \in Nat \ {0}
    /\ {MaxRestore, MaxLedgerFault} \subseteq Nat /\ EmptyBackup \in BOOLEAN

VARIABLES
    acme,       \* acme.db: the certificates, when each last changed, the CRL number
    issued,     \* every certificate ever issued
    backup,     \* a copy of acme.db
    crl,        \* leaves.crl on disk
    late,       \* signed CRLs whose writing timed out, waiting for the state's lock
    stale,      \* Published::stale
    keeper,     \* where keep_crl_fresh is, and whether it is forced
    revoking,   \* where revoke_leaf is
    signing,    \* of each signer, the list it read and the number it took
    rows,       \* opCA's broker_certs
    call,       \* opCA's call
    restores, ledgerFaults

pki == <<crl, late>>
broker == <<acme, issued, backup, pki, stale, keeper, revoking, signing, restores>>
ledgerVars == <<broker, rows, call, ledgerFaults>>

State == {"none", "good", "revoked"}
NoRow == [state |-> "none", changed |-> 0]
Row == [state : State, changed : Nat]
Signer == {"keeper", "opca"}
NoSign == [at |-> "none", list |-> {}, number |-> 0]
NoCall == [at |-> "idle", after |-> 0, got |-> [l \in Leaf |-> NoRow], leaf |-> 0]

Highest(S) == CHOOSE n \in S \cup {0} : \A k \in S : k <= n
LastChange(certs) == Highest({certs[l].changed : l \in Leaf})
Revoked == {l \in Leaf : acme.certs[l].state = "revoked"}

LedgerTypeOK ==
    /\ acme \in [certs : [Leaf -> Row], number : Nat] /\ issued \subseteq Leaf
    /\ crl \in [number : Nat, list : SUBSET Leaf, old : BOOLEAN] /\ stale \in BOOLEAN
    /\ late \subseteq [number : Nat, list : SUBSET Leaf]
    /\ keeper \in [at : {"wait", "lock", "sign"}, force : BOOLEAN]
    /\ revoking \in {"idle", "lock", "sign"}
    /\ signing \in [Signer -> [at : {"none", "read", "numbered"}, list : SUBSET Leaf, number : Nat]]
    /\ \A l \in Leaf : (acme.certs[l].state = "none") = (acme.certs[l].changed = 0)
    /\ rows \in [Leaf -> Row]
    /\ call.at \in {"idle", "asked", "waiting", "answered", "page", "record"}

\* A broker that has issued S, one after the other.
LedgerInit(S) ==
    /\ acme = [certs |-> [l \in Leaf |-> IF l \in S THEN [state |-> "good", changed |-> l] ELSE NoRow],
               number |-> 0]
    /\ issued = S /\ backup = acme /\ restores = 0 /\ ledgerFaults = 0
    /\ crl = [number |-> 0, list |-> {}, old |-> TRUE] /\ late = {} /\ stale = FALSE
    /\ keeper = [at |-> "wait", force |-> FALSE] /\ revoking = "idle" /\ signing = [w \in Signer |-> NoSign]
    /\ rows = [l \in Leaf |-> NoRow] /\ call = NoCall

Fault == ledgerFaults < MaxLedgerFault /\ ledgerFaults' = ledgerFaults + 1

\* Each change of a certificate takes the next number.
Changed(l, state) ==
    [acme EXCEPT !.certs[l] = [state |-> state, changed |-> LastChange(acme.certs) + 1]]

\* record_certificate (AcmeServer has the order it is for).
RecordCertificate(l) ==
    /\ l \notin issued /\ issued' = issued \cup {l}
    /\ acme' = Changed(l, "good")
    /\ UNCHANGED <<backup, pki, stale, keeper, revoking, signing, rows, call, restores, ledgerFaults>>

-----------------------------------------------------------------------------
(* The CRL *)

\* The ACME client revokes; the process may end between the commit and resign.
Revoke(l) ==
    /\ acme.certs[l].state = "good"
    /\ acme' = Changed(l, "revoked")
    /\ \/ stale' = TRUE /\ UNCHANGED ledgerFaults
       \/ Fault /\ UNCHANGED stale
    /\ UNCHANGED <<issued, backup, pki, keeper, revoking, signing, rows, call, restores>>

\* An hour, a minute, or a call of `due` later.
KeeperLooks ==
    /\ keeper.at = "wait"
    /\ keeper' = [at |-> "lock", force |-> stale] /\ stale' = FALSE
    /\ UNCHANGED <<acme, issued, backup, pki, revoking, signing, rows, call, restores, ledgerFaults>>

\* Mutant: a signature does not wait for the other.
NoTurns == TRUE

\* Published::signing is a mutex.
OneAtATime == \A w \in Signer : signing[w] = NoSign

\* revoked_unexpired: all of them.
RevokedUnexpired == Revoked

Reads(w) == signing' = [signing EXCEPT ![w] = [NoSign EXCEPT !.at = "read", !.list = RevokedUnexpired]]

\* Mutant: only what forces a signature brings one.
ForcedOnly == keeper.force

Wanted == keeper.force \/ crl.old

\* refresh_crl: signed when forced, or when the one on disk runs out.
KeeperSigns ==
    /\ keeper.at = "lock" /\ OneAtATime
    /\ IF Wanted
       THEN Reads("keeper") /\ keeper' = [keeper EXCEPT !.at = "sign"]
       ELSE keeper' = [keeper EXCEPT !.at = "wait"] /\ UNCHANGED signing
    /\ UNCHANGED <<acme, issued, backup, pki, stale, revoking, rows, call, restores, ledgerFaults>>

RevokingSigns ==
    /\ revoking = "lock" /\ OneAtATime
    /\ Reads("opca") /\ revoking' = "sign"
    /\ UNCHANGED <<acme, issued, backup, pki, stale, keeper, rows, call, restores, ledgerFaults>>

NextCrlNumber(w) ==
    /\ signing[w].at = "read"
    /\ acme' = [acme EXCEPT !.number = @ + 1]
    /\ signing' = [signing EXCEPT ![w].at = "numbered", ![w].number = acme.number + 1]
    /\ UNCHANGED <<issued, backup, pki, stale, keeper, revoking, rows, call, restores, ledgerFaults>>

\* The answer to opCA waits for the signature.
SignEnds(w) ==
    /\ signing' = [signing EXCEPT ![w] = NoSign]
    /\ IF w = "keeper"
       THEN keeper' = [keeper EXCEPT !.at = "wait"] /\ UNCHANGED <<revoking, call>>
       ELSE /\ revoking' = "idle" /\ UNCHANGED keeper
            /\ call' = IF call.at = "waiting" THEN [call EXCEPT !.at = "answered"] ELSE call
    /\ UNCHANGED <<issued, backup, rows, restores>>

SignCrl(w) ==
    /\ signing[w].at = "numbered"
    /\ crl' = [number |-> signing[w].number, list |-> signing[w].list, old |-> FALSE]
    /\ SignEnds(w)
    /\ UNCHANGED <<acme, late, stale, ledgerFaults>>

Signed(w) == [number |-> signing[w].number, list |-> signing[w].list]

\* What forced the signature forces the next.  Broker::locked times out over the write,
\* which goes on waiting for its turn.
SignFails(w) ==
    /\ signing[w] # NoSign /\ Fault
    /\ stale' = (stale \/ w = "opca" \/ keeper.force)
    /\ \/ UNCHANGED late
       \/ signing[w].at = "numbered" /\ late' = late \cup {Signed(w)}
    /\ SignEnds(w)
    /\ UNCHANGED <<acme, crl>>

\* It is written all the same, over a later one too, and nothing takes note.
WrittenLate(x) ==
    /\ late' = late \ {x}
    /\ crl' = [number |-> x.number, list |-> x.list, old |-> FALSE]
    /\ UNCHANGED <<acme, issued, backup, stale, keeper, revoking, signing, rows, call, restores, ledgerFaults>>

\* A day after it was signed, the CRL wants another.  One that would be signed again
\* with the same list only counts the number up, and is left as it is.
Ages ==
    /\ ~crl.old /\ crl.list # Revoked
    /\ crl' = [crl EXCEPT !.old = TRUE]
    /\ UNCHANGED <<acme, issued, backup, late, stale, keeper, revoking, signing, rows, call, restores, ledgerFaults>>

\* The broker's process ends and is started again.
Restart ==
    /\ Fault
    /\ stale' = FALSE /\ keeper' = [at |-> "wait", force |-> FALSE]
    /\ revoking' = "idle" /\ signing' = [w \in Signer |-> NoSign]
    /\ call' = IF call.at \in {"asked", "waiting"} THEN NoCall ELSE call
    /\ late' = {}
    /\ UNCHANGED <<acme, issued, backup, crl, rows, restores>>

-----------------------------------------------------------------------------
(* Backup and restore *)

Capture ==
    /\ EmptyBackup \/ LastChange(acme.certs) > 0
    /\ restores < MaxRestore /\ backup # acme /\ backup' = acme
    /\ UNCHANGED <<acme, issued, pki, stale, keeper, revoking, signing, rows, call, restores, ledgerFaults>>

\* replaced: changes move past those of either database, the CRL number is the higher.
Restored ==
    LET past == Highest({LastChange(acme.certs), LastChange(backup.certs)})
    IN  [certs |-> [l \in Leaf |-> IF backup.certs[l] = NoRow THEN NoRow
                                   ELSE [backup.certs[l] EXCEPT !.changed = @ + past]],
         number |-> Highest({acme.number, backup.number})]

ReplaceFrom ==
    /\ restores < MaxRestore /\ restores' = restores + 1
    /\ EmptyBackup \/ LastChange(backup.certs) > 0
    /\ acme' = Restored
    /\ UNCHANGED <<issued, backup, pki, stale, keeper, revoking, signing, rows, call, ledgerFaults>>

-----------------------------------------------------------------------------
(* opCA *)

BrokerCursor == LastChange(rows)

StartSync ==
    /\ call.at = "idle" /\ call' = [NoCall EXCEPT !.at = "page", !.after = BrokerCursor]
    /\ UNCHANGED <<broker, rows, ledgerFaults>>

\* Of those changed later, the Page oldest changes.
ChangedAfter(after) ==
    {l \in Leaf : /\ acme.certs[l].changed > after
                  /\ Cardinality({k \in Leaf : acme.certs[k].changed \in after + 1 .. acme.certs[l].changed}) <= Page}

\* What the broker answers: a page, where it ends and whether there is more.
IssuedPage(after) ==
    LET page == ChangedAfter(after)
        next == Highest({acme.certs[l].changed : l \in page} \cup {after})
    IN  [certs |-> page, next |-> next, more |-> \E l \in Leaf : acme.certs[l].changed > next]

\* issued_since: a page more, until the broker has no more.
IssuedSince ==
    /\ call.at = "page"
    /\ LET page == IssuedPage(call.after)
       IN  call' = [call EXCEPT !.got = [l \in Leaf |-> IF l \in page.certs THEN acme.certs[l] ELSE @[l]],
                                !.after = page.next,
                                !.at = IF page.more THEN "page" ELSE "record"]
    /\ UNCHANGED <<broker, rows, ledgerFaults>>

RecordIssued ==
    /\ call.at = "record" /\ call' = NoCall
    /\ rows' = [l \in Leaf |-> IF call.got[l] = NoRow THEN rows[l] ELSE call.got[l]]
    /\ UNCHANGED <<broker, ledgerFaults>>

\* The command line takes any serial.
RevokeBrokerCert(l) ==
    /\ call.at = "idle" /\ l \in issued
    /\ call' = [NoCall EXCEPT !.at = "asked", !.leaf = l]
    /\ UNCHANGED <<broker, rows, ledgerFaults>>

\* revoke_leaf: one that is revoked is answered as it stands; one that is gone is refused.
RevokeLeaf ==
    /\ call.at = "asked" /\ revoking = "idle"
    /\ LET l == call.leaf
       IN  \/ /\ acme.certs[l].state = "good"
              /\ acme' = Changed(l, "revoked") /\ revoking' = "lock"
              /\ call' = [call EXCEPT !.at = "waiting", !.got[l] = acme'.certs[l]]
           \/ /\ acme.certs[l].state = "revoked"
              /\ call' = [call EXCEPT !.at = "answered", !.got[l] = acme.certs[l]]
              /\ UNCHANGED <<acme, revoking>>
           \/ acme.certs[l].state = "none" /\ call' = NoCall /\ UNCHANGED <<acme, revoking>>
    /\ UNCHANGED <<issued, backup, pki, stale, keeper, signing, rows, restores, ledgerFaults>>

\* Mutant: the row is recorded as the broker has it.
AsAnswered(changed) == changed

\* Not past the cursor.
UpToCursor(changed) == IF changed < BrokerCursor THEN changed ELSE BrokerCursor

RecordRevoked ==
    /\ call.at = "answered"
    /\ LET l == call.leaf
       IN  rows' = [rows EXCEPT ![l] = [call.got[l] EXCEPT !.changed = UpToCursor(@)]]
    /\ call' = [NoCall EXCEPT !.at = "page", !.after = LastChange(rows')]
    /\ UNCHANGED <<broker, ledgerFaults>>

CallFails ==
    /\ call.at # "idle" /\ Fault /\ call' = NoCall
    /\ UNCHANGED <<broker, rows>>

\* What changes only the CRL, what only opCA has part in, and what both see.
CrlNext ==
    \/ KeeperLooks \/ KeeperSigns \/ Ages \/ Restart
    \/ (\E w \in Signer : SignFails(w)) \/ \E x \in late : WrittenLate(x)
SyncNext == StartSync \/ IssuedSince \/ RecordIssued \/ RecordRevoked \/ CallFails
            \/ Capture \/ ReplaceFrom
SharedNext ==
    \/ RevokingSigns \/ RevokeLeaf \/ \E w \in Signer : NextCrlNumber(w) \/ SignCrl(w)
    \/ \E l \in Leaf : RecordCertificate(l) \/ Revoke(l) \/ RevokeBrokerCert(l)

-----------------------------------------------------------------------------
(* Properties *)

(* What opCA's cursor has passed, opCA knows as it is: no certificate and  *)
(* no revocation is skipped by the pages that are read while others are    *)
(* issued and revoked, by lost calls or by a restore.                      *)
CursorMissesNothing ==
    \A l \in Leaf : acme.certs[l].changed \in 1..BrokerCursor => rows[l].state = acme.certs[l].state

(* Of two CRLs the broker publishes one after the other, the one with the  *)
(* higher number has, until a backup is restored, every revoked            *)
(* certificate of the other, and one with the same number is the same,     *)
(* whatever requests sign at once.  The one on disk goes back to a lower   *)
(* number only when a write that had timed out is done after all.          *)
CrlAdvances ==
    [][/\ crl'.number = crl.number => crl'.list = crl.list
       /\ crl'.number < crl.number => [number |-> crl'.number, list |-> crl'.list] \in late \ late'
       /\ crl'.number > crl.number /\ restores = 0 => crl.list \cap Revoked \subseteq crl'.list
       /\ crl'.number < crl.number /\ restores = 0 => crl'.list \subseteq crl.list]_ledgerVars

=============================================================================
