------------------------------ MODULE CaStore ------------------------------
(***************************************************************************)
(* The certificate authority of crates/opca-core/src/services/ca.rs and    *)
(* what it keeps in 1Password: the CA_Database document, one item per      *)
(* certificate, the CRL document, and the CRL batch in the private store.  *)
(*                                                                         *)
(* A session is one running opCA with its CertificateAuthority value: it   *)
(* downloads the database once (`retrieve`), works on that copy in memory  *)
(* and writes the whole of it back after each change.  The command line    *)
(* runs one command in a session, the desktop app many; in both the copy   *)
(* is read before the vault lock is taken.  Each call of the 1Password     *)
(* command line, and each upload, is one step, which may fail with or      *)
(* without having taken effect; a session may end between any two steps.   *)
(*                                                                         *)
(* A certificate is a number from 1..MaxCert, in the order of signing, so  *)
(* that two certificates with the same serial can be told apart.           *)
(***************************************************************************)
EXTENDS Integers, FiniteSets

CONSTANTS
    Session,    \* opCA sessions
    NoSession,  \* nobody holds the vault lock
    CN,         \* common names
    MaxCert,    \* bound: certificates ever signed
    MaxCrl,     \* bound: CRLs, or batches, that the counter has numbers for
    Batch,      \* whether the CA may sign CRLs in batches (TRUE), one by one (FALSE)
    BatchSize,  \* CRL_BATCH_SIZE
    Overlap,    \* TRUE: a session may open while another one is open
    Unlocking,  \* TRUE: the commands that take no lock are used as well
    MaxFaults   \* bound: failed calls and crashed sessions

ASSUME SessionAssumption == NoSession \notin Session
ASSUME BoundAssumption ==
    MaxCert \in Nat /\ MaxCrl \in Nat \ {0} /\ MaxFaults \in Nat /\ BatchSize \in Nat \ {0}
ASSUME FlagAssumption == Batch \subseteq BOOLEAN /\ {Overlap, Unlocking} \subseteq BOOLEAN

VARIABLES
    saved,      \* the CA_Database document
    items,      \* certificates that have an item in the vault
    crlDoc,     \* the CRL document
    batch,      \* the CRL batch object in the private store
    batching,   \* crl_batch_uri is set: CRLs are signed in batches
    lock,       \* the session holding the vault lock
    gone,       \* certificates past their expiry date
    signed,     \* number of certificates signed so far
    serialOf,   \* by certificate: its serial number
    cnOf,       \* by certificate: its common name
    byName,     \* certificates whose item is titled by the common name alone
    pc,         \* by session: the call it makes next
    mem,        \* by session: its copy of the database
    dirty,      \* by session: CertificateAuthorityDB.dirty
    revokedSet, \* by session: certs_revoked of the last classification
    cur,        \* by session: the certificate being issued or revoked
    target,     \* by session: the certificate being deleted
    draft,      \* by session: the CRL it has signed
    revoking,   \* by session: what the running command has revoked
    issuedOk,   \* certificates whose issuing command reported success
    revokedOk,  \* certificates whose revoking command reported success
    faults      \* failures so far

vars == <<saved, items, crlDoc, batch, batching, lock, gone, signed, serialOf, cnOf, byName, pc,
          mem, dirty, revokedSet, cur, target, draft, revoking, issuedOk, revokedOk,
          faults>>

Cert == 1..MaxCert
NoCert == 0

DB == [next : Nat, nextCrl : Nat, rows : SUBSET Cert, revoked : SUBSET Cert,
       expired : SUBSET Cert, deleted : SUBSET Cert]

Crl == [number : Nat, lists : SUBSET Nat]

PCs == {"closed", "idle", "create", "save", "saveRevoked", "revoked", "putCrl", "saveCrl",
        "upload", "archive"}

TypeOK ==
    /\ saved \in DB /\ items \subseteq Cert /\ crlDoc \in Crl /\ batch \in Crl
    /\ batching \in BOOLEAN /\ lock \in Session \cup {NoSession}
    /\ gone \subseteq Cert /\ signed \in 0..MaxCert
    /\ serialOf \in [Cert -> Nat] /\ cnOf \in [Cert -> CN] /\ byName \subseteq Cert
    /\ pc \in [Session -> PCs] /\ mem \in [Session -> DB]
    /\ dirty \in [Session -> BOOLEAN] /\ revokedSet \in [Session -> SUBSET Cert]
    /\ cur \in [Session -> Cert \cup {NoCert}] /\ target \in [Session -> Cert \cup {NoCert}]
    /\ draft \in [Session -> Crl] /\ revoking \in [Session -> SUBSET Cert]
    /\ issuedOk \subseteq Cert /\ revokedOk \subseteq Cert
    /\ faults \in 0..MaxFaults

-----------------------------------------------------------------------------
(* The database in memory *)

EmptyDb == [next |-> 2, nextCrl |-> 1, rows |-> {}, revoked |-> {}, expired |-> {},
            deleted |-> {}]

NoCrl == [number |-> 0, lists |-> {}]

Serials(C) == {serialOf[c] : c \in C}

\* status = 'Valid': neither column was ever set to another value.
Valid(d, c) == c \in d.rows \ (d.revoked \cup d.expired)

\* process_ca_database: marks the revoked and the expired; deleted rows count too.
Process(d, revoke) ==
    [d EXCEPT !.revoked = @ \cup (revoke \ gone), !.expired = @ \cup (d.rows \cap gone)]

\* certs_revoked after process_ca_database, which is all crl_entries lists.
Classified(d) == d.revoked \ gone

\* How many CRLs generate_crl signs at once.
CrlCount == IF batching THEN BatchSize ELSE 1

\* CRT_{serial}_{cn}, but the common name alone for a signed CSR.
Title(c) == IF c \in byName THEN <<cnOf[c]>> ELSE <<serialOf[c], cnOf[c]>>

\* What a lookup by the title of c's row finds; 1Password refuses an ambiguous one.
ItemsTitled(c) == {i \in items : Title(i) = Title(c)}

-----------------------------------------------------------------------------
Init ==
    /\ saved = EmptyDb /\ items = {} /\ crlDoc = NoCrl /\ batch = NoCrl
    /\ batching \in Batch /\ lock = NoSession /\ gone = {} /\ signed = 0 /\ byName = {}
    /\ serialOf = [c \in Cert |-> 0]
    /\ cnOf \in {[c \in Cert |-> n] : n \in CN}
    /\ pc = [s \in Session |-> "closed"]
    /\ mem = [s \in Session |-> EmptyDb]
    /\ dirty = [s \in Session |-> FALSE]
    /\ revokedSet = [s \in Session |-> {}]
    /\ cur = [s \in Session |-> NoCert]
    /\ target = [s \in Session |-> NoCert]
    /\ draft = [s \in Session |-> NoCrl]
    /\ revoking = [s \in Session |-> {}]
    /\ issuedOk = {} /\ revokedOk = {} /\ faults = 0

vault == <<saved, items, crlDoc, batch>>
certs == <<gone, signed, serialOf, cnOf, byName, batching>>
copy == <<mem, dirty, revokedSet>>
command == <<cur, target, draft, revoking>>
answers == <<issuedOk, revokedOk>>

Goto(s, l) == pc' = [pc EXCEPT ![s] = l]

\* The command of session s returns: its locals go and the lock is released.
Return(s, l) ==
    /\ Goto(s, l)
    /\ lock' = IF lock = s THEN NoSession ELSE lock
    /\ cur' = [cur EXCEPT ![s] = NoCert]
    /\ target' = [target EXCEPT ![s] = NoCert]
    /\ draft' = [draft EXCEPT ![s] = NoCrl]
    /\ revoking' = [revoking EXCEPT ![s] = {}]

\* A call fails, or the process dies.
Fault == faults < MaxFaults /\ faults' = faults + 1

\* A command starts under the vault lock.
Locked(s) == pc[s] = "idle" /\ lock = NoSession /\ lock' = s

\* The command line's `csr sign` and `crl upload --generate` never take it.
Unlocked(s) == Unlocking /\ pc[s] = "idle" /\ UNCHANGED lock

(* retrieve: the document is downloaded and parsed; nothing is classified yet *)
Open(s) ==
    /\ pc[s] = "closed"
    /\ Overlap \/ \A t \in Session : pc[t] = "closed"
    /\ mem' = [mem EXCEPT ![s] = saved]
    /\ dirty' = [dirty EXCEPT ![s] = TRUE]
    /\ revokedSet' = [revokedSet EXCEPT ![s] = {}]
    /\ Goto(s, "idle")
    /\ UNCHANGED <<vault, lock, certs, command, answers, faults>>

\* The value is dropped, and with it whatever its copy holds unsaved.
Drop(s) ==
    /\ mem' = [mem EXCEPT ![s] = EmptyDb]
    /\ dirty' = [dirty EXCEPT ![s] = FALSE]
    /\ revokedSet' = [revokedSet EXCEPT ![s] = {}]

(* the command line exits, or the app disconnects *)
Close(s) ==
    /\ pc[s] = "idle"
    /\ Drop(s)
    /\ Goto(s, "closed")
    /\ UNCHANGED <<vault, lock, certs, command, answers, faults>>

(* the process dies in the middle of a command; its lock expires *)
Crash(s) ==
    /\ Fault
    /\ pc[s] \notin {"closed", "idle"}
    /\ Drop(s)
    /\ Return(s, "closed")
    /\ UNCHANGED <<vault, certs, answers>>

-----------------------------------------------------------------------------
(* Issuing *)

\* issue: takes the next serial of the copy in memory and signs.
Issue(s, n, csr) ==
    LET c == signed + 1 IN
    /\ c \in Cert
    /\ signed' = c
    /\ serialOf' = [serialOf EXCEPT ![c] = mem[s].next]
    /\ cnOf' = [cnOf EXCEPT ![c] = n]
    /\ byName' = byName \cup (IF csr THEN {c} ELSE {})
    /\ mem' = [mem EXCEPT ![s].next = @ + 1]
    /\ dirty' = [dirty EXCEPT ![s] = TRUE]
    /\ cur' = [cur EXCEPT ![s] = c]
    /\ Goto(s, "create")
    /\ UNCHANGED <<vault, gone, batching, revokedSet, target, draft, revoking, answers, faults>>

GenerateCertificateBundle(s, n) == Locked(s) /\ Issue(s, n, FALSE)

SignCsr(s, n) == (Locked(s) \/ Unlocked(s)) /\ Issue(s, n, TRUE)

\* The predecessor's item is fetched by title before anything is signed.
Reissue(s, c) ==
    /\ Locked(s)
    /\ c \in mem[s].rows
    /\ Cardinality(ItemsTitled(c)) = 1
    /\ Issue(s, cnOf[c], FALSE)

RenewCertificateBundle(s, c) == Valid(mem[s], c) /\ Reissue(s, c)

RekeyCertificateBundle(s, c) == Reissue(s, c)

(* store_certbundle_for: create_item, then the row; a predecessor is only muted *)
CreateItem(s) ==
    /\ pc[s] = "create"
    /\ items' = items \cup {cur[s]}
    /\ mem' = [mem EXCEPT ![s].rows = @ \cup {cur[s]}]
    /\ dirty' = [dirty EXCEPT ![s] = TRUE]
    /\ Goto(s, "save")
    /\ UNCHANGED <<saved, crlDoc, batch, lock, certs, revokedSet, command, answers, faults>>

CreateItemFails(s) ==
    /\ Fault
    /\ pc[s] = "create"
    /\ items' \in {items, items \cup {cur[s]}}
    /\ Return(s, "idle")
    /\ UNCHANGED <<saved, crlDoc, batch, certs, copy, answers>>

(* store_ca_database, as the last call of a command *)
StoreCaDatabase(s) ==
    /\ pc[s] = "save"
    /\ saved' = mem[s]
    /\ issuedOk' = issuedOk \cup ({cur[s]} \ {NoCert})
    /\ Return(s, "idle")
    /\ UNCHANGED <<items, crlDoc, batch, certs, copy, revokedOk, faults>>

\* Mutant: the error of the store is ignored and success reported.
StoreErrorIgnored(s) ==
    /\ Fault
    /\ pc[s] = "save"
    /\ saved' \in {saved, mem[s]}
    /\ issuedOk' = issuedOk \cup ({cur[s]} \ {NoCert})
    /\ Return(s, "idle")
    /\ UNCHANGED <<items, crlDoc, batch, certs, copy, revokedOk>>

StoreCaDatabaseFails(s) ==
    /\ Fault
    /\ pc[s] = "save"
    /\ saved' \in {saved, mem[s]}
    /\ Return(s, "idle")
    /\ UNCHANGED <<items, crlDoc, batch, certs, copy, answers>>

-----------------------------------------------------------------------------
(* Revoking; a bulk command revokes several and signs one CRL at the end *)

\* revoke_certificate up to its store: only a row still marked Valid is found.
MarkRevoked(s, c) ==
    /\ Valid(mem[s], c)
    /\ mem' = [mem EXCEPT ![s] = Process(@, {c})]
    /\ revokedSet' = [revokedSet EXCEPT ![s] = Classified(mem'[s])]
    /\ dirty' = [dirty EXCEPT ![s] = FALSE]
    /\ cur' = [cur EXCEPT ![s] = c]
    /\ Goto(s, "saveRevoked")
    /\ UNCHANGED <<vault, certs, target, draft, revoking, answers, faults>>

\* Bound: a command that will sign a CRL starts only while there is a number for it.
NumbersLeft(s) == mem[s].nextCrl <= 1 + (MaxCrl - 1) * CrlCount

RevokeCertificate(s, c) == NumbersLeft(s) /\ Locked(s) /\ MarkRevoked(s, c)

RevokeNext(s, c) == pc[s] = "revoked" /\ UNCHANGED lock /\ MarkRevoked(s, c)

StoreRevocation(s) ==
    /\ pc[s] = "saveRevoked"
    /\ saved' = mem[s]
    /\ revoking' = [revoking EXCEPT ![s] = @ \cup {cur[s]}]
    /\ Goto(s, "revoked")
    /\ UNCHANGED <<items, crlDoc, batch, lock, certs, copy, cur, target, draft, answers, faults>>

StoreRevocationFails(s) ==
    /\ Fault
    /\ pc[s] = "saveRevoked"
    /\ saved' \in {saved, mem[s]}
    /\ Goto(s, "revoked")
    /\ UNCHANGED <<items, crlDoc, batch, lock, certs, copy, command, answers>>

(* no revocation was stored, so no CRL is signed *)
NothingRevoked(s) ==
    /\ pc[s] = "revoked"
    /\ revoking[s] = {}
    /\ Return(s, "idle")
    /\ UNCHANGED <<vault, certs, copy, answers, faults>>

-----------------------------------------------------------------------------
(* generate_crl *)

\* Mutant: the last classification is used even when the copy has changed.
SignCrlUnclassified(s) ==
    /\ draft' = [draft EXCEPT
                   ![s] = [number |-> mem[s].nextCrl, lists |-> Serials(revokedSet[s])]]
    /\ mem' = [mem EXCEPT ![s].nextCrl = @ + CrlCount]
    /\ dirty' = [dirty EXCEPT ![s] = TRUE]
    /\ Goto(s, "putCrl")
    /\ UNCHANGED <<vault, certs, revokedSet, cur, target, revoking, answers, faults>>

\* Mutant: a batch takes one CRL number, as a single CRL does.
SignCrlOneNumber(s) ==
    LET d == Process(mem[s], {}) IN
    /\ draft' = [draft EXCEPT ![s] = [number |-> d.nextCrl, lists |-> Serials(Classified(d))]]
    /\ mem' = [mem EXCEPT ![s] = [d EXCEPT !.nextCrl = @ + 1]]
    /\ revokedSet' = [revokedSet EXCEPT ![s] = Classified(d)]
    /\ dirty' = [dirty EXCEPT ![s] = TRUE]
    /\ Goto(s, "putCrl")
    /\ UNCHANGED <<vault, certs, cur, target, revoking, answers, faults>>

\* Classifies unless nothing changed since the last time, numbers and signs.
SignCrl(s) ==
    LET d == IF dirty[s] THEN Process(mem[s], {}) ELSE mem[s]
        r == IF dirty[s] THEN Classified(d) ELSE revokedSet[s] IN
    /\ draft' = [draft EXCEPT ![s] = [number |-> d.nextCrl, lists |-> Serials(r)]]
    /\ mem' = [mem EXCEPT ![s] = [d EXCEPT !.nextCrl = @ + CrlCount]]
    /\ revokedSet' = [revokedSet EXCEPT ![s] = r]
    /\ dirty' = [dirty EXCEPT ![s] = TRUE]
    /\ Goto(s, "putCrl")
    /\ UNCHANGED <<vault, certs, cur, target, revoking, answers, faults>>

GenerateCrl(s) == NumbersLeft(s) /\ (Locked(s) \/ Unlocked(s)) /\ SignCrl(s)

RegenerateCrlAfterRevoke(s) ==
    pc[s] = "revoked" /\ revoking[s] # {} /\ UNCHANGED lock /\ SignCrl(s)

PutCrl(s) ==
    /\ pc[s] = "putCrl"
    /\ crlDoc' = draft[s]
    /\ Goto(s, "saveCrl")
    /\ UNCHANGED <<saved, items, batch, lock, certs, copy, command, answers, faults>>

PutCrlFails(s) ==
    /\ Fault
    /\ pc[s] = "putCrl"
    /\ crlDoc' \in {crlDoc, draft[s]}
    /\ Return(s, "idle")
    /\ UNCHANGED <<saved, items, batch, certs, copy, answers>>

\* The command reports success, for its revocations too.
Succeed(s) ==
    /\ revokedOk' = revokedOk \cup revoking[s]
    /\ Return(s, "idle")
    /\ UNCHANGED issuedOk

StoreCrlNumber(s) ==
    /\ pc[s] = "saveCrl"
    /\ saved' = mem[s]
    /\ IF batching THEN Goto(s, "upload") /\ UNCHANGED <<lock, command, answers>> ELSE Succeed(s)
    /\ UNCHANGED <<items, crlDoc, batch, certs, copy, faults>>

StoreCrlNumberFails(s) ==
    /\ Fault
    /\ pc[s] = "saveCrl"
    /\ saved' \in {saved, mem[s]}
    /\ Return(s, "idle")
    /\ UNCHANGED <<items, crlDoc, batch, certs, copy, answers>>

UploadBatch(s) ==
    /\ pc[s] = "upload"
    /\ batch' = draft[s]
    /\ Succeed(s)
    /\ UNCHANGED <<saved, items, crlDoc, certs, copy, faults>>

UploadBatchFails(s) ==
    /\ Fault
    /\ pc[s] = "upload"
    /\ batch' \in {batch, draft[s]}
    /\ Return(s, "idle")
    /\ UNCHANGED <<saved, items, crlDoc, certs, copy, answers>>

-----------------------------------------------------------------------------
(* delete_certificate *)

\* Checked against the copy in memory, reclassified just before.
DeleteCertificate(s, c) ==
    LET d == Process(mem[s], {}) IN
    /\ Locked(s)
    /\ c \in d.rows \ d.deleted
    /\ ~Valid(d, c)
    /\ Cardinality(ItemsTitled(c)) <= 1
    /\ mem' = [mem EXCEPT ![s] = d]
    /\ revokedSet' = [revokedSet EXCEPT ![s] = Classified(d)]
    /\ dirty' = [dirty EXCEPT ![s] = FALSE]
    /\ target' = [target EXCEPT ![s] = c]
    /\ Goto(s, "archive")
    /\ UNCHANGED <<vault, certs, cur, draft, revoking, answers, faults>>

ArchiveItem(s) ==
    /\ pc[s] = "archive"
    /\ items' = items \ ItemsTitled(target[s])
    /\ mem' = [mem EXCEPT ![s].deleted = @ \cup {target[s]}]
    /\ dirty' = [dirty EXCEPT ![s] = TRUE]
    /\ Goto(s, "save")
    /\ UNCHANGED <<saved, crlDoc, batch, lock, certs, revokedSet, command, answers, faults>>

ArchiveItemFails(s) ==
    /\ Fault
    /\ pc[s] = "archive"
    /\ items' \in {items, items \ ItemsTitled(target[s])}
    /\ Return(s, "idle")
    /\ UNCHANGED <<saved, crlDoc, batch, certs, copy, answers>>

(* the clock passes a certificate's expiry date *)
Expire(c) ==
    /\ c \in 1..signed \ gone
    /\ gone' = gone \cup {c}
    /\ UNCHANGED <<vault, batching, lock, signed, serialOf, cnOf, byName, pc, copy, command, answers,
                   faults>>

Call(s) ==
    \/ CreateItem(s) \/ StoreCaDatabase(s)
    \/ StoreRevocation(s) \/ NothingRevoked(s) \/ RegenerateCrlAfterRevoke(s)
    \/ PutCrl(s) \/ StoreCrlNumber(s) \/ UploadBatch(s) \/ ArchiveItem(s)

Failure(s) ==
    \/ CreateItemFails(s) \/ StoreCaDatabaseFails(s) \/ StoreRevocationFails(s)
    \/ PutCrlFails(s) \/ StoreCrlNumberFails(s) \/ UploadBatchFails(s) \/ ArchiveItemFails(s)
    \/ Crash(s)

OnCert(s, c) ==
    \/ RenewCertificateBundle(s, c) \/ RekeyCertificateBundle(s, c)
    \/ RevokeCertificate(s, c) \/ RevokeNext(s, c)
    \/ DeleteCertificate(s, c)

Command(s) ==
    \/ Open(s) \/ Close(s) \/ GenerateCrl(s)
    \/ \E n \in CN : GenerateCertificateBundle(s, n) \/ SignCsr(s, n)
    \/ \E c \in Cert : OnCert(s, c)

Next ==
    \/ \E s \in Session : Command(s) \/ Call(s) \/ Failure(s)
    \/ \E c \in Cert : Expire(c)

Spec == Init /\ [][Next]_vars

-----------------------------------------------------------------------------
(* Properties *)

(***************************************************************************)
(* No two certificates reported as issued share a serial, whichever calls  *)
(* failed and wherever sessions died in between (store_ca_database comes   *)
(* before success is reported).                                            *)
(***************************************************************************)
IssuedSerialsUnique ==
    \A c1, c2 \in issuedOk : serialOf[c1] = serialOf[c2] => c1 = c2

(***************************************************************************)
(* A revocation reported as done stays: until the certificate expires it   *)
(* is in the database, on the CRL document and, in batch mode, on the      *)
(* uploaded batch, whatever fails later.                                   *)
(***************************************************************************)
RevocationStays ==
    \A c \in revokedOk \ gone :
        /\ c \in saved.revoked
        /\ serialOf[c] \in crlDoc.lists
        /\ batching => serialOf[c] \in batch.lists

(***************************************************************************)
(* An uploaded batch is numbered after all of the batch it replaces: the   *)
(* upload waits until the new counter is stored.                           *)
(***************************************************************************)
BatchNumbersIncrease ==
    [][batch' # batch => batch'.number >= batch.number + (IF batch = NoCrl THEN 1 ELSE BatchSize)]_vars

=============================================================================
