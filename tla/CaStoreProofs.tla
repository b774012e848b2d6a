---------------------------- MODULE CaStoreProofs ----------------------------
(* Proofs about the certificate authority's stores, for any number of sessions *)
(* of which one is open at a time, any certificates, faults and bounds.        *)
EXTENDS CaStore, TLAPS

-----------------------------------------------------------------------------
(* What changes in a copy of the database *)

(***************************************************************************)
(* The next serial is taken.                                               *)
(***************************************************************************)
LEMMA TakesSerial ==
  ASSUME NEW d \in DB
  PROVE  \E q \in DB : /\ q = [d EXCEPT !.next = @ + 1]
                       /\ q.next = d.next + 1 /\ q.nextCrl = d.nextCrl /\ q.rows = d.rows /\ q.revoked = d.revoked
<1>1. PICK q : q = [d EXCEPT !.next = @ + 1]
  OBVIOUS
<1>2. q \in DB
  BY <1>1 DEF DB
<1>3. q.next = d.next + 1 /\ q.nextCrl = d.nextCrl /\ q.rows = d.rows /\ q.revoked = d.revoked
  BY <1>1 DEF DB
<1>4. QED
  BY <1>1, <1>2, <1>3

(***************************************************************************)
(* The row of a certificate is added.                                      *)
(***************************************************************************)
LEMMA AddsRow ==
  ASSUME NEW d \in DB, NEW c \in Cert
  PROVE  \E q \in DB : /\ q = [d EXCEPT !.rows = @ \cup {c}]
                       /\ q.next = d.next /\ q.nextCrl = d.nextCrl /\ q.rows = d.rows \cup {c} /\ q.revoked = d.revoked
<1>1. PICK q : q = [d EXCEPT !.rows = @ \cup {c}]
  OBVIOUS
<1>2. q \in DB
  BY <1>1 DEF DB
<1>3. q.next = d.next /\ q.nextCrl = d.nextCrl /\ q.rows = d.rows \cup {c} /\ q.revoked = d.revoked
  BY <1>1 DEF DB
<1>4. QED
  BY <1>1, <1>2, <1>3

(***************************************************************************)
(* A row is marked deleted.                                                *)
(***************************************************************************)
LEMMA MarksDeleted ==
  ASSUME NEW d \in DB, NEW c \in Cert
  PROVE  \E q \in DB : /\ q = [d EXCEPT !.deleted = @ \cup {c}]
                       /\ q.next = d.next /\ q.nextCrl = d.nextCrl /\ q.rows = d.rows /\ q.revoked = d.revoked
<1>1. PICK q : q = [d EXCEPT !.deleted = @ \cup {c}]
  OBVIOUS
<1>2. q \in DB
  BY <1>1 DEF DB
<1>3. q.next = d.next /\ q.nextCrl = d.nextCrl /\ q.rows = d.rows /\ q.revoked = d.revoked
  BY <1>1 DEF DB
<1>4. QED
  BY <1>1, <1>2, <1>3

(***************************************************************************)
(* CRL numbers are taken.                                                  *)
(***************************************************************************)
LEMMA TakesNumbers ==
  ASSUME NEW d \in DB, NEW n \in Nat
  PROVE  \E q \in DB : /\ q = [d EXCEPT !.nextCrl = @ + n]
                       /\ q.next = d.next /\ q.nextCrl = d.nextCrl + n /\ q.rows = d.rows /\ q.revoked = d.revoked
<1>1. PICK q : q = [d EXCEPT !.nextCrl = @ + n]
  OBVIOUS
<1>2. q \in DB
  BY <1>1 DEF DB
<1>3. q.next = d.next /\ q.nextCrl = d.nextCrl + n /\ q.rows = d.rows /\ q.revoked = d.revoked
  BY <1>1 DEF DB
<1>4. QED
  BY <1>1, <1>2, <1>3

(***************************************************************************)
(* process_ca_database marks the revoked that have not expired.            *)
(***************************************************************************)
LEMMA Processes ==
  ASSUME NEW d \in DB, NEW S \in SUBSET Cert, gone \in SUBSET Cert
  PROVE  \E q \in DB : /\ q = Process(d, S)
                       /\ q.next = d.next /\ q.nextCrl = d.nextCrl /\ q.rows = d.rows
                       /\ q.revoked = d.revoked \cup (S \ gone)
<1>1. PICK q : q = Process(d, S)
  OBVIOUS
<1>2. q \in DB
  BY <1>1 DEF DB, Process
<1>3. q.next = d.next /\ q.nextCrl = d.nextCrl /\ q.rows = d.rows /\ q.revoked = d.revoked \cup (S \ gone)
  BY <1>1 DEF DB, Process
<1>4. QED
  BY <1>1, <1>2, <1>3

-----------------------------------------------------------------------------
(* Types, and what each session has at which of its calls *)

Marks == 1..signed

Positions ==
    /\ saved.rows \subseteq Marks /\ saved.revoked \subseteq Marks
    /\ issuedOk \subseteq Marks /\ revokedOk \subseteq Marks
    /\ \A s \in Session :
        /\ mem[s].rows \subseteq Marks /\ mem[s].revoked \subseteq Marks /\ revoking[s] \subseteq Marks
        /\ cur[s] \in Marks \cup {NoCert}
        /\ pc[s] \in {"create", "saveRevoked"} => cur[s] # NoCert
        /\ pc[s] = "archive" => target[s] # NoCert /\ cur[s] = NoCert
        /\ pc[s] \in {"closed", "idle"} => cur[s] = NoCert /\ revoking[s] = {}

Typed == TypeOK /\ Positions

(***************************************************************************)
(* What holds at the start.                                                *)
(***************************************************************************)
LEMMA StartsTyped == Init => Typed
<1> SUFFICES ASSUME Init PROVE Typed
  OBVIOUS
<1>1. EmptyDb \in DB /\ EmptyDb.rows = {} /\ EmptyDb.revoked = {}
  BY DEF EmptyDb, DB
<1>2. NoCrl \in Crl
  BY DEF NoCrl, Crl
<1>3. TypeOK
  BY <1>1, <1>2, BoundAssumption, FlagAssumption DEF Init, TypeOK, PCs
<1>4. Positions
  BY <1>1 DEF Init, Positions, Marks
<1>5. QED
  BY <1>3, <1>4 DEF Typed

(***************************************************************************)
(* A command that returns leaves nothing behind.                           *)
(***************************************************************************)
LEMMA ReturnTyped ==
  ASSUME TypeOK, NEW s \in Session, NEW l \in {"idle", "closed"}, Return(s, l)
  PROVE  /\ pc' \in [Session -> PCs] /\ lock' \in Session \cup {NoSession}
         /\ cur' \in [Session -> Cert \cup {NoCert}] /\ target' \in [Session -> Cert \cup {NoCert}]
         /\ draft' \in [Session -> Crl] /\ revoking' \in [Session -> SUBSET Cert]
         /\ pc'[s] = l /\ cur'[s] = NoCert /\ revoking'[s] = {}
         /\ \A t \in Session \ {s} : /\ pc'[t] = pc[t] /\ cur'[t] = cur[t] /\ target'[t] = target[t]
                                     /\ draft'[t] = draft[t] /\ revoking'[t] = revoking[t]
<1>1. NoCrl \in Crl
  BY DEF NoCrl, Crl
<1>2. QED
  BY <1>1 DEF TypeOK, Return, Goto, PCs

(***************************************************************************)
(* Opening and closing a session, and the clock.                           *)
(***************************************************************************)
LEMMA SessionsTyped ==
  ASSUME Typed, NEW s \in Session, Open(s) \/ Close(s) \/ Crash(s) \/ \E c \in Cert : Expire(c)
  PROVE  Typed'
<1>1. EmptyDb \in DB /\ EmptyDb.rows = {} /\ EmptyDb.revoked = {}
  BY DEF EmptyDb, DB
<1>2. CASE Open(s)
  <2>1. TypeOK'
    BY <1>2 DEF Typed, TypeOK, Open, Goto, PCs, vault, certs, command, answers
  <2>2. Positions'
    BY <1>2 DEF Typed, TypeOK, Positions, Marks, Open, Goto, vault, certs, command, answers
  <2>3. QED
    BY <2>1, <2>2 DEF Typed
<1>3. CASE Close(s)
  <2>1. TypeOK'
    BY <1>1, <1>3 DEF Typed, TypeOK, Close, Drop, Goto, PCs, vault, certs, command, answers
  <2>2. Positions'
    BY <1>1, <1>3 DEF Typed, TypeOK, Positions, Marks, Close, Drop, Goto, vault, certs, command, answers
  <2>3. QED
    BY <2>1, <2>2 DEF Typed
<1>4. CASE Crash(s)
  <2>1. TypeOK'
    BY <1>1, <1>4, ReturnTyped, BoundAssumption DEF Typed, TypeOK, Crash, Fault, Drop, vault, certs, answers
  <2>2. Positions'
    BY <1>1, <1>4, ReturnTyped DEF Typed, TypeOK, Positions, Marks, Crash, Drop, vault, certs, answers
  <2>3. QED
    BY <2>1, <2>2 DEF Typed
<1>5. CASE \E c \in Cert : Expire(c)
  <2>1. TypeOK'
    BY <1>5 DEF Typed, TypeOK, Expire, vault, copy, command, answers
  <2>2. Positions'
    BY <1>5 DEF Typed, Positions, Marks, Expire, vault, copy, command, answers
  <2>3. QED
    BY <2>1, <2>2 DEF Typed
<1>6. QED
  BY <1>2, <1>3, <1>4, <1>5

(***************************************************************************)
(* Signing takes the next certificate and the next serial of the copy.     *)
(***************************************************************************)
LEMMA IssueTyped ==
  ASSUME Typed, NEW s \in Session, NEW n \in CN, NEW csr \in BOOLEAN, Issue(s, n, csr),
         lock' \in Session \cup {NoSession}, pc[s] = "idle"
  PROVE  Typed'
<1>1. PICK c \in Cert : c = signed + 1 /\ signed' = c
  BY DEF Issue
<1>2. PICK q \in DB : /\ q = [mem[s] EXCEPT !.next = @ + 1]
                      /\ q.next = mem[s].next + 1 /\ q.rows = mem[s].rows /\ q.revoked = mem[s].revoked
  BY TakesSerial DEF Typed, TypeOK
<1>3. mem' = [mem EXCEPT ![s] = q]
  BY <1>2 DEF Issue
<1>4. mem[s].next \in Nat
  BY DEF Typed, TypeOK, DB
<1>5. TypeOK'
  <2>1. signed' \in 0..MaxCert
    BY <1>1, BoundAssumption DEF Cert
  <2>2. mem' \in [Session -> DB] /\ serialOf' \in [Cert -> Nat] /\ cnOf' \in [Cert -> CN]
    BY <1>1, <1>3, <1>4 DEF Typed, TypeOK, Issue
  <2>3. byName' \subseteq Cert /\ dirty' \in [Session -> BOOLEAN] /\ cur' \in [Session -> Cert \cup {NoCert}]
    BY <1>1 DEF Typed, TypeOK, Issue
  <2>4. pc' \in [Session -> PCs]
    BY DEF Typed, TypeOK, Issue, Goto, PCs
  <2>5. UNCHANGED <<saved, items, crlDoc, batch, batching, gone, revokedSet, target, draft, revoking,
                    issuedOk, revokedOk, faults>>
    BY DEF Issue, vault, answers
  <2>6. QED
    BY <2>1, <2>2, <2>3, <2>4, <2>5 DEF Typed, TypeOK
<1>6. Marks \subseteq Marks' /\ c \in Marks'
  BY <1>1 DEF Marks, Cert, Typed, TypeOK
<1>7. Positions'
  BY <1>1, <1>2, <1>3, <1>6 DEF Typed, TypeOK, Positions, Issue, Goto, vault, answers, NoCert, Cert
<1>8. QED
  BY <1>5, <1>7 DEF Typed

(***************************************************************************)
(* The item and the row of a certificate, and the store of the database.   *)
(***************************************************************************)
LEMMA StoresTyped ==
  ASSUME Typed, NEW s \in Session,
         \/ CreateItem(s) \/ CreateItemFails(s) \/ StoreCaDatabase(s) \/ StoreCaDatabaseFails(s)
         \/ ArchiveItem(s) \/ ArchiveItemFails(s)
  PROVE  Typed'
<1>1. CASE CreateItem(s)
  <2>1. PICK c \in Cert : c = cur[s] /\ c \in Marks
    BY <1>1 DEF Typed, TypeOK, Positions, CreateItem
  <2>2. PICK q \in DB : /\ q = [mem[s] EXCEPT !.rows = @ \cup {c}]
                        /\ q.rows = mem[s].rows \cup {c} /\ q.revoked = mem[s].revoked
    BY AddsRow DEF Typed, TypeOK
  <2>3. mem' = [mem EXCEPT ![s] = q] /\ items' = items \cup {c}
    BY <1>1, <2>1, <2>2 DEF CreateItem
  <2>4. TypeOK'
    <3>1. mem' \in [Session -> DB] /\ items' \subseteq Cert
      BY <2>3 DEF Typed, TypeOK
    <3>2. QED
      BY <1>1, <3>1 DEF Typed, TypeOK, CreateItem, Goto, PCs, certs, command, answers
  <2>5. Positions'
    BY <1>1, <2>1, <2>2, <2>3 DEF Typed, TypeOK, Positions, Marks, CreateItem, Goto, certs, command, answers
  <2>6. QED
    BY <2>4, <2>5 DEF Typed
<1>2. CASE CreateItemFails(s)
  <2>1. items' \subseteq Cert
    BY <1>2 DEF Typed, TypeOK, Positions, CreateItemFails, NoCert
  <2>2. TypeOK'
    BY <1>2, <2>1, ReturnTyped, BoundAssumption DEF Typed, TypeOK, CreateItemFails, Fault, certs, copy, answers
  <2>3. Positions'
    BY <1>2, ReturnTyped DEF Typed, TypeOK, Positions, Marks, CreateItemFails, certs, copy, answers
  <2>4. QED
    BY <2>2, <2>3 DEF Typed
<1>3. CASE StoreCaDatabase(s)
  <2>1. issuedOk' \subseteq Cert /\ issuedOk' \subseteq Marks
    BY <1>3 DEF Typed, TypeOK, Positions, StoreCaDatabase
  <2>2. TypeOK'
    BY <1>3, <2>1, ReturnTyped DEF Typed, TypeOK, StoreCaDatabase, certs, copy
  <2>3. Positions'
    BY <1>3, <2>1, ReturnTyped DEF Typed, TypeOK, Positions, Marks, StoreCaDatabase, certs, copy
  <2>4. QED
    BY <2>2, <2>3 DEF Typed
<1>4. CASE StoreCaDatabaseFails(s)
  <2>1. TypeOK'
    BY <1>4, ReturnTyped, BoundAssumption DEF Typed, TypeOK, StoreCaDatabaseFails, Fault, certs, copy, answers
  <2>2. Positions'
    BY <1>4, ReturnTyped DEF Typed, TypeOK, Positions, Marks, StoreCaDatabaseFails, certs, copy, answers
  <2>3. QED
    BY <2>1, <2>2 DEF Typed
<1>5. CASE ArchiveItem(s)
  <2>1. PICK c \in Cert : c = target[s]
    BY <1>5 DEF Typed, TypeOK, Positions, ArchiveItem
  <2>2. PICK q \in DB : /\ q = [mem[s] EXCEPT !.deleted = @ \cup {c}]
                        /\ q.rows = mem[s].rows /\ q.revoked = mem[s].revoked
    BY MarksDeleted DEF Typed, TypeOK
  <2>3. mem' = [mem EXCEPT ![s] = q] /\ items' \subseteq items
    BY <1>5, <2>1, <2>2 DEF ArchiveItem
  <2>4. TypeOK'
    BY <1>5, <2>3 DEF Typed, TypeOK, ArchiveItem, Goto, PCs, certs, command, answers
  <2>5. Positions'
    BY <1>5, <2>2, <2>3 DEF Typed, TypeOK, Positions, Marks, ArchiveItem, Goto, certs, command, answers
  <2>6. QED
    BY <2>4, <2>5 DEF Typed
<1>6. CASE ArchiveItemFails(s)
  <2>1. items' \subseteq items
    BY <1>6 DEF ArchiveItemFails
  <2>2. TypeOK'
    BY <1>6, <2>1, ReturnTyped, BoundAssumption DEF Typed, TypeOK, ArchiveItemFails, Fault, certs, copy, answers
  <2>3. Positions'
    BY <1>6, ReturnTyped DEF Typed, TypeOK, Positions, Marks, ArchiveItemFails, certs, copy, answers
  <2>4. QED
    BY <2>2, <2>3 DEF Typed
<1>7. QED
  BY <1>1, <1>2, <1>3, <1>4, <1>5, <1>6

(***************************************************************************)
(* Marking a certificate revoked, and the store of that.                   *)
(***************************************************************************)
LEMMA RevokeTyped ==
  ASSUME Typed, NEW s \in Session, lock' \in Session \cup {NoSession},
         \/ \E c \in Cert : MarkRevoked(s, c)
         \/ StoreRevocation(s) \/ StoreRevocationFails(s) \/ NothingRevoked(s)
  PROVE  Typed'
<1>1. CASE \E c \in Cert : MarkRevoked(s, c)
  <2>1. PICK c \in Cert : MarkRevoked(s, c)
    BY <1>1
  <2>2. c \in Marks /\ {c} \in SUBSET Cert
    BY <2>1 DEF MarkRevoked, Valid, Typed, Positions
  <2>3. PICK q \in DB : /\ q = Process(mem[s], {c})
                        /\ q.rows = mem[s].rows /\ q.revoked = mem[s].revoked \cup ({c} \ gone)
    BY <2>2, Processes DEF Typed, TypeOK
  <2>4. mem' = [mem EXCEPT ![s] = q] /\ mem'[s] = q
    BY <2>1, <2>3 DEF MarkRevoked, Typed, TypeOK
  <2>5. Classified(q) \subseteq Cert
    BY DEF Classified, DB
  <2>6. revokedSet' = [revokedSet EXCEPT ![s] = Classified(q)]
    BY <2>1, <2>4 DEF MarkRevoked
  <2>7. TypeOK'
    <3>1. mem' \in [Session -> DB] /\ revokedSet' \in [Session -> SUBSET Cert]
      BY <2>4, <2>5, <2>6 DEF Typed, TypeOK
    <3>2. cur' \in [Session -> Cert \cup {NoCert}] /\ dirty' \in [Session -> BOOLEAN] /\ pc' \in [Session -> PCs]
      BY <2>1 DEF Typed, TypeOK, MarkRevoked, Goto, PCs
    <3>3. UNCHANGED <<vault, certs, target, draft, revoking, answers, faults>>
      BY <2>1 DEF MarkRevoked
    <3>4. QED
      BY <3>1, <3>2, <3>3 DEF Typed, TypeOK, vault, certs, answers
  <2>8. Positions'
    <3>1. \A t \in Session : mem'[t] = IF t = s THEN q ELSE mem[t]
      BY <2>4 DEF Typed, TypeOK
    <3>2. \A t \in Session : pc'[t] = (IF t = s THEN "saveRevoked" ELSE pc[t])
                             /\ cur'[t] = (IF t = s THEN c ELSE cur[t])
      BY <2>1 DEF Typed, TypeOK, MarkRevoked, Goto
    <3>3. UNCHANGED <<saved, signed, target, revoking, issuedOk, revokedOk>>
      BY <2>1 DEF MarkRevoked, vault, certs, answers
    <3>4. c # NoCert /\ q.rows \subseteq Marks /\ q.revoked \subseteq Marks
      <4>1. c # NoCert
        BY DEF NoCert, Cert
      <4>2. mem[s].rows \subseteq Marks /\ mem[s].revoked \subseteq Marks
        BY DEF Typed, Positions
      <4>3. QED
        BY <2>2, <2>3, <4>1, <4>2
    <3>5. QED
      BY <2>2, <3>1, <3>2, <3>3, <3>4 DEF Typed, Positions, Marks
  <2>9. QED
    BY <2>7, <2>8 DEF Typed
<1>2. CASE StoreRevocation(s)
  <2>1. cur[s] \in Marks /\ cur[s] \in Cert
    BY <1>2 DEF Typed, TypeOK, Positions, StoreRevocation, NoCert, Cert
  <2>2. TypeOK'
    <3>1. revoking' \in [Session -> SUBSET Cert]
      BY <1>2, <2>1 DEF Typed, TypeOK, StoreRevocation
    <3>2. pc' \in [Session -> PCs] /\ saved' \in DB
      BY <1>2 DEF Typed, TypeOK, StoreRevocation, Goto, PCs
    <3>3. QED
      BY <1>2, <3>1, <3>2 DEF Typed, TypeOK, StoreRevocation, certs, copy, answers
  <2>3. Positions'
    <3>1. \A t \in Session : revoking'[t] = IF t = s THEN revoking[s] \cup {cur[s]} ELSE revoking[t]
      BY <1>2 DEF Typed, TypeOK, StoreRevocation
    <3>2. \A t \in Session : pc'[t] = IF t = s THEN "revoked" ELSE pc[t]
      BY <1>2 DEF Typed, TypeOK, StoreRevocation, Goto
    <3>3. saved' = mem[s] /\ UNCHANGED <<mem, signed, issuedOk, revokedOk, cur, target>>
      BY <1>2 DEF StoreRevocation, certs, copy, answers
    <3>4. QED
      BY <2>1, <3>1, <3>2, <3>3 DEF Typed, Positions, Marks
  <2>4. QED
    BY <2>2, <2>3 DEF Typed
<1>3. CASE StoreRevocationFails(s)
  <2>1. TypeOK'
    BY <1>3, BoundAssumption DEF Typed, TypeOK, StoreRevocationFails, Fault, Goto, PCs, certs, copy, command, answers
  <2>2. Positions'
    BY <1>3 DEF Typed, TypeOK, Positions, Marks, StoreRevocationFails, Goto, certs, copy, command, answers
  <2>3. QED
    BY <2>1, <2>2 DEF Typed
<1>4. CASE NothingRevoked(s)
  <2>1. TypeOK'
    BY <1>4, ReturnTyped DEF Typed, TypeOK, NothingRevoked, vault, certs, copy, answers
  <2>2. Positions'
    BY <1>4, ReturnTyped DEF Typed, TypeOK, Positions, Marks, NothingRevoked, vault, certs, copy, answers
  <2>3. QED
    BY <2>1, <2>2 DEF Typed
<1>5. QED
  BY <1>1, <1>2, <1>3, <1>4

(***************************************************************************)
(* What a signature takes from the copy: a CRL number, or a batch of them, *)
(* and every revoked certificate the copy has, unless it is classified.    *)
(***************************************************************************)
LEMMA Signs ==
  ASSUME Typed, NEW s \in Session, SignCrl(s)
  PROVE  \E q \in DB, r \in SUBSET Cert :
           /\ mem' = [mem EXCEPT ![s] = q] /\ revokedSet' = [revokedSet EXCEPT ![s] = r]
           /\ q.next = mem[s].next /\ q.nextCrl = mem[s].nextCrl + CrlCount /\ q.rows = mem[s].rows
           /\ q.revoked = mem[s].revoked
           /\ (dirty[s] => r = mem[s].revoked \ gone) /\ (~dirty[s] => r = revokedSet[s])
           /\ draft' = [draft EXCEPT ![s] = [number |-> mem[s].nextCrl, lists |-> Serials(r)]]
           /\ [number |-> mem[s].nextCrl, lists |-> Serials(r)] \in Crl
<1>1. PICK m \in DB : m = mem[s]
  BY DEF Typed, TypeOK
<1>2. PICK d \in DB : /\ d = IF dirty[s] THEN Process(m, {}) ELSE m
                      /\ d.next = m.next /\ d.nextCrl = m.nextCrl /\ d.rows = m.rows /\ d.revoked = m.revoked
  <2>1. gone \in SUBSET Cert
    BY DEF Typed, TypeOK
  <2>2. PICK e \in DB : e = Process(m, {}) /\ e.next = m.next /\ e.nextCrl = m.nextCrl /\ e.rows = m.rows
                        /\ e.revoked = m.revoked
    <3>1. PICK e \in DB : e = Process(m, {}) /\ e.next = m.next /\ e.nextCrl = m.nextCrl /\ e.rows = m.rows
                          /\ e.revoked = m.revoked \cup ({} \ gone)
      BY <2>1, {} \in SUBSET Cert, Processes
    <3>2. QED
      BY <3>1
  <2>3. CASE dirty[s]
    BY <2>2, <2>3
  <2>4. CASE ~dirty[s]
    BY <2>4
  <2>5. QED
    BY <2>3, <2>4
<1>3. CrlCount \in Nat
  BY BoundAssumption DEF CrlCount
<1>4. PICK q \in DB : /\ q = [d EXCEPT !.nextCrl = @ + CrlCount]
                      /\ q.next = d.next /\ q.nextCrl = d.nextCrl + CrlCount /\ q.rows = d.rows /\ q.revoked = d.revoked
  BY <1>3, TakesNumbers
<1>5. PICK r : r = IF dirty[s] THEN Classified(d) ELSE revokedSet[s]
  OBVIOUS
<1>6. r \in SUBSET Cert
  BY <1>5 DEF Typed, TypeOK, Classified, DB
<1>7. [number |-> m.nextCrl, lists |-> Serials(r)] \in Crl
  BY <1>6 DEF Typed, TypeOK, Serials, Crl, DB
<1>8. /\ mem' = [mem EXCEPT ![s] = q] /\ revokedSet' = [revokedSet EXCEPT ![s] = r]
      /\ draft' = [draft EXCEPT ![s] = [number |-> d.nextCrl, lists |-> Serials(r)]]
  BY <1>1, <1>2, <1>4, <1>5 DEF SignCrl
<1>9. (dirty[s] => r = m.revoked \ gone) /\ (~dirty[s] => r = revokedSet[s])
  BY <1>2, <1>5 DEF Classified
<1>10. QED
  BY <1>1, <1>2, <1>4, <1>6, <1>7, <1>8, <1>9

(***************************************************************************)
(* Signing, publishing and storing a CRL, and the upload of a batch.       *)
(***************************************************************************)
LEMMA CrlTyped ==
  ASSUME Typed, NEW s \in Session, lock' \in Session \cup {NoSession},
         \/ SignCrl(s) \/ PutCrl(s) \/ PutCrlFails(s) \/ StoreCrlNumber(s) \/ StoreCrlNumberFails(s)
         \/ UploadBatch(s) \/ UploadBatchFails(s)
  PROVE  Typed'
<1>d. draft[s] \in Crl /\ revoking[s] \subseteq Marks /\ revoking[s] \subseteq Cert
  BY DEF Typed, TypeOK, Positions
<1>s. ASSUME Succeed(s)
      PROVE  revokedOk' \subseteq Cert /\ revokedOk' \subseteq Marks /\ Return(s, "idle") /\ issuedOk' = issuedOk
  BY <1>s, <1>d DEF Typed, TypeOK, Positions, Succeed
<1>1. CASE SignCrl(s)
  <2>1. PICK q \in DB, r \in SUBSET Cert, c \in Crl :
           /\ mem' = [mem EXCEPT ![s] = q] /\ revokedSet' = [revokedSet EXCEPT ![s] = r]
           /\ q.rows = mem[s].rows /\ q.revoked = mem[s].revoked /\ draft' = [draft EXCEPT ![s] = c]
    <3>1. PICK q \in DB, r \in SUBSET Cert :
             /\ mem' = [mem EXCEPT ![s] = q] /\ revokedSet' = [revokedSet EXCEPT ![s] = r]
             /\ q.rows = mem[s].rows /\ q.revoked = mem[s].revoked
             /\ draft' = [draft EXCEPT ![s] = [number |-> mem[s].nextCrl, lists |-> Serials(r)]]
             /\ [number |-> mem[s].nextCrl, lists |-> Serials(r)] \in Crl
      BY <1>1, Signs
    <3>2. QED
      BY <3>1
  <2>2. TypeOK'
    BY <1>1, <2>1 DEF Typed, TypeOK, SignCrl, Goto, PCs, vault, certs, answers
  <2>3. Positions'
    BY <1>1, <2>1 DEF Typed, TypeOK, Positions, Marks, SignCrl, Goto, vault, certs, answers
  <2>4. QED
    BY <2>2, <2>3 DEF Typed
<1>2. CASE PutCrl(s)
  <2>1. TypeOK'
    BY <1>2, <1>d DEF Typed, TypeOK, PutCrl, Goto, PCs, certs, copy, command, answers
  <2>2. Positions'
    BY <1>2 DEF Typed, TypeOK, Positions, Marks, PutCrl, Goto, certs, copy, command, answers
  <2>3. QED
    BY <2>1, <2>2 DEF Typed
<1>3. CASE PutCrlFails(s)
  <2>1. TypeOK'
    BY <1>3, <1>d, ReturnTyped, BoundAssumption DEF Typed, TypeOK, PutCrlFails, Fault, certs, copy, answers
  <2>2. Positions'
    BY <1>3, ReturnTyped DEF Typed, TypeOK, Positions, Marks, PutCrlFails, certs, copy, answers
  <2>3. QED
    BY <2>1, <2>2 DEF Typed
<1>4. CASE StoreCrlNumber(s)
  <2>1. CASE batching
    <3>1. TypeOK'
      BY <1>4, <2>1 DEF Typed, TypeOK, StoreCrlNumber, Goto, PCs, certs, copy, command, answers
    <3>2. Positions'
      BY <1>4, <2>1 DEF Typed, TypeOK, Positions, Marks, StoreCrlNumber, Goto, certs, copy, command, answers
    <3>3. QED
      BY <3>1, <3>2 DEF Typed
  <2>2. CASE ~batching
    <3>1. Succeed(s)
      BY <1>4, <2>2 DEF StoreCrlNumber
    <3>2. TypeOK'
      BY <1>4, <1>s, <3>1, ReturnTyped DEF Typed, TypeOK, StoreCrlNumber, certs, copy
    <3>3. Positions'
      BY <1>4, <1>s, <3>1, ReturnTyped DEF Typed, TypeOK, Positions, Marks, StoreCrlNumber, certs, copy
    <3>4. QED
      BY <3>2, <3>3 DEF Typed
  <2>3. QED
    BY <2>1, <2>2
<1>5. CASE StoreCrlNumberFails(s)
  <2>1. TypeOK'
    BY <1>5, ReturnTyped, BoundAssumption DEF Typed, TypeOK, StoreCrlNumberFails, Fault, certs, copy, answers
  <2>2. Positions'
    BY <1>5, ReturnTyped DEF Typed, TypeOK, Positions, Marks, StoreCrlNumberFails, certs, copy, answers
  <2>3. QED
    BY <2>1, <2>2 DEF Typed
<1>6. CASE UploadBatch(s)
  <2>1. Succeed(s)
    BY <1>6 DEF UploadBatch
  <2>2. TypeOK'
    BY <1>6, <1>d, <1>s, <2>1, ReturnTyped DEF Typed, TypeOK, UploadBatch, certs, copy
  <2>3. Positions'
    <3>1. UNCHANGED <<saved, mem, signed>> /\ revokedOk' \subseteq Marks /\ issuedOk' = issuedOk
      BY <1>6, <1>s, <2>1 DEF UploadBatch, certs, copy
    <3>2. QED
      BY <1>s, <2>1, <3>1, ReturnTyped DEF Typed, TypeOK, Positions, Marks
  <2>4. QED
    BY <2>2, <2>3 DEF Typed
<1>7. CASE UploadBatchFails(s)
  <2>1. TypeOK'
    BY <1>7, <1>d, ReturnTyped, BoundAssumption DEF Typed, TypeOK, UploadBatchFails, Fault, certs, copy, answers
  <2>2. Positions'
    BY <1>7, ReturnTyped DEF Typed, TypeOK, Positions, Marks, UploadBatchFails, certs, copy, answers
  <2>3. QED
    BY <2>1, <2>2 DEF Typed
<1>8. QED
  BY <1>1, <1>2, <1>3, <1>4, <1>5, <1>6, <1>7

(***************************************************************************)
(* delete_certificate classifies the copy and marks nothing.               *)
(***************************************************************************)
LEMMA DeleteIs ==
  ASSUME Typed, NEW s \in Session, NEW c \in Cert, DeleteCertificate(s, c)
  PROVE  \E q \in DB :
           /\ mem' = [mem EXCEPT ![s] = q] /\ revokedSet' = [revokedSet EXCEPT ![s] = q.revoked \ gone]
           /\ q.next = mem[s].next /\ q.nextCrl = mem[s].nextCrl /\ q.rows = mem[s].rows
           /\ q.revoked = mem[s].revoked
<1>1. gone \in SUBSET Cert /\ mem[s] \in DB
  BY DEF Typed, TypeOK
<1>2. PICK q \in DB : q = Process(mem[s], {}) /\ q.next = mem[s].next /\ q.nextCrl = mem[s].nextCrl
                      /\ q.rows = mem[s].rows /\ q.revoked = mem[s].revoked \cup ({} \ gone)
  BY <1>1, {} \in SUBSET Cert, Processes
<1>3. q.revoked = mem[s].revoked
  BY <1>2
<1>4. mem' = [mem EXCEPT ![s] = q] /\ revokedSet' = [revokedSet EXCEPT ![s] = q.revoked \ gone]
  BY <1>2 DEF DeleteCertificate, Classified
<1>5. QED
  BY <1>2, <1>3, <1>4

(***************************************************************************)
(* A command takes the lock, if it takes it, when it starts.               *)
(***************************************************************************)
LEMMA LockTyped ==
  ASSUME Typed, NEW s \in Session, Locked(s) \/ Unlocked(s)
  PROVE  lock' \in Session \cup {NoSession} /\ pc[s] = "idle"
BY DEF Typed, TypeOK, Locked, Unlocked

(***************************************************************************)
(* Every step keeps the types.                                             *)
(***************************************************************************)
LEMMA StepTyped ==
  ASSUME Typed, [Next]_vars
  PROVE  Typed'
<1>1. ASSUME NEW s \in Session, Command(s) PROVE Typed'
  <2>1. CASE Open(s) \/ Close(s)
    BY <2>1, SessionsTyped
  <2>2. CASE GenerateCrl(s)
    BY <2>2, LockTyped, CrlTyped DEF GenerateCrl
  <2>3. CASE \E n \in CN : GenerateCertificateBundle(s, n) \/ SignCsr(s, n)
    BY <2>3, LockTyped, IssueTyped DEF GenerateCertificateBundle, SignCsr
  <2>4. CASE \E c \in Cert : OnCert(s, c)
    <3>1. PICK c \in Cert : OnCert(s, c)
      BY <2>4
    <3>2. CASE RenewCertificateBundle(s, c) \/ RekeyCertificateBundle(s, c)
      <4>1. cnOf[c] \in CN
        BY DEF Typed, TypeOK
      <4>2. QED
        BY <3>2, <4>1, LockTyped, IssueTyped DEF RenewCertificateBundle, RekeyCertificateBundle, Reissue
    <3>3. CASE RevokeCertificate(s, c)
      BY <3>3, LockTyped, RevokeTyped DEF RevokeCertificate
    <3>4. CASE RevokeNext(s, c)
      <4>1. lock' \in Session \cup {NoSession}
        BY <3>4 DEF Typed, TypeOK, RevokeNext
      <4>2. QED
        BY <3>4, <4>1, RevokeTyped DEF RevokeNext
    <3>5. CASE DeleteCertificate(s, c)
      <4>1. PICK q \in DB :
              /\ mem' = [mem EXCEPT ![s] = q] /\ revokedSet' = [revokedSet EXCEPT ![s] = q.revoked \ gone]
              /\ q.rows = mem[s].rows /\ q.revoked = mem[s].revoked
        BY <3>5, DeleteIs
      <4>2. lock' \in Session \cup {NoSession} /\ pc[s] = "idle"
        BY <3>5, LockTyped DEF DeleteCertificate
      <4>3. mem' \in [Session -> DB] /\ revokedSet' \in [Session -> SUBSET Cert]
        BY <4>1 DEF Typed, TypeOK, DB
      <4>4. TypeOK'
        BY <3>5, <4>2, <4>3 DEF Typed, TypeOK, DeleteCertificate, Goto, PCs, vault, certs, answers
      <4>5. Positions'
        <5>1. \A t \in Session : mem'[t] = IF t = s THEN q ELSE mem[t]
          BY <4>1 DEF Typed, TypeOK
        <5>2. \A t \in Session : pc'[t] = (IF t = s THEN "archive" ELSE pc[t])
                                 /\ target'[t] = (IF t = s THEN c ELSE target[t])
          BY <3>5 DEF Typed, TypeOK, DeleteCertificate, Goto
        <5>3. c # NoCert
          BY DEF NoCert, Cert
        <5>4. UNCHANGED <<saved, signed, cur, revoking, issuedOk, revokedOk>>
          BY <3>5 DEF DeleteCertificate, vault, certs, answers
        <5>5. QED
          BY <4>1, <4>2, <5>1, <5>2, <5>3, <5>4 DEF Typed, Positions, Marks
      <4>6. QED
        BY <4>4, <4>5 DEF Typed
    <3>6. QED
      BY <3>1, <3>2, <3>3, <3>4, <3>5 DEF OnCert
  <2>5. QED
    BY <1>1, <2>1, <2>2, <2>3, <2>4 DEF Command
<1>2. ASSUME NEW s \in Session, Call(s) \/ Failure(s) PROVE Typed'
  <2>1. lock \in Session \cup {NoSession}
    BY DEF Typed, TypeOK
  <2>2. CASE StoreRevocation(s) \/ StoreRevocationFails(s) \/ NothingRevoked(s)
    <3>1. lock' \in Session \cup {NoSession}
      BY <2>1, <2>2 DEF StoreRevocation, StoreRevocationFails, NothingRevoked, Return
    <3>2. QED
      BY <2>2, <3>1, RevokeTyped
  <2>3. CASE \/ RegenerateCrlAfterRevoke(s) \/ PutCrl(s) \/ StoreCrlNumber(s) \/ UploadBatch(s)
             \/ PutCrlFails(s) \/ StoreCrlNumberFails(s) \/ UploadBatchFails(s)
    <3>1. lock' \in Session \cup {NoSession}
      BY <2>1, <2>3 DEF RegenerateCrlAfterRevoke, PutCrl, StoreCrlNumber, UploadBatch, PutCrlFails,
                        StoreCrlNumberFails, UploadBatchFails, Succeed, Return
    <3>2. QED
      BY <2>3, <3>1, CrlTyped DEF RegenerateCrlAfterRevoke
  <2>4. QED
    BY <1>2, <2>2, <2>3, StoresTyped, SessionsTyped DEF Call, Failure
<1>3. CASE \E c \in Cert : Expire(c)
  <2>1. CASE Session = {}
    <3>1. TypeOK'
      BY <1>3 DEF Typed, TypeOK, Expire, vault, copy, command, answers
    <3>2. Positions'
      BY <1>3 DEF Typed, Positions, Marks, Expire, vault, copy, command, answers
    <3>3. QED
      BY <3>1, <3>2 DEF Typed
  <2>2. CASE Session # {}
    BY <1>3, <2>2, SessionsTyped
  <2>3. QED
    BY <2>1, <2>2
<1>4. CASE UNCHANGED vars
  <2>1. TypeOK' /\ Positions'
    BY <1>4 DEF Typed, TypeOK, Positions, Marks, vars
  <2>2. QED
    BY <2>1 DEF Typed
<1>5. QED
  BY <1>1, <1>2, <1>3, <1>4 DEF Next

(***************************************************************************)
(* Every state variable keeps its type (ca.rs, and what it keeps in        *)
(* 1Password), for any number of sessions, open one at a time or not.      *)
(***************************************************************************)
THEOREM TypeCorrect == Spec => []TypeOK
<1>1. Typed => TypeOK
  BY DEF Typed
<1>2. Typed /\ [Next]_vars => Typed'
  BY StepTyped
<1>3. QED
  BY <1>1, <1>2, StartsTyped, PTL DEF Spec

-----------------------------------------------------------------------------
(* One session at a time *)

OneOpen == \A s, t \in Session : pc[s] # "closed" /\ pc[t] # "closed" => s = t

(***************************************************************************)
(* What a step does to where sessions are: only the one that is open       *)
(* moves, or one opens when none is.                                       *)
(***************************************************************************)
LEMMA OnlyOneMoves ==
  ASSUME Typed, OneOpen, ~Overlap, NEW s \in Session, Command(s) \/ Call(s) \/ Failure(s)
  PROVE  /\ \A t \in Session \ {s} : pc'[t] = "closed"
         /\ OneOpen'
<1>1. pc[s] # "closed" \/ Open(s)
  BY DEF Command, Call, Failure, Close, GenerateCrl, Locked, Unlocked, GenerateCertificateBundle, SignCsr,
         OnCert, RenewCertificateBundle, RekeyCertificateBundle, Reissue, RevokeCertificate, RevokeNext,
         DeleteCertificate, CreateItem, StoreCaDatabase, StoreRevocation, NothingRevoked,
         RegenerateCrlAfterRevoke, PutCrl, StoreCrlNumber, UploadBatch, ArchiveItem, CreateItemFails,
         StoreCaDatabaseFails, StoreRevocationFails, PutCrlFails, StoreCrlNumberFails, UploadBatchFails,
         ArchiveItemFails, Crash
<1>2. \A t \in Session \ {s} : pc[t] = "closed"
  BY <1>1 DEF OneOpen, Open
<1>3. pc \in [Session -> PCs]
  BY DEF Typed, TypeOK
<1>4. \E l : Goto(s, l)
  BY DEF Command, Call, Failure, Open, Close, GenerateCrl, GenerateCertificateBundle, SignCsr, Issue,
         OnCert, RenewCertificateBundle, RekeyCertificateBundle, Reissue, RevokeCertificate, RevokeNext,
         MarkRevoked, DeleteCertificate, CreateItem, StoreCaDatabase, StoreRevocation, NothingRevoked, SignCrl,
         RegenerateCrlAfterRevoke, PutCrl, StoreCrlNumber, UploadBatch, ArchiveItem, CreateItemFails,
         StoreCaDatabaseFails, StoreRevocationFails, PutCrlFails, StoreCrlNumberFails, UploadBatchFails,
         ArchiveItemFails, Crash, Return, Succeed
<1>5. \A t \in Session \ {s} : pc'[t] = pc[t]
  BY <1>3, <1>4 DEF Goto
<1>6. QED
  BY <1>2, <1>5 DEF OneOpen

-----------------------------------------------------------------------------
(* The parts of the invariant *)

\* A copy is never behind the document; the serial of a certificate being issued is
\* past all that the document has given out.
SerialOk(s) ==
    pc[s] # "closed" =>
        /\ saved.next <= mem[s].next
        /\ pc[s] \in {"create", "save"} /\ cur[s] # NoCert =>
              saved.next <= serialOf[cur[s]] /\ serialOf[cur[s]] < mem[s].next

SerialsSound ==
    /\ IssuedSerialsUnique
    /\ \A c \in issuedOk : serialOf[c] < saved.next
    /\ \A s \in Session : SerialOk(s)

Drafting == {"putCrl", "saveCrl", "upload"}

\* The numbers of a signed batch are past those of the uploaded one, and the counter is
\* stored past them before the upload.
NumberOk(s) ==
    pc[s] # "closed" =>
        /\ saved.nextCrl <= mem[s].nextCrl
        /\ pc[s] \in Drafting =>
              /\ draft[s].number >= 1
              /\ batch # NoCrl => batch.number + BatchSize <= draft[s].number
              /\ draft[s].number + CrlCount <= mem[s].nextCrl
        /\ pc[s] = "upload" => batching /\ saved.nextCrl = mem[s].nextCrl

NumbersSound ==
    /\ saved.nextCrl >= 1
    /\ batch # NoCrl => batch.number + BatchSize <= saved.nextCrl
    /\ \A s \in Session : NumberOk(s)

\* A copy has every stored revocation; what was classified is still right; what was
\* signed has all of the copy.
RevocationOk(s) ==
    pc[s] # "closed" =>
        /\ saved.revoked \subseteq mem[s].revoked
        /\ ~dirty[s] => mem[s].revoked \ gone \subseteq revokedSet[s]
        /\ revoking[s] \ gone \subseteq mem[s].revoked
        /\ pc[s] = "saveRevoked" => cur[s] \in mem[s].revoked \cup gone
        /\ pc[s] \in Drafting => \A c \in mem[s].revoked \ gone : serialOf[c] \in draft[s].lists
        /\ pc[s] \in {"saveCrl", "upload"} => crlDoc = draft[s]
        /\ pc[s] = "upload" => batching /\ saved.revoked = mem[s].revoked

RevocationsSound == RevocationStays /\ \A s \in Session : RevocationOk(s)

CaInv == Typed /\ OneOpen /\ SerialsSound /\ NumbersSound /\ RevocationsSound

\* The invariant, but for what is of no session but s.
Alone(s) == \A t \in Session \ {s} : pc[t] = "closed"

(***************************************************************************)
(* With the other sessions closed only the one that moved is in question.  *)
(***************************************************************************)
LEMMA OnlyOnesParts ==
  ASSUME NEW s \in Session, Alone(s)',
         IssuedSerialsUnique', \A c \in issuedOk' : serialOf'[c] < saved'.next, SerialOk(s)',
         saved'.nextCrl >= 1, batch' # NoCrl => batch'.number + BatchSize <= saved'.nextCrl, NumberOk(s)',
         RevocationStays', RevocationOk(s)'
  PROVE  SerialsSound' /\ NumbersSound' /\ RevocationsSound'
<1>1. \A t \in Session : t = s \/ pc'[t] = "closed"
  BY DEF Alone
<1>2. \A t \in Session : SerialOk(t)' /\ NumberOk(t)' /\ RevocationOk(t)'
  BY <1>1 DEF SerialOk, NumberOk, RevocationOk
<1>3. QED
  BY <1>2 DEF SerialsSound, NumbersSound, RevocationsSound

(***************************************************************************)
(* The invariant holds at the start.                                       *)
(***************************************************************************)
LEMMA CaStarts == Init => CaInv
<1> SUFFICES ASSUME Init PROVE CaInv
  OBVIOUS
<1>1. Typed
  BY StartsTyped
<1>2. saved.nextCrl = 1 /\ batch = NoCrl /\ issuedOk = {} /\ revokedOk = {} /\ \A s \in Session : pc[s] = "closed"
  BY DEF Init, EmptyDb
<1>3. QED
  BY <1>1, <1>2 DEF CaInv, OneOpen, SerialsSound, IssuedSerialsUnique, SerialOk, NumbersSound, NumberOk,
                    RevocationsSound, RevocationStays, RevocationOk

(***************************************************************************)
(* The numbers that are compared are numbers.                              *)
(***************************************************************************)
LEMMA AreNumbers ==
  ASSUME Typed
  PROVE  /\ saved.next \in Nat /\ saved.nextCrl \in Nat /\ batch.number \in Nat
         /\ \A c \in Cert : serialOf[c] \in Nat
         /\ \A s \in Session : mem[s].next \in Nat /\ mem[s].nextCrl \in Nat /\ draft[s].number \in Nat
         /\ CrlCount \in Nat \ {0} /\ BatchSize \in Nat \ {0} /\ (batching => CrlCount = BatchSize)
BY BoundAssumption DEF Typed, TypeOK, DB, Crl, CrlCount

(***************************************************************************)
(* A session that opens has the document; one that ends has nothing.       *)
(***************************************************************************)
LEMMA SessionsKeep ==
  ASSUME CaInv, NEW s \in Session, Alone(s)', Open(s) \/ Close(s) \/ Crash(s)
  PROVE  SerialsSound' /\ NumbersSound' /\ RevocationsSound'
<1>t. /\ pc \in [Session -> PCs] /\ mem \in [Session -> DB] /\ dirty \in [Session -> BOOLEAN]
      /\ saved \in DB /\ revoking \in [Session -> SUBSET Cert]
  BY DEF CaInv, Typed, TypeOK
<1>1. UNCHANGED <<saved, batch, crlDoc, issuedOk, revokedOk, serialOf, gone, batching>>
  BY DEF Open, Close, Crash, vault, certs, answers
<1>2. CASE Open(s)
  <2>1. pc'[s] = "idle" /\ mem'[s] = saved /\ dirty'[s] = TRUE /\ pc[s] = "closed" /\ revoking'[s] = revoking[s]
    BY <1>2, <1>t DEF Open, Goto, command
  <2>2. revoking[s] = {}
    BY <2>1 DEF CaInv, Typed, Positions
  <2>3. IssuedSerialsUnique' /\ (\A c \in issuedOk' : serialOf'[c] < saved'.next) /\ SerialOk(s)'
    BY <1>1, <2>1, AreNumbers DEF CaInv, SerialsSound, IssuedSerialsUnique, SerialOk
  <2>4. saved'.nextCrl >= 1 /\ (batch' # NoCrl => batch'.number + BatchSize <= saved'.nextCrl) /\ NumberOk(s)'
    BY <1>1, <2>1, AreNumbers DEF CaInv, NumbersSound, NumberOk, Drafting
  <2>5. RevocationStays' /\ RevocationOk(s)'
    BY <1>1, <2>1, <2>2 DEF CaInv, RevocationsSound, RevocationStays, RevocationOk, Drafting
  <2>6. QED
    BY <2>3, <2>4, <2>5, OnlyOnesParts
<1>3. CASE Close(s) \/ Crash(s)
  <2>1. pc'[s] = "closed"
    BY <1>3, <1>t DEF Close, Crash, Return, Goto
  <2>2. IssuedSerialsUnique' /\ (\A c \in issuedOk' : serialOf'[c] < saved'.next) /\ SerialOk(s)'
    BY <1>1, <2>1 DEF CaInv, SerialsSound, IssuedSerialsUnique, SerialOk
  <2>3. saved'.nextCrl >= 1 /\ (batch' # NoCrl => batch'.number + BatchSize <= saved'.nextCrl) /\ NumberOk(s)'
    BY <1>1, <2>1 DEF CaInv, NumbersSound, NumberOk
  <2>4. RevocationStays' /\ RevocationOk(s)'
    BY <1>1, <2>1 DEF CaInv, RevocationsSound, RevocationStays, RevocationOk
  <2>5. QED
    BY <2>2, <2>3, <2>4, OnlyOnesParts
<1>4. QED
  BY <1>2, <1>3

(***************************************************************************)
(* The serial that is taken is past all that were given out.               *)
(***************************************************************************)
LEMMA IssueKeeps ==
  ASSUME CaInv, NEW s \in Session, Alone(s)', NEW n \in CN, NEW csr \in BOOLEAN, Issue(s, n, csr), pc[s] = "idle"
  PROVE  SerialsSound' /\ NumbersSound' /\ RevocationsSound'
<1>t. /\ pc \in [Session -> PCs] /\ mem \in [Session -> DB] /\ dirty \in [Session -> BOOLEAN]
      /\ cur \in [Session -> Cert \cup {NoCert}] /\ serialOf \in [Cert -> Nat] /\ signed \in Nat
  BY DEF CaInv, Typed, TypeOK
<1>1. PICK c \in Cert : c = signed + 1 /\ serialOf' = [serialOf EXCEPT ![c] = mem[s].next]
  BY DEF Issue
<1>2. PICK q \in DB : /\ q = [mem[s] EXCEPT !.next = @ + 1]
                      /\ q.next = mem[s].next + 1 /\ q.nextCrl = mem[s].nextCrl /\ q.revoked = mem[s].revoked
  BY <1>t, TakesSerial
<1>3. /\ mem'[s] = q /\ pc'[s] = "create" /\ cur'[s] = c /\ dirty'[s] = TRUE
      /\ UNCHANGED <<saved, batch, crlDoc, issuedOk, revokedOk, gone, batching, revoking>>
  <2>1. mem' = [mem EXCEPT ![s] = q] /\ pc' = [pc EXCEPT ![s] = "create"] /\ cur' = [cur EXCEPT ![s] = c]
        /\ dirty' = [dirty EXCEPT ![s] = TRUE]
    BY <1>1, <1>2 DEF Issue, Goto
  <2>2. UNCHANGED <<saved, batch, crlDoc, issuedOk, revokedOk, gone, batching, revoking>>
    BY DEF Issue, vault, answers
  <2>3. QED
    BY <1>t, <2>1, <2>2
<1>4. serialOf'[c] = mem[s].next /\ (\A d \in Cert : d # c => serialOf'[d] = serialOf[d])
  BY <1>t, <1>1
<1>5. c \notin Marks /\ issuedOk \subseteq Marks /\ revokedOk \subseteq Marks /\ issuedOk \subseteq Cert /\ revokedOk \subseteq Cert
  BY <1>t, <1>1 DEF CaInv, Typed, TypeOK, Positions, Marks
<1>6. /\ \A d \in issuedOk : serialOf'[d] = serialOf[d]
      /\ \A d \in revokedOk : serialOf'[d] = serialOf[d]
  BY <1>4, <1>5
<1>7. saved.next <= mem[s].next /\ saved.nextCrl <= mem[s].nextCrl /\ saved.revoked \subseteq mem[s].revoked
      /\ revoking[s] \ gone \subseteq mem[s].revoked
  BY DEF CaInv, SerialsSound, SerialOk, NumbersSound, NumberOk, RevocationsSound, RevocationOk
<1>8. Typed
  BY DEF CaInv
<1>9. IssuedSerialsUnique' /\ (\A d \in issuedOk' : serialOf'[d] < saved'.next) /\ SerialOk(s)'
  <2>1. IssuedSerialsUnique' /\ (\A d \in issuedOk' : serialOf'[d] < saved'.next)
    BY <1>3, <1>6 DEF CaInv, SerialsSound, IssuedSerialsUnique
  <2>2. saved.next <= mem[s].next + 1 /\ mem[s].next < mem[s].next + 1
    BY <1>7, <1>8, AreNumbers
  <2>3. QED
    BY <1>2, <1>3, <1>4, <1>7, <2>1, <2>2 DEF SerialOk
<1>10. saved'.nextCrl >= 1 /\ (batch' # NoCrl => batch'.number + BatchSize <= saved'.nextCrl) /\ NumberOk(s)'
  BY <1>2, <1>3, <1>7 DEF CaInv, NumbersSound, NumberOk, Drafting
<1>11. RevocationStays' /\ RevocationOk(s)'
  <2>1. RevocationStays'
    BY <1>3, <1>6 DEF CaInv, RevocationsSound, RevocationStays
  <2>2. RevocationOk(s)'
    BY <1>2, <1>3, <1>7 DEF RevocationOk, Drafting
  <2>3. QED
    BY <2>1, <2>2
<1>12. QED
  BY <1>9, <1>10, <1>11, OnlyOnesParts

(***************************************************************************)
(* A command ends, with its last call done or failed: success is reported  *)
(* only after what it stands for is stored.                                *)
(***************************************************************************)
LEMMA CommandEnds ==
  ASSUME CaInv, NEW s \in Session, Alone(s)', pc[s] # "closed", pc'[s] = "idle", revoking'[s] = {},
         UNCHANGED <<mem, dirty, revokedSet, serialOf, gone, batching>>,
         saved' \in {saved, mem[s]},
         crlDoc' = crlDoc \/ (pc[s] \in Drafting /\ crlDoc' = draft[s]),
         batch' = batch \/ (pc[s] = "upload" /\ batch' = draft[s]),
         \/ issuedOk' = issuedOk
         \/ pc[s] = "save" /\ saved' = mem[s] /\ issuedOk' = issuedOk \cup ({cur[s]} \ {NoCert}),
         \/ revokedOk' = revokedOk
         \/ /\ revokedOk' = revokedOk \cup revoking[s]
            /\ \/ pc[s] = "saveCrl" /\ ~batching /\ saved' = mem[s] /\ crlDoc' = crlDoc
               \/ pc[s] = "upload" /\ batch' = draft[s] /\ crlDoc' = crlDoc
  PROVE  SerialsSound' /\ NumbersSound' /\ RevocationsSound'
<1>t. Typed /\ SerialOk(s) /\ NumberOk(s) /\ RevocationOk(s) /\ issuedOk \subseteq Cert /\ cur[s] \in Cert \cup {NoCert}
  BY DEF CaInv, SerialsSound, NumbersSound, RevocationsSound, Typed, TypeOK
<1>1. saved.next <= saved'.next /\ saved'.next <= mem[s].next
      /\ saved.nextCrl <= saved'.nextCrl /\ saved'.nextCrl <= mem[s].nextCrl
      /\ saved.revoked \subseteq saved'.revoked /\ saved'.revoked \subseteq mem[s].revoked
      /\ saved'.next \in Nat /\ saved'.nextCrl \in Nat
  <2>1. CASE saved' = saved
    BY <1>t, <2>1, AreNumbers DEF SerialOk, NumberOk, RevocationOk
  <2>2. CASE saved' = mem[s]
    BY <1>t, <2>2, AreNumbers DEF SerialOk, NumberOk, RevocationOk
  <2>3. QED
    BY <2>1, <2>2
<1>2. IssuedSerialsUnique' /\ (\A c \in issuedOk' : serialOf'[c] < saved'.next)
  <2>1. \A c \in issuedOk : serialOf[c] < saved.next /\ serialOf[c] \in Nat
    BY <1>t, AreNumbers DEF CaInv, SerialsSound
  <2>2. \A c \in issuedOk : serialOf[c] < saved'.next
    BY <1>1, <1>t, <2>1, AreNumbers
  <2>3. CASE issuedOk' = issuedOk
    BY <2>2, <2>3 DEF CaInv, SerialsSound, IssuedSerialsUnique
  <2>4. CASE pc[s] = "save" /\ saved' = mem[s] /\ issuedOk' = issuedOk \cup ({cur[s]} \ {NoCert})
    <3>1. cur[s] # NoCert => saved.next <= serialOf[cur[s]] /\ serialOf[cur[s]] < saved'.next
                             /\ serialOf[cur[s]] \in Nat
      BY <1>t, <2>4, AreNumbers DEF SerialOk
    <3>2. \A c \in issuedOk : cur[s] # NoCert => serialOf[c] # serialOf[cur[s]]
      BY <1>t, <2>1, <3>1, AreNumbers
    <3>3. \A c \in issuedOk' : serialOf[c] < saved'.next
      BY <2>2, <2>4, <3>1
    <3>4. \A c1, c2 \in issuedOk' : serialOf[c1] = serialOf[c2] => c1 = c2
      BY <2>4, <3>2 DEF CaInv, SerialsSound, IssuedSerialsUnique
    <3>5. QED
      BY <3>3, <3>4 DEF IssuedSerialsUnique
  <2>5. QED
    BY <2>3, <2>4
<1>3. SerialOk(s)'
  BY <1>1 DEF SerialOk
<1>4. saved'.nextCrl >= 1 /\ (batch' # NoCrl => batch'.number + BatchSize <= saved'.nextCrl) /\ NumberOk(s)'
  <2>1. saved'.nextCrl >= 1
    BY <1>1, <1>t, AreNumbers DEF CaInv, NumbersSound
  <2>2. NumberOk(s)'
    BY <1>1 DEF NumberOk, Drafting
  <2>3. CASE batch' = batch
    <3>1. batch # NoCrl => batch.number + BatchSize <= saved.nextCrl
      BY DEF CaInv, NumbersSound
    <3>2. batch # NoCrl => batch.number + BatchSize <= saved'.nextCrl
      BY <1>1, <1>t, <3>1, AreNumbers
    <3>3. QED
      BY <2>1, <2>2, <2>3, <3>2
  <2>4. CASE pc[s] = "upload" /\ batch' = draft[s]
    <3>1. draft[s].number + CrlCount <= mem[s].nextCrl /\ CrlCount = BatchSize /\ saved.nextCrl = mem[s].nextCrl
      BY <1>t, <2>4, AreNumbers DEF NumberOk, Drafting
    <3>2. batch'.number + BatchSize <= saved'.nextCrl
      BY <1>1, <1>t, <2>4, <3>1, AreNumbers
    <3>3. QED
      BY <2>1, <2>2, <3>2
  <2>5. QED
    BY <2>3, <2>4
<1>5. RevocationStays'
  <2>1. \A c \in revokedOk \ gone : /\ c \in saved.revoked /\ serialOf[c] \in crlDoc.lists
                                    /\ batching => serialOf[c] \in batch.lists
    BY DEF CaInv, RevocationsSound, RevocationStays
  <2>2. pc[s] \in Drafting => \A c \in mem[s].revoked \ gone : serialOf[c] \in draft[s].lists
    BY <1>t DEF RevocationOk, Drafting
  <2>3. \A c \in revokedOk \ gone : c \in saved'.revoked /\ c \in mem[s].revoked
    BY <1>1, <2>1
  <2>4. \A c \in revokedOk \ gone : serialOf[c] \in crlDoc'.lists
    BY <2>1, <2>2, <2>3
  <2>5. \A c \in revokedOk \ gone : batching => serialOf[c] \in batch'.lists
    BY <2>1, <2>2, <2>3 DEF Drafting
  <2>6. CASE revokedOk' = revokedOk
    BY <2>3, <2>4, <2>5, <2>6 DEF RevocationStays
  <2>7. CASE /\ revokedOk' = revokedOk \cup revoking[s]
             /\ \/ pc[s] = "saveCrl" /\ ~batching /\ saved' = mem[s] /\ crlDoc' = crlDoc
                \/ pc[s] = "upload" /\ batch' = draft[s] /\ crlDoc' = crlDoc
    <3>1. revoking[s] \ gone \subseteq mem[s].revoked /\ crlDoc' = draft[s]
      BY <1>t, <2>7 DEF RevocationOk
    <3>2. saved'.revoked = mem[s].revoked
      BY <1>t, <2>7 DEF RevocationOk
    <3>3. \A c \in revoking[s] \ gone : /\ c \in saved'.revoked /\ serialOf[c] \in crlDoc'.lists
                                        /\ batching => serialOf[c] \in batch'.lists
      BY <2>2, <2>7, <3>1, <3>2 DEF Drafting
    <3>4. QED
      BY <2>3, <2>4, <2>5, <2>7, <3>3 DEF RevocationStays
  <2>8. QED
    BY <2>6, <2>7
<1>6. RevocationOk(s)'
  BY <1>1, <1>t DEF RevocationOk, Drafting
<1>7. QED
  BY <1>2, <1>3, <1>4, <1>5, <1>6, OnlyOnesParts

(***************************************************************************)
(* Steps inside a command that store nothing and sign nothing: what the    *)
(* copy marks, classifies or holds stays as far as the document.           *)
(***************************************************************************)
LEMMA CommandGoesOn ==
  ASSUME CaInv, NEW s \in Session, Alone(s)', pc[s] # "closed", pc'[s] \notin Drafting,
         UNCHANGED <<saved, batch, crlDoc, issuedOk, revokedOk, serialOf, gone, batching, revoking>>,
         mem'[s].next = mem[s].next, mem'[s].nextCrl = mem[s].nextCrl, mem[s].revoked \subseteq mem'[s].revoked,
         pc'[s] \in {"create", "save"} /\ cur'[s] # NoCert => pc[s] = "create" /\ cur'[s] = cur[s],
         pc'[s] = "saveRevoked" => cur'[s] \in mem'[s].revoked \cup gone,
         dirty'[s] \/ mem'[s].revoked \ gone \subseteq revokedSet'[s]
  PROVE  SerialsSound' /\ NumbersSound' /\ RevocationsSound'
<1>t. SerialOk(s) /\ NumberOk(s) /\ RevocationOk(s)
  BY DEF CaInv, SerialsSound, NumbersSound, RevocationsSound
<1>1. IssuedSerialsUnique' /\ (\A c \in issuedOk' : serialOf'[c] < saved'.next) /\ SerialOk(s)'
  BY <1>t DEF CaInv, SerialsSound, IssuedSerialsUnique, SerialOk
<1>2. saved'.nextCrl >= 1 /\ (batch' # NoCrl => batch'.number + BatchSize <= saved'.nextCrl) /\ NumberOk(s)'
  BY <1>t DEF CaInv, NumbersSound, NumberOk, Drafting
<1>3. RevocationStays' /\ RevocationOk(s)'
  BY <1>t DEF CaInv, RevocationsSound, RevocationStays, RevocationOk, Drafting
<1>4. QED
  BY <1>1, <1>2, <1>3, OnlyOnesParts

(***************************************************************************)
(* Items, rows and marks.                                                  *)
(***************************************************************************)
LEMMA MarksKeep ==
  ASSUME CaInv, NEW s \in Session, Alone(s)',
         \/ CreateItem(s) \/ ArchiveItem(s)
         \/ \E c \in Cert : DeleteCertificate(s, c)
         \/ \E c \in Cert : MarkRevoked(s, c) /\ pc[s] # "closed"
  PROVE  SerialsSound' /\ NumbersSound' /\ RevocationsSound'
<1>t. /\ pc \in [Session -> PCs] /\ mem \in [Session -> DB] /\ dirty \in [Session -> BOOLEAN]
      /\ revokedSet \in [Session -> SUBSET Cert] /\ gone \in SUBSET Cert
      /\ cur \in [Session -> Cert \cup {NoCert}] /\ Typed
  BY DEF CaInv, Typed, TypeOK
<1>1. CASE CreateItem(s)
  <2>1. PICK c \in Cert : c = cur[s]
    BY <1>1 DEF CaInv, Typed, TypeOK, Positions, CreateItem
  <2>2. PICK q \in DB : /\ q = [mem[s] EXCEPT !.rows = @ \cup {c}]
                        /\ q.next = mem[s].next /\ q.nextCrl = mem[s].nextCrl /\ q.revoked = mem[s].revoked
    <3>1. mem[s] \in DB
      BY <1>t
    <3>2. QED
      BY <3>1, AddsRow
  <2>3. mem' = [mem EXCEPT ![s] = q]
    BY <1>1, <2>1, <2>2 DEF CreateItem
  <2>4. mem'[s] = q /\ pc[s] = "create" /\ pc'[s] = "save" /\ dirty'[s] = TRUE
    BY <1>1, <1>t, <2>3 DEF CreateItem, Goto
  <2>5. UNCHANGED <<saved, batch, crlDoc, issuedOk, revokedOk, serialOf, gone, batching, revoking, cur>>
    BY <1>1 DEF CreateItem, certs, command, answers
  <2>6. QED
    BY <2>2, <2>4, <2>5, CommandGoesOn DEF Drafting
<1>2. CASE ArchiveItem(s)
  <2>1. PICK c \in Cert : c = target[s]
    BY <1>2 DEF CaInv, Typed, TypeOK, Positions, ArchiveItem
  <2>2. PICK q \in DB : /\ q = [mem[s] EXCEPT !.deleted = @ \cup {c}]
                        /\ q.next = mem[s].next /\ q.nextCrl = mem[s].nextCrl /\ q.revoked = mem[s].revoked
    <3>1. mem[s] \in DB
      BY <1>t
    <3>2. QED
      BY <3>1, MarksDeleted
  <2>3. mem' = [mem EXCEPT ![s] = q]
    BY <1>2, <2>1, <2>2 DEF ArchiveItem
  <2>4. mem'[s] = q /\ pc[s] = "archive" /\ pc'[s] = "save" /\ dirty'[s] = TRUE /\ cur[s] = NoCert
    BY <1>2, <1>t, <2>3 DEF ArchiveItem, Goto, Typed, Positions
  <2>5. UNCHANGED <<saved, batch, crlDoc, issuedOk, revokedOk, serialOf, gone, batching, revoking, cur>>
    BY <1>2 DEF ArchiveItem, certs, command, answers
  <2>6. QED
    BY <2>2, <2>4, <2>5, CommandGoesOn DEF Drafting
<1>3. CASE \E c \in Cert : DeleteCertificate(s, c)
  <2>1. PICK c \in Cert : DeleteCertificate(s, c)
    BY <1>3
  <2>2. PICK q \in DB :
           /\ mem' = [mem EXCEPT ![s] = q] /\ revokedSet' = [revokedSet EXCEPT ![s] = q.revoked \ gone]
           /\ q.next = mem[s].next /\ q.nextCrl = mem[s].nextCrl /\ q.revoked = mem[s].revoked
    BY <1>t, <2>1, DeleteIs
  <2>3. mem'[s] = q /\ revokedSet'[s] = q.revoked \ gone
    BY <1>t, <2>2
  <2>4. pc[s] = "idle" /\ pc'[s] = "archive"
    BY <1>t, <2>1 DEF DeleteCertificate, Locked, Goto
  <2>5. UNCHANGED <<saved, batch, crlDoc, issuedOk, revokedOk, serialOf, gone, batching, revoking, cur>>
    BY <2>1 DEF DeleteCertificate, vault, certs, answers
  <2>6. QED
    BY <2>2, <2>3, <2>4, <2>5, CommandGoesOn DEF Drafting
<1>4. CASE \E c \in Cert : MarkRevoked(s, c) /\ pc[s] # "closed"
  <2>1. PICK c \in Cert : MarkRevoked(s, c) /\ pc[s] # "closed"
    BY <1>4
  <2>2. PICK q \in DB : /\ q = Process(mem[s], {c})
                        /\ q.next = mem[s].next /\ q.nextCrl = mem[s].nextCrl
                        /\ q.revoked = mem[s].revoked \cup ({c} \ gone)
    <3>1. {c} \in SUBSET Cert /\ mem[s] \in DB
      BY <1>t
    <3>2. QED
      BY <1>t, <3>1, Processes
  <2>3. mem' = [mem EXCEPT ![s] = q]
    BY <2>1, <2>2 DEF MarkRevoked
  <2>4. mem'[s] = q /\ pc'[s] = "saveRevoked" /\ cur'[s] = c
    BY <1>t, <2>1, <2>3 DEF MarkRevoked, Goto
  <2>5. revokedSet'[s] = q.revoked \ gone
    BY <1>t, <2>1, <2>4 DEF MarkRevoked, Classified
  <2>6. UNCHANGED <<saved, batch, crlDoc, issuedOk, revokedOk, serialOf, gone, batching, revoking>>
    BY <2>1 DEF MarkRevoked, vault, certs, answers
  <2>7. QED
    BY <2>1, <2>2, <2>4, <2>5, <2>6, CommandGoesOn DEF Drafting
<1>5. QED
  BY <1>1, <1>2, <1>3, <1>4

(***************************************************************************)
(* A revocation is stored, or not, and the command goes on.                *)
(***************************************************************************)
LEMMA RevocationStored ==
  ASSUME CaInv, NEW s \in Session, Alone(s)', StoreRevocation(s) \/ StoreRevocationFails(s)
  PROVE  SerialsSound' /\ NumbersSound' /\ RevocationsSound'
<1>t. /\ pc \in [Session -> PCs] /\ revoking \in [Session -> SUBSET Cert] /\ Typed
      /\ SerialOk(s) /\ NumberOk(s) /\ RevocationOk(s)
  BY DEF CaInv, Typed, TypeOK, SerialsSound, NumbersSound, RevocationsSound
<1>1. /\ pc[s] = "saveRevoked" /\ pc'[s] = "revoked" /\ saved' \in {saved, mem[s]}
      /\ UNCHANGED <<mem, dirty, revokedSet, batch, crlDoc, issuedOk, revokedOk, serialOf, gone, batching, cur>>
  BY <1>t DEF StoreRevocation, StoreRevocationFails, Goto, certs, copy, command, answers
<1>2. revoking'[s] \subseteq revoking[s] \cup {cur[s]}
  BY <1>t DEF StoreRevocation, StoreRevocationFails, command
<1>3. saved.next <= saved'.next /\ saved'.next <= mem[s].next
      /\ saved.nextCrl <= saved'.nextCrl /\ saved'.nextCrl <= mem[s].nextCrl
      /\ saved.revoked \subseteq saved'.revoked /\ saved'.revoked \subseteq mem[s].revoked
      /\ saved'.next \in Nat /\ saved'.nextCrl \in Nat
  <2>1. CASE saved' = saved
    BY <1>1, <1>t, <2>1, AreNumbers DEF SerialOk, NumberOk, RevocationOk
  <2>2. CASE saved' = mem[s]
    BY <1>1, <1>t, <2>2, AreNumbers DEF SerialOk, NumberOk, RevocationOk
  <2>3. QED
    BY <1>1, <2>1, <2>2
<1>4. IssuedSerialsUnique' /\ (\A c \in issuedOk' : serialOf'[c] < saved'.next) /\ SerialOk(s)'
  <2>1. \A c \in issuedOk : serialOf[c] < saved.next /\ serialOf[c] \in Nat
    BY <1>t, AreNumbers DEF CaInv, SerialsSound, Typed, TypeOK
  <2>2. \A c \in issuedOk : serialOf[c] < saved'.next
    BY <1>3, <1>t, <2>1, AreNumbers
  <2>3. QED
    BY <1>1, <1>3, <2>2 DEF CaInv, SerialsSound, IssuedSerialsUnique, SerialOk
<1>5. saved'.nextCrl >= 1 /\ (batch' # NoCrl => batch'.number + BatchSize <= saved'.nextCrl) /\ NumberOk(s)'
  <2>1. saved'.nextCrl >= 1
    BY <1>3, <1>t, AreNumbers DEF CaInv, NumbersSound
  <2>2. batch # NoCrl => batch.number + BatchSize <= saved'.nextCrl
    <3>1. batch # NoCrl => batch.number + BatchSize <= saved.nextCrl
      BY DEF CaInv, NumbersSound
    <3>2. QED
      BY <1>3, <1>t, <3>1, AreNumbers
  <2>3. NumberOk(s)'
    BY <1>1, <1>3 DEF NumberOk, Drafting
  <2>4. QED
    BY <1>1, <2>1, <2>2, <2>3
<1>6. RevocationStays' /\ RevocationOk(s)'
  <2>1. RevocationStays'
    BY <1>1, <1>3 DEF CaInv, RevocationsSound, RevocationStays
  <2>2. cur[s] \in mem[s].revoked \cup gone /\ revoking[s] \ gone \subseteq mem[s].revoked
    BY <1>1, <1>t DEF RevocationOk
  <2>3. revoking'[s] \ gone \subseteq mem[s].revoked
    BY <1>2, <2>2
  <2>4. RevocationOk(s)'
    BY <1>1, <1>3, <1>t, <2>3 DEF RevocationOk, Drafting
  <2>5. QED
    BY <2>1, <2>4
<1>7. QED
  BY <1>4, <1>5, <1>6, OnlyOnesParts

(***************************************************************************)
(* A CRL is signed: its numbers are past the uploaded batch's, and it      *)
(* lists every revocation the copy has.                                    *)
(***************************************************************************)
LEMMA SignKeeps ==
  ASSUME CaInv, NEW s \in Session, Alone(s)', SignCrl(s), pc[s] # "closed"
  PROVE  SerialsSound' /\ NumbersSound' /\ RevocationsSound'
<1>t. /\ pc \in [Session -> PCs] /\ mem \in [Session -> DB] /\ revokedSet \in [Session -> SUBSET Cert]
      /\ dirty \in [Session -> BOOLEAN] /\ draft \in [Session -> Crl] /\ Typed
      /\ SerialOk(s) /\ NumberOk(s) /\ RevocationOk(s)
  BY DEF CaInv, Typed, TypeOK, SerialsSound, NumbersSound, RevocationsSound
<1>1. PICK q \in DB, r \in SUBSET Cert :
           /\ mem' = [mem EXCEPT ![s] = q] /\ revokedSet' = [revokedSet EXCEPT ![s] = r]
           /\ q.next = mem[s].next /\ q.nextCrl = mem[s].nextCrl + CrlCount /\ q.rows = mem[s].rows
           /\ q.revoked = mem[s].revoked
           /\ (dirty[s] => r = mem[s].revoked \ gone) /\ (~dirty[s] => r = revokedSet[s])
           /\ draft' = [draft EXCEPT ![s] = [number |-> mem[s].nextCrl, lists |-> Serials(r)]]
           /\ [number |-> mem[s].nextCrl, lists |-> Serials(r)] \in Crl
  <2>1. Typed /\ SignCrl(s)
    BY <1>t
  <2>2. QED
    BY <2>1, Signs
<1>2. mem'[s] = q /\ draft'[s].number = mem[s].nextCrl /\ draft'[s].lists = Serials(r)
  BY <1>1, <1>t
<1>3. pc'[s] = "putCrl" /\ dirty'[s] = TRUE
      /\ UNCHANGED <<saved, batch, crlDoc, issuedOk, revokedOk, serialOf, gone, batching, revoking, cur>>
  BY <1>t DEF SignCrl, Goto, vault, certs, answers
<1>4. IssuedSerialsUnique' /\ (\A c \in issuedOk' : serialOf'[c] < saved'.next) /\ SerialOk(s)'
  BY <1>1, <1>2, <1>3, <1>t DEF CaInv, SerialsSound, IssuedSerialsUnique, SerialOk
<1>5. saved'.nextCrl >= 1 /\ (batch' # NoCrl => batch'.number + BatchSize <= saved'.nextCrl) /\ NumberOk(s)'
  <2>1. saved.nextCrl <= mem[s].nextCrl /\ saved.nextCrl >= 1
        /\ (batch # NoCrl => batch.number + BatchSize <= saved.nextCrl)
    BY <1>t DEF CaInv, NumbersSound, NumberOk
  <2>2. mem[s].nextCrl >= 1 /\ saved.nextCrl <= mem[s].nextCrl + CrlCount
        /\ (batch # NoCrl => batch.number + BatchSize <= mem[s].nextCrl)
    BY <1>t, <2>1, AreNumbers
  <2>3. CrlCount' = CrlCount
    BY <1>3 DEF CrlCount
  <2>4. mem[s].nextCrl + CrlCount <= mem[s].nextCrl + CrlCount
    BY <1>t, AreNumbers
  <2>5. NumberOk(s)'
    BY <1>1, <1>2, <1>3, <2>2, <2>3, <2>4 DEF NumberOk, Drafting
  <2>6. QED
    BY <1>3, <2>1, <2>5
<1>6. RevocationStays' /\ RevocationOk(s)'
  <2>1. RevocationStays'
    BY <1>3 DEF CaInv, RevocationsSound, RevocationStays
  <2>2. mem[s].revoked \ gone \subseteq r
    BY <1>1, <1>t DEF RevocationOk
  <2>3. \A c \in mem[s].revoked \ gone : serialOf[c] \in Serials(r)
    BY <2>2 DEF Serials
  <2>4. RevocationOk(s)'
    BY <1>1, <1>2, <1>3, <1>t, <2>3 DEF RevocationOk, Drafting
  <2>5. QED
    BY <2>1, <2>4
<1>7. QED
  BY <1>4, <1>5, <1>6, OnlyOnesParts

(***************************************************************************)
(* The CRL is published and its number stored; a batch is not yet uploaded.*)
(***************************************************************************)
LEMMA PublishKeeps ==
  ASSUME CaInv, NEW s \in Session, Alone(s)', PutCrl(s) \/ (StoreCrlNumber(s) /\ batching)
  PROVE  SerialsSound' /\ NumbersSound' /\ RevocationsSound'
<1>t. /\ pc \in [Session -> PCs] /\ Typed /\ SerialOk(s) /\ NumberOk(s) /\ RevocationOk(s)
  BY DEF CaInv, Typed, TypeOK, SerialsSound, NumbersSound, RevocationsSound
<1>0. UNCHANGED <<mem, dirty, revokedSet, batch, issuedOk, revokedOk, serialOf, gone, batching, cur, draft, revoking>>
  BY DEF PutCrl, StoreCrlNumber, certs, copy, command, answers
<1>c. CrlCount' = CrlCount
  BY <1>0 DEF CrlCount
<1>1. CASE PutCrl(s)
  <2>1. pc[s] = "putCrl" /\ pc'[s] = "saveCrl" /\ crlDoc' = draft[s] /\ saved' = saved
    BY <1>1, <1>t DEF PutCrl, Goto
  <2>2. IssuedSerialsUnique' /\ (\A c \in issuedOk' : serialOf'[c] < saved'.next) /\ SerialOk(s)'
    BY <1>0, <1>t, <2>1 DEF CaInv, SerialsSound, IssuedSerialsUnique, SerialOk
  <2>3. saved'.nextCrl >= 1 /\ (batch' # NoCrl => batch'.number + BatchSize <= saved'.nextCrl) /\ NumberOk(s)'
    BY <1>0, <1>c, <1>t, <2>1 DEF CaInv, NumbersSound, NumberOk, Drafting
  <2>4. RevocationStays'
    BY <1>0, <1>t, <2>1 DEF CaInv, RevocationsSound, RevocationStays, RevocationOk, Drafting
  <2>5. RevocationOk(s)'
    BY <1>0, <1>t, <2>1 DEF RevocationOk, Drafting
  <2>6. QED
    BY <2>2, <2>3, <2>4, <2>5, OnlyOnesParts
<1>2. CASE StoreCrlNumber(s) /\ batching
  <2>1. pc[s] = "saveCrl" /\ pc'[s] = "upload" /\ crlDoc' = crlDoc /\ saved' = mem[s] /\ batching
    BY <1>2, <1>t DEF StoreCrlNumber, Goto
  <2>2. IssuedSerialsUnique' /\ (\A c \in issuedOk' : serialOf'[c] < saved'.next) /\ SerialOk(s)'
    <3>1. \A c \in issuedOk : serialOf[c] < saved.next /\ serialOf[c] \in Nat
      BY <1>t, AreNumbers DEF CaInv, SerialsSound, Typed, TypeOK
    <3>2. saved.next <= mem[s].next
      BY <1>t, <2>1 DEF SerialOk
    <3>3. (\A c \in issuedOk : serialOf[c] < mem[s].next) /\ mem[s].next <= mem[s].next
      BY <1>t, <3>1, <3>2, AreNumbers
    <3>4. QED
      BY <1>0, <2>1, <3>3 DEF CaInv, SerialsSound, IssuedSerialsUnique, SerialOk
  <2>3. saved'.nextCrl >= 1 /\ (batch' # NoCrl => batch'.number + BatchSize <= saved'.nextCrl) /\ NumberOk(s)'
    <3>1. saved.nextCrl >= 1 /\ (batch # NoCrl => batch.number + BatchSize <= saved.nextCrl)
          /\ saved.nextCrl <= mem[s].nextCrl
      BY <1>t, <2>1 DEF CaInv, NumbersSound, NumberOk
    <3>2. mem[s].nextCrl >= 1 /\ (batch # NoCrl => batch.number + BatchSize <= mem[s].nextCrl)
          /\ mem[s].nextCrl <= mem[s].nextCrl
      BY <1>t, <3>1, AreNumbers
    <3>3. NumberOk(s)'
      BY <1>0, <1>c, <1>t, <2>1, <3>2 DEF NumberOk, Drafting
    <3>4. QED
      BY <1>0, <2>1, <3>2, <3>3
  <2>4. RevocationStays'
    BY <1>0, <1>t, <2>1 DEF CaInv, RevocationsSound, RevocationStays, RevocationOk
  <2>5. RevocationOk(s)'
    BY <1>0, <1>t, <2>1 DEF RevocationOk, Drafting
  <2>6. QED
    BY <2>2, <2>3, <2>4, <2>5, OnlyOnesParts
<1>3. QED
  BY <1>1, <1>2

(***************************************************************************)
(* As certificates expire, less has to be listed.                          *)
(***************************************************************************)
LEMMA ExpireKeeps ==
  ASSUME CaInv, NEW c \in Cert, Expire(c)
  PROVE  OneOpen' /\ SerialsSound' /\ NumbersSound' /\ RevocationsSound'
<1>1. gone \subseteq gone'
      /\ UNCHANGED <<saved, batch, crlDoc, pc, mem, dirty, revokedSet, issuedOk, revokedOk, serialOf, batching, cur, draft, revoking>>
  BY DEF Expire, vault, copy, command, answers
<1>2. OneOpen' /\ SerialsSound'
  BY <1>1 DEF CaInv, OneOpen, SerialsSound, IssuedSerialsUnique, SerialOk
<1>3. NumbersSound'
  BY <1>1 DEF CaInv, NumbersSound, NumberOk, CrlCount
<1>4. RevocationStays'
  BY <1>1 DEF CaInv, RevocationsSound, RevocationStays
<1>5. \A s \in Session : RevocationOk(s)'
  BY <1>1 DEF CaInv, RevocationsSound, RevocationOk
<1>6. QED
  BY <1>2, <1>3, <1>4, <1>5 DEF RevocationsSound

(***************************************************************************)
(* A call or command of a session keeps the invariant.                     *)
(***************************************************************************)
LEMMA SessionKeeps ==
  ASSUME CaInv, ~Overlap, NEW s \in Session, Command(s) \/ Call(s) \/ Failure(s)
  PROVE  OneOpen' /\ SerialsSound' /\ NumbersSound' /\ RevocationsSound'
<1>1. Typed
  BY DEF CaInv
<1>2. Alone(s)' /\ OneOpen'
  BY <1>1, OnlyOneMoves DEF CaInv, Alone
<1>3. pc \in [Session -> PCs] /\ draft \in [Session -> Crl] /\ revoking \in [Session -> SUBSET Cert]
  BY DEF CaInv, Typed, TypeOK
<1>4. CASE Open(s) \/ Close(s) \/ Crash(s)
  BY <1>2, <1>4, SessionsKeep
<1>5. CASE \E n \in CN, csr \in BOOLEAN : Issue(s, n, csr) /\ pc[s] = "idle"
  BY <1>2, <1>5, IssueKeeps
<1>6. CASE \/ CreateItem(s) \/ ArchiveItem(s)
           \/ \E c \in Cert : DeleteCertificate(s, c)
           \/ \E c \in Cert : MarkRevoked(s, c) /\ pc[s] # "closed"
  BY <1>2, <1>6, MarksKeep
<1>7. CASE StoreRevocation(s) \/ StoreRevocationFails(s)
  BY <1>2, <1>7, RevocationStored
<1>8. CASE SignCrl(s) /\ pc[s] # "closed"
  BY <1>2, <1>8, SignKeeps
<1>9. CASE PutCrl(s) \/ (StoreCrlNumber(s) /\ batching)
  BY <1>2, <1>9, PublishKeeps
<1>10. CASE \/ CreateItemFails(s) \/ StoreCaDatabaseFails(s) \/ StoreCrlNumberFails(s) \/ ArchiveItemFails(s)
            \/ NothingRevoked(s)
  <2>1. Return(s, "idle") /\ pc[s] # "closed"
    BY <1>10 DEF CreateItemFails, StoreCaDatabaseFails, StoreCrlNumberFails, ArchiveItemFails, NothingRevoked
  <2>2. pc'[s] = "idle" /\ revoking'[s] = {}
    BY <1>3, <2>1 DEF Return, Goto
  <2>3. UNCHANGED <<mem, dirty, revokedSet, serialOf, gone, batching, crlDoc, batch, issuedOk, revokedOk>>
        /\ saved' \in {saved, mem[s]}
    BY <1>10 DEF CreateItemFails, StoreCaDatabaseFails, StoreCrlNumberFails, ArchiveItemFails, NothingRevoked,
                 vault, certs, copy, answers
  <2>4. QED
    BY <1>2, <2>1, <2>2, <2>3, CommandEnds
<1>11. CASE PutCrlFails(s) \/ UploadBatchFails(s)
  <2>1. Return(s, "idle") /\ pc[s] \in Drafting /\ pc[s] # "closed"
    BY <1>11 DEF PutCrlFails, UploadBatchFails, Drafting
  <2>2. pc'[s] = "idle" /\ revoking'[s] = {}
    BY <1>3, <2>1 DEF Return, Goto
  <2>3. UNCHANGED <<mem, dirty, revokedSet, serialOf, gone, batching, saved, issuedOk, revokedOk>>
        /\ crlDoc' \in {crlDoc, draft[s]} /\ (batch' = batch \/ (pc[s] = "upload" /\ batch' = draft[s]))
    BY <1>11 DEF PutCrlFails, UploadBatchFails, certs, copy, answers
  <2>4. QED
    BY <1>2, <2>1, <2>2, <2>3, CommandEnds
<1>12. CASE StoreCaDatabase(s)
  <2>1. Return(s, "idle") /\ pc[s] = "save"
    BY <1>12 DEF StoreCaDatabase
  <2>2. pc'[s] = "idle" /\ revoking'[s] = {}
    BY <1>3, <2>1 DEF Return, Goto
  <2>3. UNCHANGED <<mem, dirty, revokedSet, serialOf, gone, batching, crlDoc, batch, revokedOk>>
        /\ saved' = mem[s] /\ issuedOk' = issuedOk \cup ({cur[s]} \ {NoCert})
    BY <1>12 DEF StoreCaDatabase, certs, copy
  <2>4. QED
    BY <1>2, <2>1, <2>2, <2>3, CommandEnds
<1>13. CASE StoreCrlNumber(s) /\ ~batching
  <2>1. Return(s, "idle") /\ pc[s] = "saveCrl" /\ revokedOk' = revokedOk \cup revoking[s] /\ issuedOk' = issuedOk
    BY <1>13 DEF StoreCrlNumber, Succeed
  <2>2. pc'[s] = "idle" /\ revoking'[s] = {}
    BY <1>3, <2>1 DEF Return, Goto
  <2>3. UNCHANGED <<mem, dirty, revokedSet, serialOf, gone, batching, crlDoc, batch>> /\ saved' = mem[s]
    BY <1>13 DEF StoreCrlNumber, certs, copy
  <2>4. QED
    BY <1>2, <1>13, <2>1, <2>2, <2>3, CommandEnds
<1>14. CASE UploadBatch(s)
  <2>1. Return(s, "idle") /\ pc[s] = "upload" /\ revokedOk' = revokedOk \cup revoking[s] /\ issuedOk' = issuedOk
    BY <1>14 DEF UploadBatch, Succeed
  <2>2. pc'[s] = "idle" /\ revoking'[s] = {}
    BY <1>3, <2>1 DEF Return, Goto
  <2>3. UNCHANGED <<mem, dirty, revokedSet, serialOf, gone, batching, crlDoc, saved>> /\ batch' = draft[s]
    BY <1>14 DEF UploadBatch, certs, copy
  <2>4. QED
    BY <1>2, <2>1, <2>2, <2>3, CommandEnds
<1>15. ASSUME GenerateCrl(s) \/ RegenerateCrlAfterRevoke(s)
       PROVE  SignCrl(s) /\ pc[s] # "closed"
  BY <1>15 DEF GenerateCrl, RegenerateCrlAfterRevoke, Locked, Unlocked
<1>16. ASSUME \E n \in CN : GenerateCertificateBundle(s, n) \/ SignCsr(s, n)
       PROVE  \E n \in CN, csr \in BOOLEAN : Issue(s, n, csr) /\ pc[s] = "idle"
  BY <1>16 DEF GenerateCertificateBundle, SignCsr, Locked, Unlocked
<1>17. ASSUME NEW c \in Cert, RenewCertificateBundle(s, c) \/ RekeyCertificateBundle(s, c)
       PROVE  \E n \in CN, csr \in BOOLEAN : Issue(s, n, csr) /\ pc[s] = "idle"
  <2>1. cnOf[c] \in CN
    BY <1>1 DEF Typed, TypeOK
  <2>2. QED
    BY <1>17, <2>1 DEF RenewCertificateBundle, RekeyCertificateBundle, Reissue, Locked
<1>18. ASSUME NEW c \in Cert, RevokeCertificate(s, c) \/ RevokeNext(s, c)
       PROVE  MarkRevoked(s, c) /\ pc[s] # "closed"
  BY <1>18 DEF RevokeCertificate, RevokeNext, Locked
<1>19. CASE Command(s)
  BY <1>2, <1>4, <1>5, <1>6, <1>8, <1>15, <1>16, <1>17, <1>18, <1>19 DEF Command, OnCert
<1>20. CASE Call(s) \/ Failure(s)
  BY <1>2, <1>4, <1>6, <1>7, <1>8, <1>9, <1>10, <1>11, <1>12, <1>13, <1>14, <1>15, <1>20 DEF Call, Failure
<1>21. QED
  BY <1>19, <1>20

(***************************************************************************)
(* Every step keeps the invariant, when one session is open at a time.     *)
(***************************************************************************)
LEMMA CaStep ==
  ASSUME CaInv, ~Overlap, [Next]_vars
  PROVE  CaInv'
<1>1. Typed'
  BY StepTyped DEF CaInv
<1>2. CASE \E s \in Session : Command(s) \/ Call(s) \/ Failure(s)
  BY <1>1, <1>2, SessionKeeps DEF CaInv
<1>3. CASE \E c \in Cert : Expire(c)
  BY <1>1, <1>3, ExpireKeeps DEF CaInv
<1>4. CASE UNCHANGED vars
  <2>1. OneOpen' /\ SerialsSound' /\ NumbersSound'
    BY <1>4 DEF CaInv, OneOpen, SerialsSound, IssuedSerialsUnique, SerialOk, NumbersSound, NumberOk, CrlCount, vars
  <2>2. RevocationsSound'
    BY <1>4 DEF CaInv, RevocationsSound, RevocationStays, RevocationOk, vars
  <2>3. QED
    BY <1>1, <2>1, <2>2 DEF CaInv
<1>5. QED
  BY <1>2, <1>3, <1>4 DEF Next

(***************************************************************************)
(* The invariant holds throughout, when one session is open at a time.     *)
(***************************************************************************)
LEMMA CaAlways ==
  ASSUME ~Overlap
  PROVE  Spec => []CaInv
<1>1. CaInv /\ [Next]_vars => CaInv'
  BY CaStep
<1>2. QED
  BY <1>1, CaStarts, PTL DEF Spec

(***************************************************************************)
(* No two certificates reported as issued share a serial, whichever calls  *)
(* failed and wherever sessions died (issue, store_ca_database), when one  *)
(* session is open at a time.                                              *)
(***************************************************************************)
THEOREM SerialsStayUnique ==
  ASSUME ~Overlap
  PROVE  Spec => []IssuedSerialsUnique
<1>1. CaInv => IssuedSerialsUnique
  BY DEF CaInv, SerialsSound
<1>2. QED
  BY <1>1, CaAlways, PTL

(***************************************************************************)
(* A revocation reported as done is in the database, on the CRL and on the *)
(* uploaded batch until the certificate expires (revoke_certificates,      *)
(* generate_crl, upload_crl_batch), when one session is open at a time.    *)
(***************************************************************************)
THEOREM RevocationsStay ==
  ASSUME ~Overlap
  PROVE  Spec => []RevocationStays
<1>1. CaInv => RevocationStays
  BY DEF CaInv, RevocationsSound
<1>2. QED
  BY <1>1, CaAlways, PTL

(***************************************************************************)
(* An uploaded batch is numbered after all of the batch it replaces        *)
(* (store_ca_database before upload_crl_batch), when one session is open   *)
(* at a time.                                                              *)
(***************************************************************************)
THEOREM BatchesIncrease ==
  ASSUME ~Overlap
  PROVE  Spec => BatchNumbersIncrease
<1>1. CaInv /\ [Next]_vars
        => [batch' # batch => batch'.number >= batch.number + (IF batch = NoCrl THEN 1 ELSE BatchSize)]_vars
  <2> SUFFICES ASSUME CaInv, [Next]_vars, batch' # batch
               PROVE  batch'.number >= batch.number + (IF batch = NoCrl THEN 1 ELSE BatchSize)
    OBVIOUS
  <2>1. PICK s \in Session : batch' = draft[s] /\ pc[s] = "upload"
    <3>1. \A s \in Session : UploadBatch(s) \/ UploadBatchFails(s) => batch' = batch \/ (batch' = draft[s] /\ pc[s] = "upload")
      BY DEF UploadBatch, UploadBatchFails
    <3>2. ASSUME NEW s \in Session, Command(s) PROVE batch' = batch
      BY <3>2 DEF Command, vault, Open, Close, GenerateCrl, GenerateCertificateBundle, SignCsr, Issue, OnCert,
         RenewCertificateBundle, RekeyCertificateBundle, Reissue, RevokeCertificate, RevokeNext, MarkRevoked,
         DeleteCertificate, SignCrl
    <3>3. ASSUME NEW s \in Session, Call(s) \/ Failure(s), ~UploadBatch(s), ~UploadBatchFails(s)
          PROVE  batch' = batch
      BY <3>3 DEF Call, Failure, vault, CreateItem, StoreCaDatabase, StoreRevocation, NothingRevoked,
         SignCrl, RegenerateCrlAfterRevoke, PutCrl, StoreCrlNumber, ArchiveItem, CreateItemFails,
         StoreCaDatabaseFails, StoreRevocationFails, PutCrlFails, StoreCrlNumberFails, ArchiveItemFails, Crash
    <3>4. ASSUME NEW c \in Cert, Expire(c) PROVE batch' = batch
      BY <3>4 DEF Expire, vault
    <3>5. Next
      BY DEF vars
    <3>6. QED
      BY <3>1, <3>2, <3>3, <3>4, <3>5 DEF Next
  <2>2. NumberOk(s) /\ Typed
    BY DEF CaInv, NumbersSound
  <2>3. draft[s].number >= 1 /\ (batch # NoCrl => batch.number + BatchSize <= draft[s].number)
    BY <2>1, <2>2 DEF NumberOk, Drafting
  <2>4. batch = NoCrl => batch.number = 0
    BY DEF NoCrl
  <2>5. QED
    BY <2>1, <2>2, <2>3, <2>4, AreNumbers
<1>2. QED
  BY <1>1, CaAlways, PTL DEF Spec, BatchNumbersIncrease

=============================================================================
