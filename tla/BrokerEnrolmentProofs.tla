----------------------- MODULE BrokerEnrolmentProofs -----------------------
(* Proofs about a broker's enrolment, for every number of keys, codes, serials, rows and *)
(* failures, and whatever broker.toml says.                                              *)
EXTENDS BrokerEnrolment, FiniteSetTheorems, TLAPS

-----------------------------------------------------------------------------
(* The broker *)

(***************************************************************************)
(* What the broker's state is made of.                                     *)
(***************************************************************************)
Acme == [on : BOOLEAN, issuer : Cert \cup {None}, paused : BOOLEAN]

Op == {"enrol", "chain", "pause", "revoke"}
Message == [op : Op, cert : Cert \cup {None}, code : Nat, paused : BOOLEAN, live : BOOLEAN,
            admitted : BOOLEAN]

DiskTyped ==
    /\ key \in Key /\ code \in [n : 1..MaxCode, left : 0..Attempts]
    /\ enrol \in Enrolled \cup {None} /\ backup \in Enrolled \cup {None} /\ conf \in Configured

DaemonTyped ==
    /\ up \in BOOLEAN /\ memKey \in Key \cup {0} /\ (up => memKey \in Key)
    /\ mem \in Enrolled \cup {None} /\ acme \in Acme

CliTyped ==
    /\ cli \in {"idle", "archived", "rekeyed", "signal"} /\ halfway \in BOOLEAN
    /\ cli = "archived" => key < MaxKey

(***************************************************************************)
(* A call that is waited for is the one opCA is in, and has no answer yet; *)
(* an enrolment and a chain come with their certificate.                   *)
(***************************************************************************)
NetTyped ==
    /\ \A m \in net : m \in Message /\ (m.op \in {"enrol", "chain"} => m.cert \in Cert)
    /\ \A m \in net : m.live => m.op = client.pc /\ reply = None
    /\ \A m, n \in net : m.live /\ n.live => m = n

(***************************************************************************)
(* opCA's own state: what it shows, the row it works on, its rows.         *)
(***************************************************************************)
Rows == [Row -> Broker \cup {None}]

ClientTyped ==
    /\ client.pc \in Op \cup {"idle", "review"}
    /\ client.pc = "review" => client.shown \in [key : Key, conf : Configured]
    /\ client.pc \in Op => client.id \in Row /\ db[client.id] # None
    /\ client.pc = "revoke" /\ reply \notin {None, Lost} => reply.key \in Key

RowsTyped ==
    /\ db \in Rows /\ saved \in Rows
    /\ serial \in 0..MaxSerial /\ approved \subseteq Domain /\ told \subseteq Key

Typed == DiskTyped /\ DaemonTyped /\ CliTyped /\ NetTyped /\ ClientTyped /\ RowsTyped

(***************************************************************************)
(* A new enrolment is neither revoked nor paused.                          *)
(***************************************************************************)
LEMMA NewEnrolment ==
  ASSUME NEW c \in Cert
  PROVE  [cert |-> c, revoked |-> FALSE, paused |-> FALSE, issuers |-> {c.serial}] \in Enrolled
<1>1. c.serial \in Serial
  BY DEF Cert
<1>2. {c.serial} \in SUBSET Serial
  BY <1>1
<1>3. QED
  BY <1>2 DEF Enrolled

(***************************************************************************)
(* Changing an enrolment's chain, pause or revocation leaves an enrolment. *)
(***************************************************************************)
LEMMA EnrolledStays ==
  ASSUME NEW e \in Enrolled, NEW c \in Cert, NEW p \in BOOLEAN
  PROVE  /\ [e EXCEPT !.cert = c, !.issuers = @ \cup {c.serial}] \in Enrolled
         /\ [e EXCEPT !.revoked = TRUE] \in Enrolled /\ [e EXCEPT !.paused = p] \in Enrolled
         /\ [e EXCEPT !.cert = c, !.issuers = @ \cup {c.serial}].cert = c
         /\ [e EXCEPT !.cert = c, !.issuers = @ \cup {c.serial}].revoked = e.revoked
         /\ [e EXCEPT !.revoked = TRUE].cert = e.cert /\ [e EXCEPT !.revoked = TRUE].revoked = TRUE
         /\ [e EXCEPT !.paused = p].cert = e.cert /\ [e EXCEPT !.paused = p].revoked = e.revoked
<1>1. c.serial \in Serial /\ e.issuers \in SUBSET Serial /\ e.cert \in Cert
      /\ e.revoked \in BOOLEAN /\ e.paused \in BOOLEAN
  BY DEF Enrolled, Cert
<1>2. {c.serial} \in SUBSET Serial /\ e.issuers \cup {c.serial} \in SUBSET Serial
  BY <1>1
<1>3. QED
  BY <1>1, <1>2 DEF Enrolled

(***************************************************************************)
(* A refresh leaves a listener that serves only a live enrolment, with its *)
(* pause.                                                                  *)
(***************************************************************************)
LEMMA RefreshFollows ==
  ASSUME NEW e \in Enrolled \cup {None}, NEW k, acme \in Acme, NEW x \in Refreshed(e, k)
  PROVE  /\ x \in Acme
         /\ x.on => e # None /\ ~e.revoked /\ x.paused = e.paused
<1>1. Off \in Acme /\ Off.on = FALSE
  BY DEF Off, Acme
<1>2. CASE e = None \/ e.revoked
  BY <1>1, <1>2 DEF Refreshed
<1>3. CASE e # None /\ ~e.revoked
  <2>1. e \in Enrolled /\ e.cert \in Cert /\ e.paused \in BOOLEAN
    BY <1>3 DEF Enrolled
  <2>2. PICK y : y = [on |-> TRUE, issuer |-> e.cert, paused |-> e.paused]
    OBVIOUS
  <2>3. y \in Acme /\ y.paused = e.paused
    BY <2>1, <2>2 DEF Acme
  <2>4. PICK z : z = [acme EXCEPT !.paused = e.paused]
    OBVIOUS
  <2>5. z \in Acme /\ z.paused = e.paused
    BY <2>1, <2>4 DEF Acme
  <2>6. x = y \/ x = z \/ x = Off
    BY <1>3, <2>2, <2>4 DEF Refreshed
  <2>7. QED
    BY <1>1, <1>3, <2>3, <2>5, <2>6
<1>4. QED
  BY <1>2, <1>3

(***************************************************************************)
(* What the daemon does with a message under the state lock.               *)
(***************************************************************************)
Works(m) == Enrol(m) \/ EnrolRefused(m) \/ UpdateChain(m) \/ Revoke(m) \/ Pause(m)

(***************************************************************************)
(* A message worked on leaves the enrolment, or stores one, whose chain    *)
(* was enrolled or is the message's; only its own call is answered.        *)
(***************************************************************************)
LEMMA WorkStores ==
  ASSUME Typed, NEW m \in net, Works(m)
  PROVE  /\ \/ UNCHANGED <<enrol, mem, acme>>
            \/ \E e \in Enrolled :
                  /\ Store(e)
                  /\ \/ enrol # None /\ e.cert = enrol.cert
                     \/ m.op \in {"enrol", "chain"} /\ e.cert = m.cert
         /\ code' = code \/ (code.left > 0 /\ code' = [code EXCEPT !.left = 0])
            \/ code' = [code EXCEPT !.left = AttemptsLeft(@)]
         /\ UNCHANGED <<key, conf, backup, up, memKey, cli, halfway, opca>>
         /\ net' = net \ {m}
         /\ reply' = reply \/ m.live
         /\ m.op = "revoke" => reply' = reply \/ reply' = Lost
                               \/ (enrol # None /\ reply'.key = enrol.cert.key)
<1>1. m \in Message /\ (m.op \in {"enrol", "chain"} => m.cert \in Cert)
  BY DEF Typed, NetTyped
<1>2. enrol # None => enrol \in Enrolled /\ enrol.cert \in Cert
  BY DEF Typed, DiskTyped, Enrolled
<1>3. CASE Enrol(m)
  <2>1. PICK e : e = [cert |-> m.cert, revoked |-> FALSE, paused |-> FALSE,
                      issuers |-> {m.cert.serial}]
    OBVIOUS
  <2>2. m.op = "enrol" /\ m.cert \in Cert
    BY <1>1, <1>3 DEF Enrol, Locked
  <2>3. e \in Enrolled /\ e.cert = m.cert
    <3>1. e \in Enrolled
      BY <2>1, <2>2, NewEnrolment
    <3>2. e.cert = m.cert
      BY <2>1
    <3>3. QED
      BY <3>1, <3>2
  <2>4. Store(e)
    BY <1>3, <2>1 DEF Enrol
  <2>5. QED
    BY <1>3, <2>2, <2>3, <2>4 DEF Enrol, Redeem, Answered, Answer
<1>4. CASE EnrolRefused(m)
  BY <1>4 DEF EnrolRefused, Answer, Locked, daemon
<1>5. CASE UpdateChain(m)
  <2>1. m.op = "chain" /\ m.cert \in Cert
    BY <1>1, <1>5 DEF UpdateChain, Locked
  <2>2. CASE enrol # None /\ ~enrol.revoked /\ Checks(m.cert)
    <3>1. PICK e : e = [enrol EXCEPT !.cert = m.cert, !.issuers = @ \cup {m.cert.serial}]
      OBVIOUS
    <3>2. e \in Enrolled /\ e.cert = m.cert
      <4>1. enrol \in Enrolled /\ TRUE \in BOOLEAN
        BY <1>2, <2>2
      <4>2. QED
        BY <2>1, <3>1, <4>1, EnrolledStays
    <3>3. Store(e)
      BY <1>5, <2>2, <3>1 DEF UpdateChain, OnDisk
    <3>4. QED
      BY <1>5, <2>1, <2>2, <3>2, <3>3 DEF UpdateChain, OnDisk, Answered, Answer
  <2>3. CASE ~(enrol # None /\ ~enrol.revoked /\ Checks(m.cert))
    BY <1>5, <2>1, <2>3 DEF UpdateChain, OnDisk, Answer
  <2>4. QED
    BY <2>2, <2>3
<1>6. CASE Revoke(m)
  <2>1. m.op = "revoke"
    BY <1>6 DEF Revoke, Locked
  <2>2. CASE enrol # None /\ ~enrol.revoked
    <3>1. PICK e : e = [enrol EXCEPT !.revoked = TRUE]
      OBVIOUS
    <3>2. e \in Enrolled /\ e.cert = enrol.cert
      BY <1>2, <2>2, <3>1, EnrolledStays
    <3>3. Store(e)
      BY <1>6, <2>2, <3>1 DEF Revoke, OnDisk
    <3>4. net' = net \ {m} /\ (reply' = reply \/ (m.live /\ (reply' = Lost \/ reply'.key = enrol.cert.key)))
      BY <1>6, <2>2 DEF Revoke, OnDisk, Answered, Answer
    <3>5. UNCHANGED <<key, code, conf, backup, up, memKey, cli, halfway, opca>>
      BY <1>6 DEF Revoke
    <3>6. QED
      BY <2>2, <3>2, <3>3, <3>4, <3>5
  <2>3. CASE enrol # None /\ enrol.revoked
    BY <1>6, <2>1, <2>3 DEF Revoke, OnDisk, Answered, Answer
  <2>4. CASE enrol = None
    BY <1>6, <2>1, <2>4 DEF Revoke, OnDisk, Answer
  <2>5. QED
    BY <2>2, <2>3, <2>4
<1>7. CASE Pause(m)
  <2>1. m.op = "pause" /\ m.paused \in BOOLEAN
    BY <1>1, <1>7 DEF Pause, Locked, Message
  <2>2. CASE enrol # None /\ ~enrol.revoked
    <3>1. PICK e : e = [enrol EXCEPT !.paused = m.paused]
      OBVIOUS
    <3>2. e \in Enrolled /\ e.cert = enrol.cert
      BY <1>2, <2>1, <2>2, <3>1, EnrolledStays
    <3>3. UNCHANGED <<enrol, mem, acme>> \/ Store(e)
      BY <1>7, <2>2, <3>1 DEF Pause, OnDisk
    <3>4. QED
      BY <1>7, <2>1, <2>2, <3>2, <3>3 DEF Pause, OnDisk, Answered, Answer
  <2>3. CASE ~(enrol # None /\ ~enrol.revoked)
    BY <1>7, <2>1, <2>3 DEF Pause, OnDisk, Answer
  <2>4. QED
    BY <2>2, <2>3
<1>8. QED
  BY <1>3, <1>4, <1>5, <1>6, <1>7 DEF Works

(***************************************************************************)
(* What opCA does.                                                         *)
(***************************************************************************)
OpcaSteps ==
    \/ HandleEnrol \/ HandleStatus \/ HandlePause \/ HandleRenew \/ HandleRevoke
    \/ Record \/ GiveUp \/ Timeout \/ Reopen

(***************************************************************************)
(* opCA leaves the broker alone, whichever command it is in.               *)
(***************************************************************************)
LEMMA OpcaLeavesBroker ==
  ASSUME OpcaSteps
  PROVE  UNCHANGED <<key, code, enrol, conf, backup, up, memKey, mem, acme, cli, halfway>>
BY DEF OpcaSteps, HandleEnrol, HandleStatus, HandlePause, HandleRenew, HandleRevoke, FetchOffer,
       Resend, SignNew, BrokerStatus, PauseBroker, RenewRefused, RenewSign, RevokeBroker, Record,
       GiveUp, Timeout, Reopen, broker, disk, daemon

(***************************************************************************)
(* What the daemon, the command line and the console do with nobody's call. *)
(***************************************************************************)
BrokerSteps ==
    \/ KeepServing \/ Start \/ Crash \/ Reload
    \/ Pairing \/ NewPairing \/ ReopenArchive \/ ReopenKey \/ ReopenCode \/ ReopenEnds
    \/ Hooks

(***************************************************************************)
(* The broker's own steps leave opCA alone, but for the calls that a crash *)
(* cuts off.                                                               *)
(***************************************************************************)
LEMMA BrokerLeavesOpca ==
  ASSUME BrokerSteps
  PROVE  /\ UNCHANGED opca
         /\ UNCHANGED <<net, reply>> \/ (net' = {} /\ (reply' = Lost \/ reply' = reply))
BY DEF BrokerSteps, KeepServing, Start, Crash, Reload, Pairing, NewPairing, ReopenArchive,
       ReopenKey, ReopenCode, ReopenEnds, Hooks, Capture, Restore

(***************************************************************************)
(* The broker's own state keeps its types.                                 *)
(***************************************************************************)
LEMMA BrokerTyped ==
  ASSUME Typed, Step
  PROVE  DiskTyped' /\ DaemonTyped' /\ CliTyped'
<1>1. DiskTyped /\ DaemonTyped /\ CliTyped
  BY DEF Typed
<1>2. CASE \E m \in net : Admit(m)
  BY <1>1, <1>2 DEF Admit, disk, daemon, DiskTyped, DaemonTyped, CliTyped
<1>3. CASE \E m \in net : Works(m)
  <2>1. PICK m \in net : Works(m)
    BY <1>3
  <2>2. UNCHANGED <<key, conf, backup, up, memKey, cli, halfway>>
    BY <2>1, WorkStores
  <2>3. code' \in [n : 1..MaxCode, left : 0..Attempts]
    <3>1. code.left \in 0..Attempts /\ Attempts \in Nat
      BY <1>1, BoundAssumption DEF DiskTyped
    <3>2. AttemptsLeft(code.left) \in 0..Attempts /\ 0 \in 0..Attempts
      BY <3>1 DEF AttemptsLeft
    <3>3. QED
      BY <1>1, <2>1, <3>2, WorkStores DEF DiskTyped
  <2>4. enrol' \in Enrolled \cup {None} /\ mem' \in Enrolled \cup {None} /\ acme' \in Acme
    <3>1. CASE UNCHANGED <<enrol, mem, acme>>
      BY <1>1, <3>1 DEF DiskTyped, DaemonTyped
    <3>2. CASE \E e \in Enrolled : Store(e)
      <4>1. PICK e \in Enrolled : Store(e)
        BY <3>2
      <4>2. enrol' = e /\ mem' = e /\ acme' \in Refreshed(e, memKey)
        BY <4>1 DEF Store
      <4>3. acme' \in Acme
        BY <1>1, <4>2, RefreshFollows DEF DaemonTyped
      <4>4. QED
        BY <4>2, <4>3
    <3>3. QED
      BY <2>1, <3>1, <3>2, WorkStores
  <2>5. QED
    BY <1>1, <2>2, <2>3, <2>4 DEF DiskTyped, DaemonTyped, CliTyped
<1>4. CASE OpcaSteps
  BY <1>1, <1>4, OpcaLeavesBroker DEF DiskTyped, DaemonTyped, CliTyped
<1>5. CASE KeepServing
  <2>1. acme' \in Acme
    BY <1>1, <1>5, RefreshFollows DEF KeepServing, DaemonTyped
  <2>2. QED
    BY <1>1, <1>5, <2>1 DEF KeepServing, disk, DiskTyped, DaemonTyped, CliTyped
<1>6. Off \in Acme
  BY DEF Off, Acme
<1>7. CASE Start
  BY <1>1, <1>6, <1>7 DEF Start, DiskTyped, DaemonTyped, CliTyped
<1>8. CASE Crash
  <2>1. code' \in [n : 1..MaxCode, left : 0..Attempts]
    BY <1>1, <1>8, BoundAssumption DEF Crash, Redeem, DiskTyped
  <2>2. QED
    BY <1>1, <1>6, <1>8, <2>1 DEF Crash, DiskTyped, DaemonTyped, CliTyped
<1>9. CASE Reload \/ Restore
  <2>1. PICK e \in Enrolled \cup {None} : UNCHANGED <<memKey, mem, acme>> \/ ReloadLocked(e)
    BY <1>1, <1>9 DEF Reload, Restore, DiskTyped
  <2>2. memKey' \in {memKey, key} /\ mem' \in Enrolled \cup {None} /\ acme' \in Acme
    BY <1>1, <2>1, RefreshFollows DEF ReloadLocked, DaemonTyped, DiskTyped
  <2>3. UNCHANGED <<key, code, conf, backup, up, halfway>> /\ enrol' \in {enrol, backup}
        /\ cli' \in {cli, "idle"}
    BY <1>9 DEF Reload, Restore, disk
  <2>4. QED
    BY <1>1, <2>2, <2>3 DEF DiskTyped, DaemonTyped, CliTyped
<1>10. CASE Pairing \/ ReopenCode
  <2>1. code' \in [n : 1..MaxCode, left : 0..Attempts]
    <3>1. code.n \in 1..MaxCode /\ MaxCode \in Nat /\ Attempts \in Nat
      BY <1>1, BoundAssumption DEF DiskTyped
    <3>2. code.n < MaxCode /\ code' = [n |-> code.n + 1, left |-> Attempts]
      BY <1>10 DEF Pairing, ReopenCode, NewCode
    <3>3. code.n + 1 \in 1..MaxCode /\ Attempts \in 0..Attempts
      BY <3>1, <3>2
    <3>4. QED
      BY <3>2, <3>3
  <2>2. UNCHANGED <<key, enrol, conf, backup, up, memKey, mem, acme, halfway>>
        /\ cli' \in {"idle", "signal"}
    BY <1>10 DEF Pairing, ReopenCode, daemon
  <2>3. QED
    BY <1>1, <2>1, <2>2 DEF DiskTyped, DaemonTyped, CliTyped
<1>11. CASE ReopenArchive
  BY <1>1, <1>11 DEF ReopenArchive, daemon, DiskTyped, DaemonTyped, CliTyped
<1>12. CASE ReopenKey
  <2>1. key' \in Key /\ key' = key + 1 /\ cli' = "rekeyed"
    BY <1>1, <1>12, BoundAssumption DEF ReopenKey, DiskTyped, CliTyped, Key
  <2>2. UNCHANGED <<code, enrol, conf, backup, up, memKey, mem, acme, halfway>>
    BY <1>12 DEF ReopenKey, daemon
  <2>3. QED
    BY <1>1, <2>1, <2>2 DEF DiskTyped, DaemonTyped, CliTyped
<1>13. CASE ReopenEnds
  <2>1. halfway' \in BOOLEAN /\ cli' = "idle"
    BY <1>13 DEF ReopenEnds
  <2>2. UNCHANGED <<key, code, enrol, conf, backup, up, memKey, mem, acme>>
    BY <1>13 DEF ReopenEnds, disk, daemon
  <2>3. QED
    BY <1>1, <2>1, <2>2 DEF DiskTyped, DaemonTyped, CliTyped
<1>14. CASE Capture
  BY <1>1, <1>14 DEF Capture, daemon, DiskTyped, DaemonTyped, CliTyped
<1>15. QED
  BY <1>2, <1>3, <1>4, <1>5, <1>7, <1>8, <1>9, <1>10, <1>11, <1>12, <1>13, <1>14
     DEF Step, Works, OpcaSteps, NewPairing, Hooks

-----------------------------------------------------------------------------
(* The calls and the rows *)

(***************************************************************************)
(* Saving keeps what is in memory, and stores that or nothing.             *)
(***************************************************************************)
LEMMA SaveIs ==
  ASSUME NEW rows, Save(rows)
  PROVE  db' = rows /\ (saved' = rows \/ saved' = saved)
BY DEF Save

(***************************************************************************)
(* A row that is reported on is marked as contacted.                        *)
(***************************************************************************)
LEMMA ReportedIs ==
  ASSUME NEW rows \in Rows, NEW i \in Row, rows[i] # None,
         NEW r, r = Reported(rows, i)
  PROVE  /\ r \in Rows /\ (\A j \in Row : j # i => r[j] = rows[j])
         /\ r[i] # None /\ r[i].cert = rows[i].cert /\ r[i].state = rows[i].state
<1>1. rows[i] \in Broker
  BY DEF Rows
<1>2. PICK x : x = [rows[i] EXCEPT !.contact = TRUE]
  OBVIOUS
<1>3. x \in Broker /\ x.cert = rows[i].cert /\ x.state = rows[i].state
  BY <1>1, <1>2 DEF Broker
<1>4. r = [rows EXCEPT ![i] = x]
  BY <1>2 DEF Reported
<1>5. r \in Rows /\ r[i] = x /\ (\A j \in Row : j # i => r[j] = rows[j])
  BY <1>3, <1>4 DEF Rows
<1>6. QED
  BY <1>3, <1>5, ValueAssumption

(***************************************************************************)
(* A row that moves has the new certificate.                               *)
(***************************************************************************)
LEMMA MovedIs ==
  ASSUME NEW rows \in Rows, NEW i \in Row, rows[i] # None, NEW c \in Cert,
         NEW r, r = MovedTo(rows, i, c)
  PROVE  /\ r \in Rows /\ (\A j \in Row : j # i => r[j] = rows[j])
         /\ r[i] # None /\ r[i].cert = c /\ r[i].state = rows[i].state
<1>1. rows[i] \in Broker
  BY DEF Rows
<1>2. PICK x : x = [rows[i] EXCEPT !.cert = c]
  OBVIOUS
<1>3. x \in Broker /\ x.cert = c /\ x.state = rows[i].state
  BY <1>1, <1>2 DEF Broker
<1>4. r = [rows EXCEPT ![i] = x]
  BY <1>2 DEF MovedTo
<1>5. r \in Rows /\ r[i] = x /\ (\A j \in Row : j # i => r[j] = rows[j])
  BY <1>3, <1>4 DEF Rows
<1>6. QED
  BY <1>3, <1>5, ValueAssumption

\* revoke_broker's change of a row.
RevokedRow(rows, i) == [rows EXCEPT ![i].state = "revoked"]

(***************************************************************************)
(* A row that is revoked keeps its certificate.                            *)
(***************************************************************************)
LEMMA RevokedIs ==
  ASSUME NEW rows \in Rows, NEW i \in Row, rows[i] # None,
         NEW r, r = RevokedRow(rows, i)
  PROVE  /\ r \in Rows /\ (\A j \in Row : j # i => r[j] = rows[j])
         /\ r[i] # None /\ r[i].cert = rows[i].cert /\ r[i].state = "revoked"
<1>1. rows[i] \in Broker
  BY DEF Rows
<1>2. PICK x : x = [rows[i] EXCEPT !.state = "revoked"]
  OBVIOUS
<1>3. x \in Broker /\ x.cert = rows[i].cert /\ x.state = "revoked"
  BY <1>1, <1>2 DEF Broker
<1>4. r = [rows EXCEPT ![i] = x]
  BY <1>2 DEF RevokedRow
<1>5. r \in Rows /\ r[i] = x /\ (\A j \in Row : j # i => r[j] = rows[j])
  BY <1>3, <1>4 DEF Rows
<1>6. QED
  BY <1>3, <1>5, ValueAssumption

(***************************************************************************)
(* A call is sent only while none is waited for.                           *)
(***************************************************************************)
LEMMA SentIsAlone ==
  ASSUME NetTyped, client.pc \notin Op, NEW o \in Op, NEW c \in Cert \cup {None}, NEW n \in Nat,
         NEW p \in BOOLEAN, NEW i, Send(Request(o, c, n, p), [pc |-> o, id |-> i]),
         o \in {"enrol", "chain"} => c \in Cert
  PROVE  NetTyped'
<1>1. PICK r : r = Request(o, c, n, p)
  OBVIOUS
<1>2. r \in Message /\ r.op = o /\ r.cert = c /\ r.live = TRUE
  BY <1>1 DEF Request, Message
<1>3. net' = net \cup {r} /\ reply' = None /\ client'.pc = o
  BY <1>1 DEF Send
<1>4. \A m \in net : ~m.live
  BY DEF NetTyped, Message
<1>5. QED
  BY <1>2, <1>3, <1>4 DEF NetTyped

(***************************************************************************)
(* Where opCA neither sends nor waits for anything, nothing is awaited.    *)
(***************************************************************************)
LEMMA NoneAwaited ==
  ASSUME NetTyped, \A m \in net : ~m.live, net' = net
  PROVE  NetTyped'
BY DEF NetTyped

(***************************************************************************)
(* The calls keep their types: of those in the net at most one is waited   *)
(* for, by the command opCA is in.                                         *)
(***************************************************************************)
LEMMA CallsTyped ==
  ASSUME Typed, Step
  PROVE  NetTyped'
<1>1. DiskTyped /\ DaemonTyped /\ NetTyped /\ ClientTyped /\ RowsTyped
  BY DEF Typed
<1>2. CASE \E m \in net : Admit(m)
  <2>1. PICK m \in net : Admit(m)
    BY <1>2
  <2>2. PICK n : n = [m EXCEPT !.admitted = TRUE]
    OBVIOUS
  <2>3. n \in Message /\ n.op = m.op /\ n.cert = m.cert /\ n.live = m.live
    BY <1>1, <2>2 DEF NetTyped, Message
  <2>4. client' = client
    BY <2>1 DEF Admit, opca
  <2>5. \/ net' = (net \ {m}) \cup {n} /\ reply' = reply
        \/ net' = net \ {m} /\ reply' = (IF m.live THEN Lost ELSE reply)
    BY <2>1, <2>2 DEF Admit, Answer
  <2>6. QED
    BY <1>1, <2>3, <2>4, <2>5 DEF NetTyped
<1>3. CASE \E m \in net : Works(m)
  <2>1. PICK m \in net : Works(m)
    BY <1>3
  <2>2. net' = net \ {m} /\ (reply' = reply \/ m.live) /\ client' = client
    BY <2>1, WorkStores DEF opca
  <2>3. QED
    BY <1>1, <2>2 DEF NetTyped
<1>4. CASE BrokerSteps
  <2>1. client' = client /\ (UNCHANGED <<net, reply>> \/ net' = {})
    BY <1>4, BrokerLeavesOpca DEF opca
  <2>2. QED
    BY <1>1, <2>1 DEF NetTyped
<1>5. client.pc \in {"idle", "review"} => client.pc \notin Op
  BY DEF Op
<1>6. client.pc \notin Op => \A m \in net : ~m.live
  BY <1>1 DEF NetTyped, Message
<1>7. CASE HandleEnrol
  <2>1. CASE FetchOffer
    BY <1>1, <1>5, <1>6, <2>1, NoneAwaited DEF FetchOffer, At
  <2>2. CASE Resend
    <3>1. PICK i \in Undelivered, n \in 1..code.n, d \in Domain :
             Send(Request("enrol", db[i].cert, n, FALSE), [pc |-> "enrol", id |-> i]) \/ net' = net
      BY <2>2 DEF Resend
    <3>2. client.pc \notin Op
      BY <1>5, <2>2 DEF Resend, SameOffer, At
    <3>3. n \in Nat /\ db[i].cert \in Cert /\ "enrol" \in Op
      <4>1. db[i] \in Broker
        BY <1>1 DEF Undelivered, Active, RowsTyped, Rows
      <4>2. code.n \in 1..MaxCode /\ MaxCode \in Nat
        BY <1>1, BoundAssumption DEF DiskTyped
      <4>3. QED
        BY <4>1, <4>2 DEF Broker, Op
    <3>4. QED
      BY <1>1, <1>6, <3>1, <3>2, <3>3, NoneAwaited, SentIsAlone
  <2>3. CASE SignNew
    <3> DEFINE c(d) == [serial |-> serial + 1, key |-> Offer.key,
                        dom |-> IF Offer.conf = None THEN d ELSE Offer.conf]
    <3>1. PICK i \in Row, n \in 1..code.n, d \in Domain :
             /\ client.shown.conf \in {None, d}
             /\ Send(Request("enrol", c(d), n, FALSE), [pc |-> "enrol", id |-> i]) \/ net' = net
      BY <2>3 DEF SignNew
    <3>2. client.pc \notin Op /\ Offer = client.shown /\ client.shown \in [key : Key, conf : Configured]
      BY <1>1, <1>5, <2>3 DEF SignNew, SameOffer, At, ClientTyped
    <3>3. c(d) \in Cert
      <4>1. serial + 1 \in Serial
        BY <1>1, <2>3, BoundAssumption DEF SignNew, RowsTyped, Serial
      <4>2. c(d) = [serial |-> serial + 1, key |-> client.shown.key, dom |-> d]
        BY <3>1, <3>2
      <4>3. QED
        BY <3>2, <4>1, <4>2 DEF Cert
    <3>4. n \in Nat /\ "enrol" \in Op
      <4>1. code.n \in 1..MaxCode /\ MaxCode \in Nat
        BY <1>1, BoundAssumption DEF DiskTyped
      <4>2. QED
        BY <4>1 DEF Op
    <3>5. QED
      BY <1>1, <1>6, <3>1, <3>2, <3>3, <3>4, NoneAwaited, SentIsAlone
  <2>4. QED
    BY <1>7, <2>1, <2>2, <2>3 DEF HandleEnrol
<1>8. CASE HandleStatus \/ RenewRefused
  BY <1>1, <1>5, <1>6, <1>8, NoneAwaited DEF HandleStatus, BrokerStatus, RenewRefused, At
<1>9. CASE RenewSign
  <2> DEFINE c(i) == [serial |-> serial + 1, key |-> FreshCsr.key,
                      dom |-> IF FreshCsr.conf = None THEN db[i].cert.dom ELSE FreshCsr.conf]
  <2>1. PICK i \in Active(db) :
           Send(Request("chain", c(i), 0, FALSE), [pc |-> "chain", id |-> i]) \/ net' = net
    BY <1>9 DEF RenewSign
  <2>2. client.pc \notin Op /\ "chain" \in Op
    BY <1>5, <1>9 DEF RenewSign, At, Op
  <2>3. c(i) \in Cert
    <3>1. db[i] \in Broker /\ db[i].cert.dom \in Domain
      BY <1>1 DEF Active, RowsTyped, Rows, Broker, Cert
    <3>2. serial + 1 \in Serial
      BY <1>1, <1>9, BoundAssumption DEF RenewSign, RowsTyped, Serial
    <3>3. up /\ FreshCsr = [key |-> memKey, conf |-> conf]
      BY <1>9 DEF RenewSign, FreshCsr
    <3>4. memKey \in Key /\ (conf # None => conf \in Domain)
      BY <1>1, <3>3, ValueAssumption DEF DaemonTyped, DiskTyped
    <3>5. FreshCsr.key = memKey /\ FreshCsr.conf = conf
      BY <3>3
    <3>6. PICK d \in Domain : c(i) = [serial |-> serial + 1, key |-> memKey, dom |-> d]
      BY <2>1, <3>1, <3>4, <3>5
    <3>7. QED
      BY <3>2, <3>4, <3>6 DEF Cert
  <2>4. QED
    BY <1>1, <1>6, <2>1, <2>2, <2>3, NoneAwaited, SentIsAlone
<1>10. CASE PauseBroker
  <2>1. PICK i \in Row, p \in BOOLEAN : Send(Request("pause", None, 0, p), [pc |-> "pause", id |-> i])
    BY <1>10 DEF PauseBroker
  <2>2. client.pc \notin Op /\ "pause" \in Op
    BY <1>5, <1>10 DEF PauseBroker, At, Op
  <2>3. QED
    BY <1>1, <2>1, <2>2, SentIsAlone
<1>11. CASE RevokeBroker
  <2>1. PICK i \in Row : Send(Request("revoke", None, 0, FALSE), [pc |-> "revoke", id |-> i])
                         \/ net' = net
    BY <1>11 DEF RevokeBroker
  <2>2. client.pc \notin Op /\ "revoke" \in Op
    BY <1>5, <1>11 DEF RevokeBroker, At, Op
  <2>3. QED
    BY <1>1, <1>6, <2>1, <2>2, NoneAwaited, SentIsAlone
<1>12. CASE Record \/ GiveUp
  <2>1. net' = net /\ (reply # None \/ client.pc = "review")
    BY <1>12, ValueAssumption DEF Record, GiveUp, At
  <2>2. \A m \in net : ~m.live
    BY <1>1, <1>5, <1>6, <2>1 DEF NetTyped
  <2>3. QED
    BY <1>1, <2>1, <2>2, NoneAwaited
<1>13. CASE Timeout
  <2>1. PICK m \in net : /\ m.live
                         /\ net' = net \ {m} \/ net' = (net \ {m}) \cup {[m EXCEPT !.live = FALSE]}
    BY <1>13 DEF Timeout
  <2>2. PICK n : n = [m EXCEPT !.live = FALSE]
    OBVIOUS
  <2>3. n \in Message /\ n.op = m.op /\ n.cert = m.cert /\ n.live = FALSE
    BY <1>1, <2>2 DEF NetTyped, Message
  <2>4. \A q \in net' : ~q.live
    BY <1>1, <2>1, <2>2, <2>3 DEF NetTyped
  <2>5. QED
    BY <1>1, <2>1, <2>2, <2>3, <2>4 DEF NetTyped
<1>14. CASE Reopen
  <2>1. net' = {[m EXCEPT !.live = FALSE] : m \in net}
    BY <1>14 DEF Reopen
  <2>2. ASSUME NEW q \in net'
        PROVE  q \in Message /\ (q.op \in {"enrol", "chain"} => q.cert \in Cert) /\ q.live = FALSE
    <3>1. PICK m \in net : q = [m EXCEPT !.live = FALSE]
      BY <2>1, <2>2
    <3>2. QED
      BY <1>1, <3>1 DEF NetTyped, Message
  <2>3. QED
    BY <2>2 DEF NetTyped
<1>15. QED
  BY <1>2, <1>3, <1>4, <1>7, <1>8, <1>9, <1>10, <1>11, <1>12, <1>13, <1>14
     DEF Step, Works, BrokerSteps, HandlePause, HandleRenew, HandleRevoke

(***************************************************************************)
(* What a command may make of the rows: none goes, domains are those the   *)
(* row had or the operator has agreed to, and an active row is added only  *)
(* where there was none.                                                   *)
(***************************************************************************)
RowsKept(rows) ==
    /\ rows \in Rows
    /\ \A j \in Row :
          /\ db[j] # None => rows[j] # None
          /\ rows[j] # None => \/ rows[j].cert.dom \in approved'
                               \/ db[j] # None /\ rows[j].cert.dom = db[j].cert.dom
    /\ Active(rows) \subseteq Active(db) \/ (\E i \in Row : Active(rows) \subseteq {i})

(***************************************************************************)
(* Reporting, moving and revoking a row do that.                           *)
(***************************************************************************)
LEMMA RowChanges ==
  ASSUME RowsTyped, NEW i \in Row, db[i] # None
  PROVE  /\ RowsKept(Reported(db, i)) /\ RowsKept(RevokedRow(db, i))
         /\ \A c \in Cert : c.dom \in approved' \/ c.dom = db[i].cert.dom
                               => RowsKept(MovedTo(Reported(db, i), i, c))
<1>1. db \in Rows /\ db[i] \in Broker /\ db[i].cert \in Cert
  BY DEF RowsTyped, Rows, Broker
<1>2. PICK r : r = Reported(db, i)
  OBVIOUS
<1>3. /\ r \in Rows /\ (\A j \in Row : j # i => r[j] = db[j])
      /\ r[i] # None /\ r[i].cert = db[i].cert /\ r[i].state = db[i].state
  BY <1>1, <1>2, ReportedIs
<1>4. RowsKept(r)
  BY <1>1, <1>3 DEF RowsKept, Active
<1>5. PICK s : s = RevokedRow(db, i)
  OBVIOUS
<1>6. /\ s \in Rows /\ (\A j \in Row : j # i => s[j] = db[j])
      /\ s[i] # None /\ s[i].cert = db[i].cert /\ s[i].state = "revoked"
  BY <1>1, <1>5, RevokedIs
<1>7. RowsKept(s)
  BY <1>1, <1>6 DEF RowsKept, Active
<1>8. ASSUME NEW c \in Cert, c.dom \in approved' \/ c.dom = db[i].cert.dom
      PROVE  RowsKept(MovedTo(r, i, c))
  <2>1. PICK t : t = MovedTo(r, i, c)
    OBVIOUS
  <2>2. /\ t \in Rows /\ (\A j \in Row : j # i => t[j] = r[j])
        /\ t[i] # None /\ t[i].cert = c /\ t[i].state = r[i].state
    BY <1>3, <1>8, <2>1, MovedIs
  <2>3. RowsKept(t)
    BY <1>1, <1>3, <1>8, <2>2 DEF RowsKept, Active
  <2>4. QED
    BY <2>1, <2>3
<1>9. QED
  BY <1>2, <1>4, <1>5, <1>7, <1>8

(***************************************************************************)
(* What opCA's commands do with the rows, the serials, the domains agreed  *)
(* to and the command that it is in then.                                  *)
(***************************************************************************)
RowsStep ==
    /\ \/ UNCHANGED <<db, saved>>
       \/ \E rows : RowsKept(rows) /\ Save(rows)
       \/ db' = saved /\ saved' = saved /\ client' = Idle
    /\ serial' \in 0..MaxSerial
    /\ approved \subseteq approved' /\ approved' \subseteq Domain
    /\ \/ client' = client /\ client.pc = "idle"
       \/ client' = client /\ UNCHANGED <<db, saved, told>> /\ reply' = Lost
       \/ client' = Idle
       \/ client'.pc = "review" /\ client'.shown \in [key : Key, conf : Configured]
       \/ /\ client'.pc \in Op /\ client'.id \in Row /\ db'[client'.id] # None
          /\ reply' = None
    /\ told' = told \/ (client.pc = "revoke" /\ reply \notin {None, Lost} /\ told' = told \cup {reply.key})

(***************************************************************************)
(* A signed certificate is for the key and the domains that were shown.    *)
(***************************************************************************)
LEMMA EnrolRows ==
  ASSUME Typed, HandleEnrol
  PROVE  RowsStep
<1>1. DiskTyped /\ DaemonTyped /\ ClientTyped /\ RowsTyped /\ db \in Rows
  BY DEF Typed, RowsTyped
<1>2. CASE FetchOffer
  <2>1. Offer # Lost /\ client' = [pc |-> "review", shown |-> Offer]
        /\ UNCHANGED <<net, reply, db, saved, serial, approved, told>>
    BY <1>2 DEF FetchOffer
  <2>2. Offer = [key |-> memKey, conf |-> conf] /\ up
    BY <2>1 DEF Offer
  <2>3. Offer \in [key : Key, conf : Configured]
    BY <1>1, <2>2 DEF DaemonTyped, DiskTyped
  <2>4. client'.pc = "review" /\ client'.shown \in [key : Key, conf : Configured]
    BY <2>1, <2>3
  <2>5. QED
    BY <1>1, <2>1, <2>4 DEF RowsStep, RowsTyped
<1>3. CASE Resend
  <2>1. PICK i \in Undelivered, n \in 1..code.n, d \in Domain :
           /\ approved' = approved \cup {d}
           /\ \/ Send(Request("enrol", db[i].cert, n, FALSE), [pc |-> "enrol", id |-> i])
              \/ Done
    BY <1>3 DEF Resend
  <2>2. UNCHANGED <<db, saved, serial, told>>
    BY <1>3 DEF Resend
  <2>3. i \in Row /\ db[i] # None
    BY DEF Undelivered, Active
  <2>4. (client' = [pc |-> "enrol", id |-> i] /\ reply' = None) \/ client' = Idle
    BY <2>1 DEF Send, Done
  <2>5. client' # Idle => client'.pc \in Op /\ client'.id = i /\ reply' = None
    BY <2>4 DEF Op
  <2>6. QED
    BY <1>1, <2>1, <2>2, <2>3, <2>5 DEF RowsStep, RowsTyped
<1>4. CASE SignNew
  <2> DEFINE c(d) == [serial |-> serial + 1, key |-> Offer.key,
                      dom |-> IF Offer.conf = None THEN d ELSE Offer.conf]
  <2>1. PICK i \in Row, n \in 1..code.n, d \in Domain :
           /\ client.shown.conf \in {None, d}
           /\ approved' = approved \cup {d}
           /\ db[i] = None
           /\ Save([db EXCEPT ![i] = [cert |-> c(d), state |-> "active", contact |-> FALSE]])
           /\ \/ Send(Request("enrol", c(d), n, FALSE), [pc |-> "enrol", id |-> i])
              \/ Done
    BY <1>4 DEF SignNew
  <2>2. Offer = client.shown /\ client.shown \in [key : Key, conf : Configured]
    BY <1>1, <1>4 DEF SignNew, SameOffer, At, ClientTyped
  <2>3. serial + 1 \in Serial /\ serial' = serial + 1
    BY <1>1, <1>4, BoundAssumption DEF SignNew, RowsTyped, Serial
  <2>4. c(d) \in Cert /\ c(d).dom = d
    <3>1. c(d) = [serial |-> serial + 1, key |-> client.shown.key, dom |-> d]
      BY <2>1, <2>2
    <3>2. QED
      BY <2>2, <2>3, <3>1 DEF Cert
  <2>5. PICK x : x = [cert |-> c(d), state |-> "active", contact |-> FALSE]
    OBVIOUS
  <2>6. x \in Broker /\ x.cert.dom = d /\ x # None
    <3>1. x \in Broker /\ x.cert = c(d)
      BY <2>4, <2>5 DEF Broker
    <3>2. QED
      BY <2>4, <3>1, ValueAssumption
  <2>7. PICK rows : rows = [db EXCEPT ![i] = x]
    OBVIOUS
  <2>8. rows \in Rows /\ rows[i] = x /\ \A j \in Row : j # i => rows[j] = db[j]
    BY <1>1, <2>6, <2>7 DEF Rows
  <2>9. Active(db) = {} /\ d \in approved'
    BY <1>4, <2>1 DEF SignNew, Undelivered
  <2>10. RowsKept(rows)
    <3>1. Active(rows) \subseteq {i}
      BY <2>8, <2>9 DEF Active
    <3>2. QED
      BY <2>1, <2>6, <2>8, <2>9, <3>1 DEF RowsKept
  <2>11. Save(rows)
    BY <2>1, <2>5, <2>7
  <2>12. db'[i] # None
    BY <2>6, <2>8, <2>11 DEF Save
  <2>13. told' = told
    BY <1>4 DEF SignNew
  <2>14. (client' = [pc |-> "enrol", id |-> i] /\ reply' = None) \/ client' = Idle
    BY <2>1 DEF Send, Done
  <2>15. client' # Idle => client'.pc \in Op /\ client'.id = i /\ reply' = None
    BY <2>14 DEF Op
  <2>16. serial' \in 0..MaxSerial
    BY <2>3, BoundAssumption DEF Serial
  <2>17. QED
    BY <1>1, <2>1, <2>10, <2>11, <2>12, <2>13, <2>15, <2>16 DEF RowsStep, RowsTyped
<1>5. QED
  BY <1>2, <1>3, <1>4 DEF HandleEnrol

(***************************************************************************)
(* A renewal is for the domains of the row, or those that were confirmed.  *)
(***************************************************************************)
LEMMA RenewRows ==
  ASSUME Typed, RenewSign
  PROVE  RowsStep
<1>1. DiskTyped /\ DaemonTyped /\ ClientTyped /\ RowsTyped /\ db \in Rows
  BY DEF Typed, RowsTyped
<1> DEFINE c(i) == [serial |-> serial + 1, key |-> FreshCsr.key,
                    dom |-> IF FreshCsr.conf = None THEN db[i].cert.dom ELSE FreshCsr.conf]
<1>2. PICK i \in Active(db), change \in BOOLEAN :
         /\ ChangedDomains(db[i]) => change
         /\ approved' = IF change THEN approved \cup {c(i).dom} ELSE approved
         /\ Save(MovedTo(Reported(db, i), i, c(i)))
         /\ \/ Send(Request("chain", c(i), 0, FALSE), [pc |-> "chain", id |-> i])
            \/ Done
  BY DEF RenewSign
<1>3. i \in Row /\ db[i] # None /\ db[i] \in Broker /\ db[i].cert.dom \in Domain
  BY <1>1 DEF Active, Rows, Broker, Cert
<1>4. serial + 1 \in Serial /\ serial' = serial + 1 /\ told' = told
  BY <1>1, BoundAssumption DEF RenewSign, RowsTyped, Serial
<1>5. up /\ FreshCsr = [key |-> memKey, conf |-> conf]
  BY DEF RenewSign, FreshCsr
<1>6. FreshCsr.key = memKey /\ FreshCsr.conf = conf
  BY <1>5
<1>7. memKey \in Key /\ (conf # None => conf \in Domain)
  BY <1>1, <1>5, ValueAssumption DEF DaemonTyped, DiskTyped
<1>8. PICK d \in Domain : /\ c(i) = [serial |-> serial + 1, key |-> memKey, dom |-> d]
                          /\ d = IF conf = None THEN db[i].cert.dom ELSE conf
  BY <1>3, <1>6, <1>7
<1>9. c(i) \in Cert /\ c(i).dom = d
  BY <1>4, <1>7, <1>8 DEF Cert
<1>10. d \in approved' \/ d = db[i].cert.dom
  BY <1>2, <1>6, <1>8, <1>9 DEF ChangedDomains
<1>11. PICK rows : rows = MovedTo(Reported(db, i), i, c(i))
  OBVIOUS
<1>12. RowsKept(rows)
  BY <1>1, <1>3, <1>9, <1>10, <1>11, RowChanges
<1>13. Save(rows)
  BY <1>2, <1>11
<1>14. db'[i] # None
  BY <1>3, <1>12, <1>13 DEF Save, RowsKept
<1>15. (client' = [pc |-> "chain", id |-> i] /\ reply' = None) \/ client' = Idle
  BY <1>2 DEF Send, Done
<1>16. client' # Idle => client'.pc \in Op /\ client'.id = i /\ reply' = None
  BY <1>15 DEF Op
<1>17. serial' \in 0..MaxSerial
  BY <1>4, BoundAssumption DEF Serial
<1>18. approved \subseteq approved' /\ approved' \subseteq Domain
  BY <1>1, <1>2, <1>9 DEF RowsTyped
<1>19. QED
  BY <1>3, <1>4, <1>12, <1>13, <1>14, <1>16, <1>17, <1>18 DEF RowsStep

(***************************************************************************)
(* The other commands, and what ends one.                                  *)
(***************************************************************************)
LEMMA OtherRows ==
  ASSUME Typed,
         \/ HandleStatus \/ RenewRefused \/ HandlePause \/ HandleRevoke
         \/ Record \/ GiveUp \/ Timeout \/ Reopen
  PROVE  RowsStep
<1>1. ClientTyped /\ RowsTyped /\ db \in Rows /\ serial \in 0..MaxSerial /\ approved \subseteq Domain
  BY DEF Typed, RowsTyped
<1>2. CASE HandleStatus \/ RenewRefused
  <2>1. PICK i \in Row : db[i] # None /\ Save(Reported(db, i))
    BY <1>2 DEF HandleStatus, BrokerStatus, RenewRefused
  <2>2. RowsKept(Reported(db, i))
    BY <1>1, <2>1, RowChanges
  <2>3. UNCHANGED <<client, serial, approved, told>> /\ client.pc = "idle"
    BY <1>2 DEF HandleStatus, BrokerStatus, RenewRefused, At
  <2>4. QED
    BY <1>1, <2>1, <2>2, <2>3 DEF RowsStep
<1>3. CASE HandlePause
  <2>1. PICK i \in Row, p \in BOOLEAN :
           db[i] # None /\ Send(Request("pause", None, 0, p), [pc |-> "pause", id |-> i])
    BY <1>3 DEF HandlePause, PauseBroker
  <2>2. client'.pc \in Op /\ client'.id = i /\ reply' = None
    BY <2>1 DEF Send, Op
  <2>3. UNCHANGED <<db, saved, serial, approved, told>>
    BY <1>3 DEF HandlePause, PauseBroker
  <2>4. QED
    BY <1>1, <2>1, <2>2, <2>3 DEF RowsStep
<1>4. CASE HandleRevoke
  <2>1. PICK i \in Row :
           /\ db[i] # None
           /\ Save(RevokedRow(db, i)) \/ UNCHANGED <<db, saved>>
           /\ \/ Send(Request("revoke", None, 0, FALSE), [pc |-> "revoke", id |-> i])
              \/ client' = client
    BY <1>4 DEF HandleRevoke, RevokeBroker, RevokedRow
  <2>2. RowsKept(RevokedRow(db, i))
    BY <1>1, <2>1, RowChanges
  <2>3. client.pc = "idle" /\ UNCHANGED <<serial, approved, told>>
    BY <1>4 DEF HandleRevoke, RevokeBroker, At
  <2>4. db'[i] # None
    BY <1>1, <2>1, <2>2 DEF Save, RowsKept
  <2>5. client' # client => client'.pc \in Op /\ client'.id = i /\ reply' = None
    <3>1. (client' = [pc |-> "revoke", id |-> i] /\ reply' = None) \/ client' = client
      BY <2>1 DEF Send
    <3>2. QED
      BY <3>1 DEF Op
  <2>6. QED
    BY <1>1, <2>1, <2>2, <2>3, <2>4, <2>5 DEF RowsStep
<1>5. CASE Record
  <2>1. client.pc \in Op /\ reply \notin {None, Lost}
    BY <1>1, <1>5 DEF Record, ClientTyped
  <2>2. client.id \in Row /\ db[client.id] # None
    BY <1>1, <2>1 DEF ClientTyped
  <2>3. RowsKept(Reported(db, client.id))
    BY <1>1, <2>2, RowChanges
  <2>4. Save(Reported(db, client.id)) /\ client' = Idle /\ UNCHANGED <<serial, approved>>
        /\ told' = IF client.pc = "revoke" THEN told \cup {reply.key} ELSE told
    BY <1>5 DEF Record, Done, At
  <2>5. QED
    BY <1>1, <2>1, <2>3, <2>4 DEF RowsStep
<1>6. CASE GiveUp
  <2>1. (Save(db) \/ UNCHANGED <<db, saved>>) /\ client' = Idle /\ UNCHANGED <<serial, approved, told>>
    BY <1>6 DEF GiveUp, Done
  <2>2. RowsKept(db)
    BY <1>1 DEF RowsKept
  <2>3. QED
    BY <1>1, <2>1, <2>2 DEF RowsStep
<1>7. CASE Timeout
  BY <1>1, <1>7 DEF Timeout, RowsStep, opca
<1>8. CASE Reopen
  BY <1>1, <1>8 DEF Reopen, RowsStep
<1>9. QED
  BY <1>2, <1>3, <1>4, <1>5, <1>6, <1>7, <1>8

(***************************************************************************)
(* Every command of opCA is such a step.                                   *)
(***************************************************************************)
LEMMA OpcaRows ==
  ASSUME Typed, OpcaSteps
  PROVE  RowsStep
BY EnrolRows, RenewRows, OtherRows DEF OpcaSteps, HandleRenew

(***************************************************************************)
(* opCA's own state keeps its types.                                       *)
(***************************************************************************)
LEMMA OpcaTyped ==
  ASSUME Typed, Step
  PROVE  ClientTyped' /\ RowsTyped'
<1>1. ClientTyped /\ RowsTyped /\ NetTyped /\ DiskTyped
  BY DEF Typed
<1>2. CASE OpcaSteps
  <2>1. RowsStep
    BY <1>2, OpcaRows
  <2>2. db' \in Rows /\ saved' \in Rows
    BY <1>1, <2>1 DEF RowsStep, RowsKept, Save, RowsTyped
  <2>3. told' \subseteq Key
    BY <1>1, <2>1 DEF RowsStep, RowsTyped, ClientTyped
  <2>4. RowsTyped'
    BY <2>1, <2>2, <2>3 DEF RowsStep, RowsTyped
  <2>5. Idle.pc = "idle" /\ "idle" \notin Op /\ "review" \notin Op
    BY DEF Idle, Op
  <2>6. ClientTyped'
    <3>1. CASE client' = client /\ client.pc = "idle"
      BY <2>5, <3>1 DEF ClientTyped
    <3>2. CASE client' = client /\ UNCHANGED <<db, saved, told>> /\ reply' = Lost
      BY <1>1, <3>2 DEF ClientTyped
    <3>3. CASE client' = Idle
      BY <2>5, <3>3 DEF ClientTyped
    <3>4. CASE client'.pc = "review" /\ client'.shown \in [key : Key, conf : Configured]
      BY <2>5, <3>4 DEF ClientTyped
    <3>5. CASE client'.pc \in Op /\ client'.id \in Row /\ db'[client'.id] # None /\ reply' = None
      BY <2>5, <3>5 DEF ClientTyped
    <3>6. QED
      BY <2>1, <3>1, <3>2, <3>3, <3>4, <3>5 DEF RowsStep
  <2>7. QED
    BY <2>4, <2>6
<1>3. CASE \E m \in net : Admit(m)
  <2>1. PICK m \in net : Admit(m)
    BY <1>3
  <2>2. UNCHANGED <<client, db, saved, serial, approved, told>> /\ (reply' = reply \/ reply' = Lost)
    BY <2>1 DEF Admit, Answer, opca
  <2>3. QED
    BY <1>1, <2>2 DEF ClientTyped, RowsTyped
<1>4. CASE \E m \in net : Works(m)
  <2>1. PICK m \in net : Works(m)
    BY <1>4
  <2>2. UNCHANGED <<client, db, saved, serial, approved, told>>
    BY <2>1, WorkStores DEF opca
  <2>3. client.pc = "revoke" => reply' = reply \/ reply' = Lost \/ reply'.key \in Key
    <3>1. SUFFICES ASSUME client.pc = "revoke", reply' # reply
                   PROVE  reply' = Lost \/ reply'.key \in Key
      OBVIOUS
    <3>2. m.op = "revoke"
      BY <1>1, <2>1, <3>1, WorkStores DEF NetTyped
    <3>3. enrol # None => enrol.cert.key \in Key
      BY <1>1 DEF DiskTyped, Enrolled, Cert
    <3>4. QED
      BY <2>1, <3>1, <3>2, <3>3, WorkStores
  <2>4. QED
    BY <1>1, <2>2, <2>3 DEF ClientTyped, RowsTyped
<1>5. CASE BrokerSteps
  <2>1. UNCHANGED <<client, db, saved, serial, approved, told>> /\ (reply' = reply \/ reply' = Lost)
    BY <1>5, BrokerLeavesOpca DEF opca
  <2>2. QED
    BY <1>1, <2>1 DEF ClientTyped, RowsTyped
<1>6. QED
  BY <1>2, <1>3, <1>4, <1>5 DEF Step, Works, OpcaSteps, BrokerSteps

(***************************************************************************)
(* The types hold at the start and every step keeps them.                  *)
(***************************************************************************)
LEMMA TypedAlways == Spec => []Typed
<1>1. Init => Typed
  <2> SUFFICES ASSUME Init PROVE Typed
    OBVIOUS
  <2>1. 1 \in Key /\ 1 \in 1..MaxCode /\ Attempts \in 0..Attempts /\ 0 \in 0..MaxSerial
    BY BoundAssumption DEF Key
  <2>2. DiskTyped
    BY <2>1 DEF Init, DiskTyped
  <2>3. DaemonTyped
    BY <2>1 DEF Init, DaemonTyped, Off, Acme
  <2>4. CliTyped /\ NetTyped
    BY DEF Init, CliTyped, NetTyped
  <2>5. ClientTyped
    BY DEF Init, ClientTyped, Idle, Op
  <2>6. RowsTyped
    BY <2>1 DEF Init, RowsTyped, Rows
  <2>7. QED
    BY <2>2, <2>3, <2>4, <2>5, <2>6 DEF Typed
<1>2. Typed /\ [Next]_vars => Typed'
  <2> SUFFICES ASSUME Typed, [Next]_vars PROVE Typed'
    OBVIOUS
  <2>1. CASE Step
    BY <2>1, BrokerTyped, CallsTyped, OpcaTyped DEF Typed
  <2>2. CASE UNCHANGED vars
    BY <2>2 DEF vars, disk, daemon, opca, Typed, DiskTyped, DaemonTyped, CliTyped, NetTyped,
       ClientTyped, RowsTyped
  <2>3. QED
    BY <2>1, <2>2 DEF Next
<1>3. QED
  BY <1>1, <1>2, PTL DEF Spec

-----------------------------------------------------------------------------
(* The properties *)

(***************************************************************************)
(* Of some rows at most one is active.                                     *)
(***************************************************************************)
OneActive(rows) == \A i, j \in Active(rows) : i = j

(***************************************************************************)
(* At most one active row is at most one in number.                        *)
(***************************************************************************)
LEMMA OneActiveCounts ==
  ASSUME NEW rows, OneActive(rows)
  PROVE  Cardinality(Active(rows)) <= 1
<1>1. CASE Active(rows) = {}
  BY <1>1, FS_EmptySet
<1>2. CASE Active(rows) # {}
  <2>1. PICK i : i \in Active(rows)
    BY <1>2
  <2>2. Active(rows) = {i}
    BY <2>1 DEF OneActive
  <2>3. Cardinality({i}) = 1
    BY FS_Singleton
  <2>4. QED
    BY <2>2, <2>3
<1>3. QED
  BY <1>1, <1>2

(***************************************************************************)
(* opCA never has two active subordinates for a broker, in memory or in    *)
(* the vault, whatever is lost, repeated, closed or not stored.            *)
(***************************************************************************)
THEOREM OneSubordinatePerBroker == Spec => []OneActiveSubordinate
<1> DEFINE Inv == OneActive(db) /\ OneActive(saved)
<1>1. Init => Inv
  BY DEF Init, OneActive, Active
<1>2. Inv /\ Typed /\ [Next]_vars => Inv'
  <2> SUFFICES ASSUME Inv, Typed, [Next]_vars PROVE Inv'
    OBVIOUS
  <2>1. CASE OpcaSteps
    <3>1. RowsStep
      BY <2>1, OpcaRows
    <3>2. CASE UNCHANGED <<db, saved>>
      BY <3>2 DEF OneActive, Active
    <3>3. CASE \E rows : RowsKept(rows) /\ Save(rows)
      <4>1. PICK rows : RowsKept(rows) /\ Save(rows)
        BY <3>3
      <4>2. OneActive(rows)
        BY <4>1 DEF RowsKept, OneActive
      <4>3. db' = rows /\ (saved' = rows \/ saved' = saved)
        BY <4>1, SaveIs
      <4>4. QED
        BY <4>2, <4>3 DEF OneActive, Active
    <3>4. CASE db' = saved /\ saved' = saved
      BY <3>4 DEF OneActive, Active
    <3>5. QED
      BY <3>1, <3>2, <3>3, <3>4 DEF RowsStep
  <2>2. CASE ~OpcaSteps
    <3>1. UNCHANGED <<db, saved>>
      <4>1. CASE \E m \in net : Admit(m)
        BY <4>1 DEF Admit, opca
      <4>2. CASE \E m \in net : Works(m)
        BY <4>2, WorkStores DEF opca
      <4>3. CASE BrokerSteps
        BY <4>3, BrokerLeavesOpca DEF opca
      <4>4. CASE UNCHANGED vars
        BY <4>4 DEF vars, opca
      <4>5. QED
        BY <2>2, <4>1, <4>2, <4>3, <4>4 DEF Next, Step, Works, OpcaSteps, BrokerSteps
    <3>2. QED
      BY <3>1 DEF OneActive, Active
  <2>3. QED
    BY <2>1, <2>2
<1>3. Inv => OneActiveSubordinate
  BY OneActiveCounts DEF OneActiveSubordinate
<1>4. QED
  BY <1>1, <1>2, <1>3, TypedAlways, PTL DEF Spec

(***************************************************************************)
(* The domains of everything that is signed, on its way, enrolled or kept  *)
(* in a backup have been agreed to.                                        *)
(***************************************************************************)
ApprovedInv ==
    /\ \A i \in Row : /\ db[i] # None => db[i].cert.dom \in approved
                      /\ saved[i] # None => saved[i].cert.dom \in approved
    /\ \A m \in net : m.op \in {"enrol", "chain"} => m.cert.dom \in approved
    /\ enrol # None => enrol.cert.dom \in approved
    /\ backup # None => backup.cert.dom \in approved

(***************************************************************************)
(* What opCA puts in the net has domains that were agreed to.              *)
(***************************************************************************)
LEMMA SentApproved ==
  ASSUME Typed, ApprovedInv, OpcaSteps
  PROVE  \A m \in net' : m.op \in {"enrol", "chain"} => m.cert.dom \in approved'
<1>1. RowsStep /\ approved \subseteq approved'
  BY OpcaRows DEF RowsStep
<1>2. \A m \in net : m.op \in {"enrol", "chain"} => m.cert.dom \in approved'
  BY <1>1 DEF ApprovedInv
<1>3. RowsTyped /\ ClientTyped /\ NetTyped /\ DiskTyped
  BY DEF Typed
<1>4. ASSUME NEW o, NEW c, NEW n, NEW p, NEW to, Send(Request(o, c, n, p), to),
             o \in {"enrol", "chain"} => c.dom \in approved'
      PROVE  \A m \in net' : m.op \in {"enrol", "chain"} => m.cert.dom \in approved'
  <2>1. PICK r : r = Request(o, c, n, p)
    OBVIOUS
  <2>2. r.op = o /\ r.cert = c /\ net' = net \cup {r}
    BY <1>4, <2>1 DEF Send, Request
  <2>3. QED
    BY <1>2, <1>4, <2>2
<1>5. CASE net' = net
  BY <1>2, <1>5
<1>6. CASE Resend
  <2>1. PICK i \in Undelivered, n \in 1..code.n :
           Send(Request("enrol", db[i].cert, n, FALSE), [pc |-> "enrol", id |-> i]) \/ net' = net
    BY <1>6 DEF Resend
  <2>2. db[i].cert.dom \in approved'
    BY <1>1 DEF ApprovedInv, Undelivered, Active
  <2>3. QED
    BY <1>4, <1>5, <2>1, <2>2
<1>7. CASE SignNew
  <2> DEFINE c(d) == [serial |-> serial + 1, key |-> Offer.key,
                      dom |-> IF Offer.conf = None THEN d ELSE Offer.conf]
  <2>1. PICK i \in Row, n \in 1..code.n, d \in Domain :
           /\ client.shown.conf \in {None, d}
           /\ approved' = approved \cup {d}
           /\ Send(Request("enrol", c(d), n, FALSE), [pc |-> "enrol", id |-> i]) \/ net' = net
    BY <1>7 DEF SignNew
  <2>2. Offer = client.shown
    BY <1>7 DEF SignNew, SameOffer
  <2>3. c(d).dom \in approved'
    BY <2>1, <2>2
  <2>4. QED
    BY <1>4, <1>5, <2>1, <2>3
<1>8. CASE RenewSign
  <2> DEFINE c(i) == [serial |-> serial + 1, key |-> FreshCsr.key,
                      dom |-> IF FreshCsr.conf = None THEN db[i].cert.dom ELSE FreshCsr.conf]
  <2>1. PICK i \in Active(db), change \in BOOLEAN :
           /\ ChangedDomains(db[i]) => change
           /\ approved' = IF change THEN approved \cup {c(i).dom} ELSE approved
           /\ Send(Request("chain", c(i), 0, FALSE), [pc |-> "chain", id |-> i]) \/ net' = net
    BY <1>8 DEF RenewSign
  <2>2. db[i].cert.dom \in approved
    BY DEF ApprovedInv, Active
  <2>3. c(i).dom \in approved'
    BY <2>1, <2>2 DEF ChangedDomains
  <2>4. QED
    BY <1>4, <1>5, <2>1, <2>3
<1>9. CASE PauseBroker
  <2>1. PICK i \in Row, p \in BOOLEAN : Send(Request("pause", None, 0, p), [pc |-> "pause", id |-> i])
    BY <1>9 DEF PauseBroker
  <2>2. PICK r : r = Request("pause", None, 0, p)
    OBVIOUS
  <2>3. r.op = "pause" /\ net' = net \cup {r}
    BY <2>1, <2>2 DEF Send, Request
  <2>4. r.op \notin {"enrol", "chain"}
    BY <2>3
  <2>5. QED
    BY <1>2, <2>3, <2>4
<1>10. CASE RevokeBroker
  <2>1. PICK i \in Row : Send(Request("revoke", None, 0, FALSE), [pc |-> "revoke", id |-> i])
                         \/ net' = net
    BY <1>10 DEF RevokeBroker
  <2>2. PICK r : r = Request("revoke", None, 0, FALSE)
    OBVIOUS
  <2>3. r.op = "revoke" /\ (net' = net \cup {r} \/ net' = net)
    BY <2>1, <2>2 DEF Send, Request
  <2>4. r.op \notin {"enrol", "chain"}
    BY <2>3
  <2>5. QED
    BY <1>2, <2>3, <2>4
<1>11. ASSUME NEW m \in net, NEW q, q = [m EXCEPT !.live = FALSE]
       PROVE  q.op \in {"enrol", "chain"} => q.cert.dom \in approved'
  BY <1>2, <1>3, <1>11 DEF NetTyped, Message
<1>12. CASE Timeout
  BY <1>2, <1>11, <1>12 DEF Timeout
<1>13. CASE Reopen
  <2>1. \A q \in net' : \E m \in net : q = [m EXCEPT !.live = FALSE]
    BY <1>13 DEF Reopen
  <2>2. QED
    BY <1>11, <2>1
<1>14. CASE FetchOffer \/ HandleStatus \/ RenewRefused \/ Record \/ GiveUp
  <2>1. net' = net
    BY <1>14 DEF FetchOffer, HandleStatus, BrokerStatus, RenewRefused, Record, GiveUp
  <2>2. QED
    BY <1>5, <2>1
<1>15. QED
  BY <1>6, <1>7, <1>8, <1>9, <1>10, <1>12, <1>13, <1>14
     DEF OpcaSteps, HandleEnrol, HandlePause, HandleRenew, HandleRevoke

(***************************************************************************)
(* No broker is signed or enrolled for domains that the operator did not   *)
(* agree to, although its configuration changes at any time and calls are  *)
(* lost, late or repeated.                                                 *)
(***************************************************************************)
THEOREM NothingUnapproved == Spec => []OnlyApprovedDomains
<1>1. Init => ApprovedInv
  BY DEF Init, ApprovedInv
<1>2. ApprovedInv /\ Typed /\ [Next]_vars => ApprovedInv'
  <2> SUFFICES ASSUME ApprovedInv, Typed, [Next]_vars PROVE ApprovedInv'
    OBVIOUS
  <2>1. CASE OpcaSteps
    <3>1. RowsStep /\ approved \subseteq approved' /\ UNCHANGED <<enrol, backup>>
      BY <2>1, OpcaRows, OpcaLeavesBroker DEF RowsStep
    <3>2. \A i \in Row : /\ db'[i] # None => db'[i].cert.dom \in approved'
                         /\ saved'[i] # None => saved'[i].cert.dom \in approved'
      <4>1. CASE UNCHANGED <<db, saved>>
        BY <3>1, <4>1 DEF ApprovedInv
      <4>2. CASE \E rows : RowsKept(rows) /\ Save(rows)
        <5>1. PICK rows : RowsKept(rows) /\ Save(rows)
          BY <4>2
        <5>2. \A i \in Row : rows[i] # None => rows[i].cert.dom \in approved'
          BY <3>1, <5>1 DEF RowsKept, ApprovedInv
        <5>3. db' = rows /\ (saved' = rows \/ saved' = saved)
          BY <5>1, SaveIs
        <5>4. QED
          BY <3>1, <5>2, <5>3 DEF ApprovedInv
      <4>3. CASE db' = saved /\ saved' = saved
        BY <3>1, <4>3 DEF ApprovedInv
      <4>4. QED
        BY <3>1, <4>1, <4>2, <4>3 DEF RowsStep
    <3>3. QED
      BY <2>1, <3>1, <3>2, SentApproved DEF ApprovedInv
  <2>2. CASE \E m \in net : Admit(m)
    <3>1. PICK m \in net : Admit(m)
      BY <2>2
    <3>2. PICK n : n = [m EXCEPT !.admitted = TRUE]
      OBVIOUS
    <3>3. n.op = m.op /\ n.cert = m.cert
      BY <3>2 DEF Typed, NetTyped, Message
    <3>4. net' \subseteq net \cup {n} /\ UNCHANGED <<db, saved, approved, enrol, backup>>
      BY <3>1, <3>2 DEF Admit, Answer, opca, disk
    <3>5. QED
      BY <3>3, <3>4 DEF ApprovedInv
  <2>3. CASE \E m \in net : Works(m)
    <3>1. PICK m \in net : Works(m)
      BY <2>3
    <3>2. net' = net \ {m} /\ UNCHANGED <<db, saved, approved, backup>>
      BY <3>1, WorkStores DEF opca
    <3>3. enrol' = enrol \/ enrol'.cert.dom \in approved
      <4>1. CASE UNCHANGED <<enrol, mem, acme>>
        BY <4>1
      <4>2. CASE \E e \in Enrolled : /\ Store(e)
                                     /\ \/ enrol # None /\ e.cert = enrol.cert
                                        \/ m.op \in {"enrol", "chain"} /\ e.cert = m.cert
        BY <4>2 DEF Store, ApprovedInv
      <4>3. QED
        BY <3>1, <4>1, <4>2, WorkStores
    <3>4. QED
      BY <3>2, <3>3 DEF ApprovedInv
  <2>4. CASE BrokerSteps
    <3>1. UNCHANGED <<db, saved, approved>> /\ net' \subseteq net
      BY <2>4, BrokerLeavesOpca DEF opca
    <3>2. enrol' \in {enrol, None, backup} /\ backup' \in {backup, enrol}
      BY <2>4 DEF BrokerSteps, KeepServing, Start, Crash, Reload, Pairing, NewPairing,
         ReopenArchive, ReopenKey, ReopenCode, ReopenEnds, Hooks, Capture, Restore, disk
    <3>3. QED
      BY <3>1, <3>2 DEF ApprovedInv
  <2>5. CASE UNCHANGED vars
    BY <2>5 DEF vars, disk, opca, ApprovedInv
  <2>6. QED
    BY <2>1, <2>2, <2>3, <2>4, <2>5 DEF Next, Step, Works, OpcaSteps, BrokerSteps
<1>3. ApprovedInv => OnlyApprovedDomains
  BY DEF ApprovedInv, OnlyApprovedDomains
<1>4. QED
  BY <1>1, <1>2, <1>3, TypedAlways, PTL DEF Spec

(***************************************************************************)
(* The listener serves only a live enrolment and with its pause, after any *)
(* refresh, reload, restart or restore, whether it succeeds or fails.      *)
(***************************************************************************)
THEOREM ListenerFollows == Spec => []ServesAsEnrolled
<1>1. Init => ServesAsEnrolled
  BY DEF Init, ServesAsEnrolled, Off
<1>2. ServesAsEnrolled /\ Typed /\ [Next]_vars => ServesAsEnrolled'
  <2> SUFFICES ASSUME ServesAsEnrolled, Typed, [Next]_vars PROVE ServesAsEnrolled'
    OBVIOUS
  <2>1. acme \in Acme /\ mem \in Enrolled \cup {None} /\ enrol \in Enrolled \cup {None}
        /\ backup \in Enrolled \cup {None}
    BY DEF Typed, DaemonTyped, DiskTyped
  <2>2. CASE UNCHANGED <<mem, acme>>
    BY <2>2 DEF ServesAsEnrolled
  <2>3. ASSUME NEW e \in Enrolled \cup {None}, NEW k, mem' = e, acme' \in Refreshed(e, k)
        PROVE  ServesAsEnrolled'
    BY <2>1, <2>3, RefreshFollows DEF ServesAsEnrolled
  <2>4. CASE \E m \in net : Works(m)
    <3>1. PICK m \in net : Works(m)
      BY <2>4
    <3>2. CASE \E e \in Enrolled : Store(e)
      BY <2>3, <3>2 DEF Store
    <3>3. QED
      BY <2>2, <3>1, <3>2, WorkStores
  <2>5. CASE KeepServing
    BY <2>1, <2>3, <2>5 DEF KeepServing
  <2>6. CASE Start \/ Crash
    BY <2>6 DEF Start, Crash, Off, ServesAsEnrolled
  <2>7. CASE Reload \/ Restore
    <3>1. UNCHANGED <<mem, acme>> \/ (\E e \in Enrolled \cup {None} : ReloadLocked(e))
      BY <2>1, <2>7 DEF Reload, Restore
    <3>2. QED
      BY <2>2, <2>3, <3>1 DEF ReloadLocked
  <2>8. CASE OpcaSteps
    BY <2>2, <2>8, OpcaLeavesBroker
  <2>9. CASE \E m \in net : Admit(m)
    BY <2>2, <2>9 DEF Admit, daemon
  <2>10. CASE \/ Pairing \/ ReopenArchive \/ ReopenKey \/ ReopenCode \/ ReopenEnds \/ Capture
              \/ UNCHANGED vars
    <3>1. UNCHANGED <<mem, acme>>
      BY <2>10 DEF Pairing, ReopenArchive, ReopenKey, ReopenCode, ReopenEnds, Capture, vars, daemon
    <3>2. QED
      BY <2>2, <3>1
  <2>11. QED
    BY <2>4, <2>5, <2>6, <2>7, <2>8, <2>9, <2>10
       DEF Next, Step, Works, OpcaSteps, NewPairing, Hooks
<1>3. QED
  BY <1>1, <1>2, TypedAlways, PTL DEF Spec

(***************************************************************************)
(* An enrolment appears only with a pairing code spent on it or by a       *)
(* restore: a late chain, pause or revocation never brings back one that a *)
(* reopen has archived.                                                    *)
(***************************************************************************)
THEOREM ReopensStay == Spec => ReopenNotUndone
<1>1. Typed /\ [Next]_vars =>
         [enrol = None /\ enrol' # None => (code.left > 0 /\ code'.left = 0) \/ enrol' = backup]_vars
  <2> SUFFICES ASSUME Typed, Next, enrol = None, enrol' # None
               PROVE  (code.left > 0 /\ code'.left = 0) \/ enrol' = backup
    OBVIOUS
  <2>1. ASSUME NEW m \in net, Enrol(m) PROVE code.left > 0 /\ code'.left = 0
    <3>1. code \in [n : 1..MaxCode, left : 0..Attempts]
      BY DEF Typed, DiskTyped
    <3>2. code.left > 0 /\ code' = [code EXCEPT !.left = 0]
      BY <2>1 DEF Enrol, Redeem
    <3>3. QED
      BY <3>1, <3>2
  <2>2. ASSUME NEW m \in net, EnrolRefused(m) \/ UpdateChain(m) \/ Revoke(m) \/ Pause(m)
        PROVE  FALSE
    BY <2>2 DEF EnrolRefused, UpdateChain, Revoke, Pause, OnDisk
  <2>3. ASSUME NEW m \in net, Admit(m) PROVE FALSE
    BY <2>3 DEF Admit, disk
  <2>4. CASE OpcaSteps
    BY <2>4, OpcaLeavesBroker
  <2>5. CASE BrokerSteps
    BY <2>5 DEF BrokerSteps, KeepServing, Start, Crash, Reload, Pairing, NewPairing,
       ReopenArchive, ReopenKey, ReopenCode, ReopenEnds, Hooks, Capture, Restore, disk
  <2>6. QED
    BY <2>1, <2>2, <2>3, <2>4, <2>5 DEF Next, Step, OpcaSteps, BrokerSteps
<1>2. QED
  BY <1>1, TypedAlways, PTL DEF Spec, ReopenNotUndone

-----------------------------------------------------------------------------
(* Revocations *)

(***************************************************************************)
(* The keys that opCA knows to be revoked, or is about to.                 *)
(***************************************************************************)
Told == told \cup (IF client.pc = "revoke" /\ reply \notin {None, Lost} THEN {reply.key} ELSE {})

(***************************************************************************)
(* Nothing is for a key the broker is yet to have.                         *)
(***************************************************************************)
KeysPast ==
    /\ memKey <= key
    /\ enrol # None => enrol.cert.key <= key
    /\ client.pc = "review" => client.shown.key <= key
    /\ \A m \in net : m.op \in {"enrol", "chain"} => m.cert.key <= key
    /\ \A k \in Told : k <= key

(***************************************************************************)
(* A code can be redeemed only while nothing is enrolled, and a reopen     *)
(* holds the lock until it has a new key.                                  *)
(***************************************************************************)
CodeSound ==
    /\ code.left > 0 => enrol = None
    /\ cli \in {"archived", "rekeyed"} => enrol = None

(***************************************************************************)
(* The broker's key, once opCA knows it is revoked, has its revocation on  *)
(* disk until a reopen has archived it, which then replaces the key.       *)
(***************************************************************************)
RevocationKept ==
    ~halfway /\ key \in Told => cli = "archived" \/ (enrol # None /\ enrol.revoked)

RevokedInv == KeysPast /\ CodeSound /\ RevocationKept

(***************************************************************************)
(* Only the answer to a revocation adds to the keys opCA knows of.         *)
(***************************************************************************)
LEMMA ToldGrows ==
  ASSUME Typed, Step
  PROVE  /\ ~(\E m \in net : Works(m)) => Told' \subseteq Told
         /\ \A m \in net : Works(m) =>
               \/ Told' \subseteq Told
               \/ m.op = "revoke" /\ enrol # None /\ Told' \subseteq Told \cup {enrol.cert.key}
<1>1. NetTyped
  BY DEF Typed
<1>2. CASE OpcaSteps
  <2>1. RowsStep
    BY <1>2, OpcaRows
  <2>2. Told' = told'
    BY <2>1 DEF RowsStep, Told, Idle, Op
  <2>3. told' \subseteq Told
    BY <2>1 DEF RowsStep, Told
  <2>4. QED
    BY <2>2, <2>3
<1>3. ASSUME NEW m \in net, Admit(m)
      PROVE  Told' \subseteq Told
  <2>1. UNCHANGED <<client, told>> /\ (reply' = reply \/ reply' = Lost)
    BY <1>3 DEF Admit, Answer, opca
  <2>2. QED
    BY <2>1 DEF Told
<1>4. CASE BrokerSteps
  <2>1. UNCHANGED <<client, told>> /\ (reply' = reply \/ reply' = Lost)
    BY <1>4, BrokerLeavesOpca DEF opca
  <2>2. QED
    BY <2>1 DEF Told
<1>5. ASSUME NEW m \in net, Works(m)
      PROVE  \/ Told' \subseteq Told
             \/ m.op = "revoke" /\ enrol # None /\ Told' \subseteq Told \cup {enrol.cert.key}
  <2>1. UNCHANGED <<client, told>> /\ (reply' = reply \/ m.live)
    BY <1>5, WorkStores DEF opca
  <2>2. CASE reply' = reply \/ reply' = Lost \/ client.pc # "revoke"
    BY <2>1, <2>2 DEF Told
  <2>3. CASE reply' # reply /\ reply' # Lost /\ client.pc = "revoke"
    <3>1. m.op = "revoke"
      BY <1>1, <2>1, <2>3 DEF NetTyped
    <3>2. enrol # None /\ reply'.key = enrol.cert.key
      BY <1>5, <2>3, <3>1, WorkStores
    <3>3. Told' \subseteq Told \cup {enrol.cert.key}
      BY <2>1, <3>2 DEF Told
    <3>4. QED
      BY <3>1, <3>2, <3>3
  <2>4. QED
    BY <2>2, <2>3
<1>6. QED
  BY <1>2, <1>3, <1>4, <1>5 DEF Step, Works, OpcaSteps, BrokerSteps

(***************************************************************************)
(* What opCA puts in the net is for a key that the broker has or had.      *)
(***************************************************************************)
LEMMA SentPast ==
  ASSUME Typed, KeysPast, OpcaSteps
  PROVE  /\ \A m \in net' : m.op \in {"enrol", "chain"} => m.cert.key <= key
         /\ client'.pc = "review" => client'.shown.key <= key
<1>1. RowsTyped /\ ClientTyped /\ NetTyped /\ DiskTyped
  BY DEF Typed
<1>2. \A m \in net : m.op \in {"enrol", "chain"} => m.cert.key <= key
  BY DEF KeysPast
<1> DEFINE Past == \A m \in net' : m.op \in {"enrol", "chain"} => m.cert.key <= key
<1>3. ASSUME NEW o, NEW c, NEW n, NEW p, NEW i, Send(Request(o, c, n, p), [pc |-> o, id |-> i]),
             o \in Op, o \in {"enrol", "chain"} => c.key <= key
      PROVE  Past /\ client'.pc # "review"
  <2>1. PICK r : r = Request(o, c, n, p)
    OBVIOUS
  <2>2. r.op = o /\ r.cert = c /\ net' = net \cup {r} /\ client'.pc = o
    BY <1>3, <2>1 DEF Send, Request
  <2>3. QED
    BY <1>2, <1>3, <2>2 DEF Op
<1>4. CASE net' = net /\ client' = Idle
  BY <1>2, <1>4 DEF Idle
<1>5. CASE FetchOffer
  <2>1. Offer # Lost /\ client' = [pc |-> "review", shown |-> Offer] /\ net' = net
    BY <1>5 DEF FetchOffer
  <2>2. Offer = [key |-> memKey, conf |-> conf]
    BY <2>1 DEF Offer
  <2>3. client'.shown.key <= key
    BY <2>1, <2>2 DEF KeysPast
  <2>4. QED
    BY <1>2, <2>1, <2>3
<1>6. CASE Resend
  <2>1. PICK i \in Undelivered, n \in 1..code.n :
           \/ /\ db[i].cert.key = Offer.key
              /\ Send(Request("enrol", db[i].cert, n, FALSE), [pc |-> "enrol", id |-> i])
           \/ net' = net /\ client' = Idle
    BY <1>6 DEF Resend, Done
  <2>2. Offer.key <= key /\ "enrol" \in Op
    BY <1>6 DEF Resend, SameOffer, At, KeysPast, Op
  <2>3. QED
    BY <1>3, <1>4, <2>1, <2>2
<1>7. CASE SignNew
  <2> DEFINE c(d) == [serial |-> serial + 1, key |-> Offer.key,
                      dom |-> IF Offer.conf = None THEN d ELSE Offer.conf]
  <2>1. PICK i \in Row, n \in 1..code.n, d \in Domain :
           \/ Send(Request("enrol", c(d), n, FALSE), [pc |-> "enrol", id |-> i])
           \/ net' = net /\ client' = Idle
    BY <1>7 DEF SignNew, Done
  <2>2. c(d).key <= key /\ "enrol" \in Op
    BY <1>7 DEF SignNew, SameOffer, At, KeysPast, Op
  <2>3. QED
    BY <1>3, <1>4, <2>1, <2>2
<1>8. CASE RenewSign
  <2> DEFINE c(i) == [serial |-> serial + 1, key |-> FreshCsr.key,
                      dom |-> IF FreshCsr.conf = None THEN db[i].cert.dom ELSE FreshCsr.conf]
  <2>1. PICK i \in Active(db) :
           \/ Send(Request("chain", c(i), 0, FALSE), [pc |-> "chain", id |-> i])
           \/ net' = net /\ client' = Idle
    BY <1>8 DEF RenewSign, Done
  <2>2. FreshCsr = [key |-> memKey, conf |-> conf]
    BY <1>8 DEF RenewSign, FreshCsr
  <2>3. c(i).key <= key /\ "chain" \in Op
    BY <2>2 DEF KeysPast, Op
  <2>4. QED
    BY <1>3, <1>4, <2>1, <2>3
<1>9. CASE PauseBroker \/ RevokeBroker
  <2>1. client.pc = "idle"
    BY <1>9 DEF PauseBroker, RevokeBroker, At
  <2>2. PICK o \in {"pause", "revoke"}, p \in BOOLEAN, i \in Row :
           Send(Request(o, None, 0, p), [pc |-> o, id |-> i]) \/ (net' = net /\ client' = client)
    BY <1>9 DEF PauseBroker, RevokeBroker
  <2>3. PICK r : r = Request(o, None, 0, p)
    OBVIOUS
  <2>4. r.op = o /\ ((net' = net \cup {r} /\ client'.pc = o) \/ (net' = net /\ client' = client))
    BY <2>2, <2>3 DEF Send, Request
  <2>5. r.op \notin {"enrol", "chain"} /\ o # "review"
    BY <2>4
  <2>6. QED
    BY <1>2, <2>1, <2>4, <2>5
<1>10. ASSUME NEW m \in net, NEW q, q = [m EXCEPT !.live = FALSE]
       PROVE  q.op \in {"enrol", "chain"} => q.cert.key <= key
  BY <1>1, <1>2, <1>10 DEF NetTyped, Message
<1>11. CASE Timeout
  <2>1. client' = client
    BY <1>11 DEF Timeout, opca
  <2>2. Past
    BY <1>2, <1>10, <1>11 DEF Timeout
  <2>3. QED
    BY <2>1, <2>2 DEF KeysPast
<1>12. CASE Reopen
  <2>1. \A q \in net' : \E m \in net : q = [m EXCEPT !.live = FALSE]
    BY <1>12 DEF Reopen
  <2>2. client'.pc # "review"
    BY <1>12 DEF Reopen, Idle
  <2>3. QED
    BY <1>10, <2>1, <2>2
<1>13. CASE HandleStatus \/ RenewRefused
  <2>1. net' = net /\ client' = client
    BY <1>13 DEF HandleStatus, BrokerStatus, RenewRefused
  <2>2. QED
    BY <1>2, <2>1 DEF KeysPast
<1>14. CASE Record \/ GiveUp
  BY <1>4, <1>14 DEF Record, GiveUp, Done
<1>15. QED
  BY <1>5, <1>6, <1>7, <1>8, <1>9, <1>11, <1>12, <1>13, <1>14
     DEF OpcaSteps, HandleEnrol, HandlePause, HandleRenew, HandleRevoke

(***************************************************************************)
(* A message worked on under the lock keeps what is known of revocations:  *)
(* an enrolment is stored only where nothing was enrolled and the key is   *)
(* not known to be revoked, and a chain or a pause only where the          *)
(* enrolment on disk is not revoked.                                       *)
(***************************************************************************)
LEMMA WorkKeepsRevoked ==
  ASSUME Typed, Step, RevokedInv, NEW m \in net, Works(m)
  PROVE  RevokedInv'
<1>1. code \in [n : 1..MaxCode, left : 0..Attempts] /\ key \in Key /\ enrol \in Enrolled \cup {None}
  BY DEF Typed, DiskTyped
<1>2. UNCHANGED <<key, memKey, cli, halfway, client>> /\ net' = net \ {m}
  BY WorkStores DEF opca
<1>3. \/ Told' \subseteq Told
      \/ m.op = "revoke" /\ enrol # None /\ Told' \subseteq Told \cup {enrol.cert.key}
  BY ToldGrows
<1>4. KeysPast'
  <2>1. enrol' # None => enrol'.cert.key <= key
    <3>1. CASE UNCHANGED <<enrol, mem, acme>>
      BY <3>1 DEF RevokedInv, KeysPast
    <3>2. CASE \E e \in Enrolled : /\ Store(e)
                                   /\ \/ enrol # None /\ e.cert = enrol.cert
                                      \/ m.op \in {"enrol", "chain"} /\ e.cert = m.cert
      BY <3>2 DEF RevokedInv, KeysPast, Store
    <3>3. QED
      BY <3>1, <3>2, WorkStores
  <2>2. \A k \in Told' : k <= key
    BY <1>3 DEF RevokedInv, KeysPast
  <2>3. QED
    BY <1>2, <2>1, <2>2 DEF RevokedInv, KeysPast
<1>5. cli \notin {"archived", "rekeyed"}
  BY DEF Works, Enrol, EnrolRefused, UpdateChain, Revoke, Pause, Locked, LockFree
<1>6. SUFFICES /\ code'.left > 0 => enrol' = None
               /\ ~halfway /\ key \in Told' => enrol' # None /\ enrol'.revoked
  BY <1>2, <1>4, <1>5 DEF RevokedInv, CodeSound, RevocationKept
<1>7. /\ code.left > 0 => enrol = None
      /\ ~halfway /\ key \in Told => enrol # None /\ enrol.revoked
  BY <1>5 DEF RevokedInv, CodeSound, RevocationKept
<1>8. CASE Enrol(m)
  <2>1. m.op = "enrol" /\ code.left > 0 /\ code' = [code EXCEPT !.left = 0]
    BY <1>8 DEF Enrol, Locked, Redeem
  <2>2. code'.left = 0 /\ ~(code'.left > 0)
    BY <1>1, <2>1
  <2>3. Told' \subseteq Told
    BY <1>3, <2>1
  <2>4. QED
    BY <1>7, <2>1, <2>2, <2>3
<1>9. CASE EnrolRefused(m)
  <2>1. m.op = "enrol" /\ enrol' = enrol /\ code' = [code EXCEPT !.left = AttemptsLeft(@)]
    BY <1>9 DEF EnrolRefused, Locked
  <2>2. code'.left > 0 => code.left > 0
    <3>1. code'.left = AttemptsLeft(code.left)
      BY <1>1, <2>1
    <3>2. QED
      BY <1>1, <3>1 DEF AttemptsLeft
  <2>3. Told' \subseteq Told
    BY <1>3, <2>1
  <2>4. QED
    BY <1>7, <2>1, <2>2, <2>3
<1>10. CASE UpdateChain(m) \/ Pause(m)
  <2>1. m.op # "revoke" /\ code' = code
    BY <1>10 DEF UpdateChain, Pause, Locked
  <2>2. Told' \subseteq Told
    BY <1>3, <2>1
  <2>3. enrol' = enrol \/ (enrol # None /\ ~enrol.revoked)
    BY <1>10 DEF UpdateChain, Pause, OnDisk
  <2>4. QED
    BY <1>7, <2>1, <2>2, <2>3
<1>11. CASE Revoke(m)
  <2>1. code' = code
    BY <1>11 DEF Revoke
  <2>2. CASE enrol = None
    <3>1. enrol' = enrol /\ Told' \subseteq Told
      BY <1>3, <1>11, <2>2 DEF Revoke, OnDisk
    <3>2. QED
      BY <1>7, <2>1, <3>1
  <2>3. CASE enrol # None
    <3>1. enrol \in Enrolled
      BY <1>1, <2>3
    <3>2. (enrol.revoked /\ enrol' = enrol) \/ enrol' = [enrol EXCEPT !.revoked = TRUE]
      BY <1>11, <2>3 DEF Revoke, OnDisk, Store
    <3>3. enrol' \in Enrolled /\ enrol'.revoked
      BY <3>1, <3>2 DEF Enrolled
    <3>4. enrol' # None
      BY <3>3, ValueAssumption
    <3>5. QED
      BY <1>7, <2>1, <2>3, <3>3, <3>4
  <2>4. QED
    BY <2>2, <2>3
<1>12. QED
  BY <1>8, <1>9, <1>10, <1>11 DEF Works

(***************************************************************************)
(* The daemon, the command line and the clock keep it too, as long as the  *)
(* console restores nothing: a reopen archives a revoked enrolment only to *)
(* replace its key, and issues a code only afterwards.                     *)
(***************************************************************************)
LEMMA BrokerKeepsRevoked ==
  ASSUME ~Restores, Typed, Step, RevokedInv, BrokerSteps, ~(\E m \in net : Works(m))
  PROVE  RevokedInv'
<1>1. /\ code \in [n : 1..MaxCode, left : 0..Attempts]
      /\ key \in Nat /\ memKey \in Nat /\ Told' \subseteq Told /\ halfway \in BOOLEAN
  BY ToldGrows, BoundAssumption DEF Typed, DiskTyped, DaemonTyped, CliTyped, Key
<1>2. client' = client /\ net' \subseteq net
  BY BrokerLeavesOpca DEF opca
<1>3. ASSUME key' \in Nat, key <= key', memKey' \in {memKey, key, 0}, enrol' \in {enrol, None}
      PROVE  KeysPast'
  <2>1. \A k \in Told : k \in Nat
    <3>1. \A k \in Told : k \in Key
      BY DEF Typed, RowsTyped, ClientTyped, Told
    <3>2. QED
      BY <3>1, BoundAssumption DEF Key
  <2>2. memKey' <= key'
    BY <1>1, <1>3 DEF RevokedInv, KeysPast
  <2>3. enrol' # None => enrol'.cert.key <= key'
    BY <1>1, <1>3, BoundAssumption DEF RevokedInv, KeysPast, Typed, DiskTyped, Enrolled, Cert, Key
  <2>4. client.pc = "review" => client.shown.key <= key'
    BY <1>1, <1>3, BoundAssumption DEF RevokedInv, KeysPast, Typed, ClientTyped, Key
  <2>5. \A m \in net : m.op \in {"enrol", "chain"} => m.cert.key <= key'
    BY <1>1, <1>3, BoundAssumption DEF RevokedInv, KeysPast, Typed, NetTyped, Cert, Key
  <2>6. \A k \in Told : k <= key'
    BY <1>1, <1>3, <2>1 DEF RevokedInv, KeysPast
  <2>7. QED
    BY <1>1, <1>2, <2>2, <2>3, <2>4, <2>5, <2>6 DEF KeysPast
<1>4. /\ code.left > 0 => enrol = None
      /\ cli \in {"archived", "rekeyed"} => enrol = None
      /\ ~halfway /\ key \in Told => cli = "archived" \/ (enrol # None /\ enrol.revoked)
  BY DEF RevokedInv, CodeSound, RevocationKept
<1>5. CASE KeepServing \/ Start \/ Reload
  <2>1. UNCHANGED <<key, code, enrol, halfway>> /\ memKey' \in {memKey, key}
        /\ (cli' = cli \/ (cli = "signal" /\ cli' = "idle"))
    BY <1>5 DEF KeepServing, Start, Reload, ReloadLocked, disk
  <2>2. KeysPast'
    BY <1>1, <1>3, <2>1
  <2>3. QED
    BY <1>1, <1>4, <2>1, <2>2 DEF RevokedInv, CodeSound, RevocationKept
<1>6. CASE Crash
  <2>1. UNCHANGED <<key, enrol, cli, halfway>> /\ memKey' = 0
        /\ (code' = code \/ code' = [code EXCEPT !.left = 0])
    BY <1>6 DEF Crash, Redeem
  <2>2. code'.left > 0 => code.left > 0
    BY <1>1, <2>1
  <2>3. KeysPast'
    BY <1>1, <1>3, <2>1
  <2>4. QED
    BY <1>1, <1>4, <2>1, <2>2, <2>3 DEF RevokedInv, CodeSound, RevocationKept
<1>7. CASE Pairing \/ NewPairing
  <2>1. UNCHANGED <<key, memKey, enrol, cli, halfway>> /\ enrol = None
    BY <1>7 DEF Pairing, NewPairing, daemon
  <2>2. KeysPast'
    BY <1>1, <1>3, <2>1
  <2>3. QED
    BY <1>1, <1>4, <2>1, <2>2 DEF RevokedInv, CodeSound, RevocationKept
<1>8. CASE ReopenArchive
  <2>1. UNCHANGED <<key, memKey, code, halfway>> /\ enrol' = None /\ cli' = "archived"
    BY <1>8 DEF ReopenArchive, daemon
  <2>2. KeysPast'
    BY <1>1, <1>3, <2>1
  <2>3. QED
    BY <2>1, <2>2 DEF RevokedInv, CodeSound, RevocationKept
<1>9. CASE ReopenKey
  <2>1. UNCHANGED <<memKey, code, enrol, halfway>> /\ key' = key + 1 /\ cli = "archived"
    BY <1>9 DEF ReopenKey, daemon
  <2>2. KeysPast'
    BY <1>1, <1>3, <2>1
  <2>3. key' \notin Told'
    BY <1>1, <2>1 DEF RevokedInv, KeysPast
  <2>4. QED
    BY <1>4, <2>1, <2>2, <2>3 DEF RevokedInv, CodeSound, RevocationKept
<1>10. CASE ReopenCode
  <2>1. UNCHANGED <<key, memKey, enrol, halfway>> /\ cli = "rekeyed" /\ cli' = "signal"
    BY <1>10 DEF ReopenCode, daemon
  <2>2. KeysPast'
    BY <1>1, <1>3, <2>1
  <2>3. QED
    BY <1>1, <1>4, <2>1, <2>2 DEF RevokedInv, CodeSound, RevocationKept
<1>11. CASE ReopenEnds
  <2>1. UNCHANGED <<key, memKey, code, enrol>> /\ cli' = "idle"
        /\ halfway' = (halfway \/ ~LockFree)
    BY <1>11 DEF ReopenEnds, disk, daemon
  <2>2. ~halfway' => ~halfway /\ cli # "archived"
    BY <2>1 DEF LockFree
  <2>3. KeysPast'
    BY <1>1, <1>3, <2>1
  <2>4. QED
    BY <1>1, <1>4, <2>1, <2>2, <2>3 DEF RevokedInv, CodeSound, RevocationKept
<1>12. CASE Hooks
  BY <1>12 DEF Hooks, Capture, Restore
<1>13. QED
  BY <1>5, <1>6, <1>7, <1>8, <1>9, <1>10, <1>11, <1>12 DEF BrokerSteps

(***************************************************************************)
(* While the console restores no backup, a broker whose key opCA was told  *)
(* is revoked never takes its enrolment up again: not by a late enrolment, *)
(* chain or pause, nor by a restart or a reopen at any moment, however     *)
(* many calls fail.  With restores it needs the run's bound on failures:   *)
(* an enrolment admitted before a restore may overwrite one revoked since. *)
(***************************************************************************)
THEOREM RevocationsRemembered == ASSUME ~Restores PROVE Spec => []ToldStaysRevoked
<1>1. Init => RevokedInv
  <2> SUFFICES ASSUME Init PROVE RevokedInv
    OBVIOUS
  <2>1. Told = {} /\ net = {} /\ enrol = None /\ memKey <= key /\ client.pc = "idle" /\ cli = "idle"
    BY DEF Init, Told, Idle
  <2>2. QED
    BY <2>1 DEF RevokedInv, KeysPast, CodeSound, RevocationKept
<1>2. RevokedInv /\ Typed /\ [Next]_vars => RevokedInv'
  <2> SUFFICES ASSUME RevokedInv, Typed, [Next]_vars PROVE RevokedInv'
    OBVIOUS
  <2>1. CASE UNCHANGED vars
    BY <2>1 DEF vars, disk, daemon, opca, RevokedInv, KeysPast, CodeSound, RevocationKept, Told
  <2>2. CASE Step
    <3>1. CASE \E m \in net : Works(m)
      BY <2>2, <3>1, WorkKeepsRevoked
    <3>2. CASE ~(\E m \in net : Works(m))
      <4>1. Told' \subseteq Told
        BY <2>2, <3>2, ToldGrows
      <4>2. ASSUME UNCHANGED <<key, code, enrol, memKey, cli, halfway>>,
                   \A m \in net' : m.op \in {"enrol", "chain"} => m.cert.key <= key,
                   client'.pc = "review" => client'.shown.key <= key
            PROVE  RevokedInv'
        BY <4>1, <4>2 DEF RevokedInv, KeysPast, CodeSound, RevocationKept
      <4>3. CASE OpcaSteps
        <5>1. UNCHANGED <<key, code, enrol, memKey, cli, halfway>>
          BY <4>3, OpcaLeavesBroker
        <5>2. QED
          BY <4>2, <4>3, <5>1, SentPast DEF RevokedInv
      <4>4. CASE \E m \in net : Admit(m)
        <5>1. PICK m \in net : Admit(m)
          BY <4>4
        <5>2. PICK n : n = [m EXCEPT !.admitted = TRUE]
          OBVIOUS
        <5>3. n.op = m.op /\ n.cert = m.cert
          BY <5>2 DEF Typed, NetTyped, Message
        <5>4. net' \subseteq net \cup {n}
          BY <5>1, <5>2 DEF Admit, Answer
        <5>5. UNCHANGED <<key, code, enrol, memKey, cli, halfway>> /\ client' = client
          BY <5>1 DEF Admit, disk, daemon, opca
        <5>6. QED
          BY <4>2, <5>3, <5>4, <5>5 DEF RevokedInv, KeysPast
      <4>5. CASE BrokerSteps
        BY <2>2, <3>2, <4>5, BrokerKeepsRevoked
      <4>6. QED
        BY <2>2, <3>2, <4>3, <4>4, <4>5 DEF Step, Works, OpcaSteps, BrokerSteps
    <3>3. QED
      BY <3>1, <3>2
  <2>3. QED
    BY <2>1, <2>2 DEF Next
<1>3. RevokedInv => ToldStaysRevoked
  BY DEF RevokedInv, CodeSound, RevocationKept, ToldStaysRevoked, Told
<1>4. QED
  BY <1>1, <1>2, <1>3, TypedAlways, PTL DEF Spec

=============================================================================
