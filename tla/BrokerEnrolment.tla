-------------------------- MODULE BrokerEnrolment --------------------------
(***************************************************************************)
(* A broker's enrolment: the daemon and command line of                    *)
(* crates/opca-acme-broker (enrolment.rs, enrolled.rs, broker.rs, cli.rs,  *)
(* backup.rs, acme/listener.rs) and opCA's client for it                   *)
(* (services/acme_broker, services/ca/subordinate.rs).                     *)
(*                                                                         *)
(* A call that changes the broker is a message: it may be lost, its answer *)
(* may be lost, and the client may give up on one the daemon still works   *)
(* on.  A call that only reads is one step with what opCA does next.       *)
(* What the daemon does under the state lock is one step.  The command     *)
(* line's reopen is several, with the lock held, and may end in between.   *)
(* A certificate is its serial, key and domains.                           *)
(***************************************************************************)
EXTENDS Integers, FiniteSets

CONSTANTS
    Domain,     \* lists of permitted domains
    Configured, \* what broker.toml may say, None for no domains
    None, Lost, \* no value; a call that got no usable answer
    Attempts,   \* wrong codes that a pairing code survives
    MaxKey, MaxCode, MaxSerial, MaxRow, MaxFault, \* bounds
    Restores    \* whether the console takes and restores backups

ASSUME BoundAssumption ==
    /\ {MaxKey, MaxCode, MaxSerial, MaxRow} \subseteq Nat \ {0}
    /\ Attempts \in Nat /\ MaxFault \in Nat

VARIABLES
    key,        \* subordinate.key, by generation
    code,       \* pairing-code: its generation and the attempts left
    enrol,      \* enrolment.json
    conf,       \* domains in broker.toml
    backup,     \* the enrolment in a capture, while one is kept
    up,         \* whether the daemon runs
    memKey,     \* Broker::subordinate
    mem,        \* Broker::mode, None while enrolling
    acme,       \* the ACME listener: serving, its issuer, paused
    cli,        \* the step `enrol --reopen` is at
    halfway,    \* a reopen has ended half way
    net,        \* requests on their way or being worked on
    reply,      \* what the client's call came to
    client,     \* the operation opCA is in
    db, saved,  \* broker rows in opCA's memory and in the vault
    serial,     \* serials used
    approved,   \* domains the operator agreed to
    told,       \* keys whose broker answered a revoke
    faults      \* failures so far

disk == <<key, code, enrol, conf, backup>>
daemon == <<up, memKey, mem, acme>>
opca == <<client, db, saved, serial, approved, told>>
vars == <<disk, daemon, cli, halfway, net, reply, opca, faults>>

Serial == 1..MaxSerial
Key == 1..MaxKey
Row == 1..MaxRow
Cert == [serial : Serial, key : Key, dom : Domain]
Enrolled == [cert : Cert, revoked : BOOLEAN, paused : BOOLEAN, issuers : SUBSET Serial]
Broker == [cert : Cert, state : {"active", "revoked"}, contact : BOOLEAN]

ASSUME ValueAssumption ==
    /\ Configured \subseteq Domain \cup {None} /\ Lost # None
    /\ None \notin Domain /\ None \notin Cert /\ None \notin Enrolled /\ None \notin Broker

Off == [on |-> FALSE, issuer |-> None, paused |-> FALSE]
Idle == [pc |-> "idle"]

TypeOK ==
    /\ key \in Key /\ memKey \in Key \cup {0}
    /\ code \in [n : 1..MaxCode, left : 0..Attempts]
    /\ {enrol, mem, backup} \subseteq Enrolled \cup {None}
    /\ conf \in Configured /\ up \in BOOLEAN /\ halfway \in BOOLEAN
    /\ acme.on \in BOOLEAN /\ acme.paused \in BOOLEAN /\ acme.issuer \in Cert \cup {None}
    /\ cli \in {"idle", "archived", "rekeyed", "signal"}
    /\ db \in [Row -> Broker \cup {None}] /\ saved \in [Row -> Broker \cup {None}]
    /\ serial \in 0..MaxSerial /\ approved \subseteq Domain /\ told \subseteq Key
    /\ Cardinality(net) <= 2 /\ faults \in 0..MaxFault

Init ==
    /\ key = 1 /\ code = [n |-> 1, left |-> Attempts]
    /\ enrol = None /\ conf \in Configured /\ backup = None
    /\ up = TRUE /\ memKey = 1 /\ mem = None /\ acme = Off
    /\ cli = "idle" /\ halfway = FALSE
    /\ net = {} /\ reply = None /\ client = Idle
    /\ db = [i \in Row |-> None] /\ saved = db
    /\ serial = 0 /\ approved = {} /\ told = {} /\ faults = 0

-----------------------------------------------------------------------------
(* The daemon *)

LockFree == cli \notin {"archived", "rekeyed"}

\* Mutant: a revoked broker's listener is left alone.
RefreshedIfAlive(e, k) ==
    IF e = None THEN {Off}
    ELSE IF e.revoked THEN {acme}
    ELSE (IF e.cert.key = k
          THEN {[on |-> TRUE, issuer |-> e.cert, paused |-> e.paused]} ELSE {})
         \cup {IF acme.on THEN [acme EXCEPT !.paused = e.paused] ELSE Off}

(* refresh_acme: off unless enrolled and not revoked; else it serves the  *)
(* chain, or fails to (no key for the chain, no certificate, no port) and *)
(* leaves the listener as it was, but for the pause                       *)
Refreshed(e, k) ==
    IF e = None \/ e.revoked THEN {Off}
    ELSE (IF e.cert.key = k
          THEN {[on |-> TRUE, issuer |-> e.cert, paused |-> e.paused]} ELSE {})
         \cup {IF acme.on THEN [acme EXCEPT !.paused = e.paused] ELSE Off}

\* Broker::store and what every caller does after it.
Store(e) ==
    /\ enrol' = e /\ mem' = e
    /\ acme' \in Refreshed(e, memKey)

\* The answer to m, which nobody waits for once the client gave up.
Answer(m, r) ==
    /\ net' = net \ {m}
    /\ reply' = IF m.live THEN r ELSE reply

\* An answer may be lost on its way, a refusal is as good as lost.
Answered(m, r) == Answer(m, r) \/ (m.live /\ Answer(m, Lost))

IssuerState(e) == IF e.revoked THEN "revoked" ELSE IF e.paused THEN "paused" ELSE "issuing"

(* GET /v1/enrolment, GET /v1/status and POST /v1/csr read the daemon's   *)
(* memory, and answer nothing else once enrolled, not enrolled, revoked   *)
Offer == IF up /\ mem = None THEN [key |-> memKey, conf |-> conf] ELSE Lost
Status == IF up /\ mem # None THEN [state |-> IssuerState(mem)] ELSE Lost
FreshCsr == IF up /\ mem # None /\ ~mem.revoked THEN [key |-> memKey, conf |-> conf] ELSE Lost

\* check_chain and check_config.
Checks(c) == c.key = memKey /\ (conf = None \/ c.dom = conf)

(* what is decided before the state lock is waited for: admits, or, while *)
(* enrolling, check                                                       *)
Admit(m) ==
    /\ up /\ ~m.admitted
    /\ IF (m.op = "enrol" /\ mem = None /\ Checks(m.cert)) \/ (m.op # "enrol" /\ mem # None)
       THEN net' = (net \ {m}) \cup {[m EXCEPT !.admitted = TRUE]} /\ UNCHANGED reply
       ELSE Answer(m, Lost)
    /\ UNCHANGED <<disk, daemon, cli, halfway, opca>>

Locked(m, op) == up /\ LockFree /\ m.op = op /\ m.admitted

(* OneTimeCode::redeem: accepted once, and spent by too many wrong ones *)
Redeem(m) ==
    /\ code.n = m.code /\ code.left > 0
    /\ code' = [code EXCEPT !.left = 0]

(* redeem_and_store: the code is redeemed, then the staged file promoted *)
Enrol(m) ==
    /\ Locked(m, "enrol")
    /\ Redeem(m)
    /\ Store([cert |-> m.cert, revoked |-> FALSE, paused |-> FALSE, issuers |-> {m.cert.serial}])
    /\ Answered(m, [state |-> "issuing"])
    /\ UNCHANGED <<key, conf, backup, up, memKey, cli, halfway, opca>>

\* A wrong code costs an attempt, while there are any.
AttemptsLeft(n) == IF n > 0 THEN n - 1 ELSE 0

EnrolRefused(m) ==
    /\ Locked(m, "enrol")
    /\ ~(code.n = m.code /\ code.left > 0)
    /\ code' = [code EXCEPT !.left = AttemptsLeft(@)]
    /\ Answer(m, Lost)
    /\ UNCHANGED <<key, enrol, conf, backup, daemon, cli, halfway, opca>>

\* Mutant: the change starts from the daemon's memory.
OnMemory == mem

\* Broker::enrolled: from disk, not memory.
OnDisk == enrol

(* store_chain, store_revocation and store_pause *)
UpdateChain(m) ==
    LET e == OnDisk IN
    /\ Locked(m, "chain")
    /\ IF e # None /\ ~e.revoked /\ Checks(m.cert)
       THEN /\ Store([e EXCEPT !.cert = m.cert, !.issuers = @ \cup {m.cert.serial}])
            /\ Answered(m, [state |-> IssuerState(e)])
       ELSE Answer(m, Lost) /\ UNCHANGED <<enrol, mem, acme>>
    /\ UNCHANGED <<key, code, conf, backup, up, memKey, cli, halfway, opca>>

Revoke(m) ==
    LET e == OnDisk IN
    /\ Locked(m, "revoke")
    /\ IF e # None
       THEN /\ IF e.revoked THEN UNCHANGED <<enrol, mem, acme>> ELSE Store([e EXCEPT !.revoked = TRUE])
            /\ Answered(m, [state |-> "revoked", key |-> e.cert.key])
       ELSE Answer(m, Lost) /\ UNCHANGED <<enrol, mem, acme>>
    /\ UNCHANGED <<key, code, conf, backup, up, memKey, cli, halfway, opca>>

Pause(m) ==
    LET e == OnDisk IN
    /\ Locked(m, "pause")
    /\ IF e # None /\ ~e.revoked
       THEN /\ IF e.paused = m.paused THEN UNCHANGED <<enrol, mem, acme>>
               ELSE Store([e EXCEPT !.paused = m.paused])
            /\ Answered(m, [state |-> IssuerState([e EXCEPT !.paused = m.paused])])
       ELSE Answer(m, Lost) /\ UNCHANGED <<enrol, mem, acme>>
    /\ UNCHANGED <<key, code, conf, backup, up, memKey, cli, halfway, opca>>

(* serve_acme's hourly refresh, ten seconds after one that failed *)
KeepServing ==
    /\ up /\ LockFree
    /\ acme' \in Refreshed(mem, memKey)
    /\ UNCHANGED <<disk, up, memKey, mem, cli, halfway, net, reply, opca>>

\* reload_locked: the subordinate and the mode from disk, and the listener with them.
ReloadLocked(e) ==
    /\ memKey' = key /\ mem' = e
    /\ acme' \in Refreshed(e, key)

(* start, with whatever broker.toml says by then *)
Start ==
    /\ ~up
    /\ up' = TRUE /\ memKey' = key /\ mem' = enrol /\ acme' = Off
    /\ conf' \in Configured
    /\ UNCHANGED <<key, code, enrol, backup, cli, halfway, net, reply, opca>>

(* the daemon ends; redeem_and_store may have spent the code by then and  *)
(* not have promoted the enrolment                                        *)
Crash ==
    /\ up
    /\ up' = FALSE /\ memKey' = 0 /\ mem' = None /\ acme' = Off
    /\ \/ UNCHANGED code
       \/ \E m \in net : Locked(m, "enrol") /\ Redeem(m)
    /\ net' = {}
    /\ reply' = IF \E m \in net : m.live THEN Lost ELSE reply
    /\ UNCHANGED <<key, enrol, conf, backup, cli, halfway, opca>>

-----------------------------------------------------------------------------
(* The broker's command line, and the console's backups *)

NewCode == code.n < MaxCode /\ code' = [n |-> code.n + 1, left |-> Attempts]

Pairing ==
    /\ cli = "idle" /\ enrol = None
    /\ NewCode
    /\ UNCHANGED <<key, enrol, conf, backup, daemon, cli, halfway, net, reply, opca>>

(* reopen: archive the enrolment, replace the key, issue a code, tell the *)
(* daemon; it may end after each                                          *)
ReopenArchive ==
    /\ cli = "idle" /\ key < MaxKey /\ code.n < MaxCode
    /\ enrol' = None /\ cli' = "archived"
    /\ UNCHANGED <<key, code, conf, backup, daemon, halfway, net, reply, opca>>

ReopenKey ==
    /\ cli = "archived"
    /\ key' = key + 1 /\ cli' = "rekeyed"
    /\ UNCHANGED <<code, enrol, conf, backup, daemon, halfway, net, reply, opca>>

ReopenCode ==
    /\ cli = "rekeyed"
    /\ NewCode /\ cli' = "signal"
    /\ UNCHANGED <<key, enrol, conf, backup, daemon, halfway, net, reply, opca>>

ReopenEnds ==
    /\ cli # "idle"
    /\ halfway' = (halfway \/ ~LockFree)
    /\ cli' = "idle"
    /\ UNCHANGED <<disk, daemon, net, reply, opca>>

Reload ==
    /\ cli = "signal" /\ cli' = "idle"
    /\ IF up THEN ReloadLocked(enrol) ELSE UNCHANGED <<memKey, mem, acme>>
    /\ UNCHANGED <<disk, up, halfway, net, reply, opca>>

Capture ==
    /\ Restores /\ LockFree /\ backup = None /\ enrol # None
    /\ backup' = enrol
    /\ UNCHANGED <<key, code, enrol, conf, daemon, cli, halfway, net, reply, opca>>

\* Mutant: a revocation since the backup does not block it.
RestorableAnyState(b) == b.cert.key = memKey

\* enrolment_to_restore: for the key held, and not undoing a revocation.
Restorable(b) ==
    /\ b.cert.key = memKey
    /\ ~(enrol # None /\ enrol.revoked /\ ~b.revoked)

Restore ==
    /\ Restores /\ up /\ LockFree /\ backup # None
    /\ Restorable(backup)
    /\ enrol' = backup
    /\ ReloadLocked(backup)
    /\ UNCHANGED <<key, code, conf, backup, up, cli, halfway, net, reply, opca>>

-----------------------------------------------------------------------------
(* opCA *)

Active(rows) == {i \in Row : rows[i] # None /\ rows[i].state = "active"}

Send(m, to) ==
    /\ Cardinality(net) < 2
    /\ net' = net \cup {m} /\ reply' = None /\ client' = to
Request(op, c, n, p) ==
    [op |-> op, cert |-> c, code |-> n, paused |-> p, live |-> TRUE, admitted |-> FALSE]

At(l) == client.pc = l
Done == client' = Idle /\ reply' = None
broker == <<disk, daemon, cli, halfway>>

\* store_ca_database, which may fail; the change stays in memory then.
Save(rows) == db' = rows /\ saved' \in {rows, saved}
Stored == saved' = db'

\* reported: contacted, and the issuer state, which only the list shows.
Reported(rows, i) == [rows EXCEPT ![i].contact = TRUE]

FetchOffer ==
    /\ At("idle") /\ Offer # Lost
    /\ client' = [pc |-> "review", shown |-> Offer]
    /\ UNCHANGED <<broker, net, reply, db, saved, serial, approved, told>>

\* Mutant: the offer is not compared with the one shown.
AnyOffer == At("review") /\ Offer # Lost
\* The offer is fetched again and must not have changed.
SameOffer == At("review") /\ Offer = client.shown

\* Mutant: what is signed and not delivered is signed again.
UndeliveredNone == {}
\* undelivered: the active row of this broker's API key.
Undelivered == Active(db)

(* enrol_broker, once the operator has seen the offer: with his domains if *)
(* the broker has none, what was signed before is sent again              *)
Resend ==
    /\ SameOffer
    /\ \E i \in Undelivered, n \in 1..code.n, d \in Domain :
          /\ client.shown.conf \in {None, d}
          /\ approved' = approved \cup {d}
          /\ IF ~db[i].contact /\ db[i].cert.key = Offer.key /\ db[i].cert.dom = d
             THEN Send(Request("enrol", db[i].cert, n, FALSE), [pc |-> "enrol", id |-> i])
             ELSE Done /\ UNCHANGED net
    /\ UNCHANGED <<broker, db, saved, serial, told>>

(* sign_subordinate_at, then the broker is sent the chain, once stored *)
SignNew ==
    /\ SameOffer
    /\ Undelivered = {} /\ serial < MaxSerial
    /\ serial' = serial + 1
    /\ \E i \in Row, n \in 1..code.n, d \in Domain :
          LET c == [serial |-> serial + 1, key |-> Offer.key,
                    dom |-> IF Offer.conf = None THEN d ELSE Offer.conf] IN
          /\ client.shown.conf \in {None, d}
          /\ approved' = approved \cup {d}
          /\ db[i] = None /\ \A j \in Row : j < i => db[j] # None
          /\ Save([db EXCEPT ![i] = [cert |-> c, state |-> "active", contact |-> FALSE]])
          /\ IF Stored THEN Send(Request("enrol", c, n, FALSE), [pc |-> "enrol", id |-> i])
             ELSE Done /\ UNCHANGED net
    /\ UNCHANGED <<broker, told>>

(* the broker answered: enrolled, or its new chain, pause or revocation *)
Record ==
    /\ client.pc \notin {"idle", "review"} /\ reply \notin {None, Lost}
    /\ Save(Reported(db, client.id))
    /\ told' = IF At("revoke") THEN told \cup {reply.key} ELSE told
    /\ Done
    /\ UNCHANGED <<broker, net, serial, approved>>

(* the call failed, or the operator does not go on with what he was shown *)
GiveUp ==
    /\ At("review") \/ (client.pc # "idle" /\ reply = Lost)
    /\ IF At("chain") THEN Save(db) ELSE UNCHANGED <<db, saved>>
    /\ Done
    /\ UNCHANGED <<broker, net, serial, approved, told>>

BrokerStatus ==
    /\ At("idle") /\ Status # Lost
    /\ \E i \in Row : db[i] # None /\ Save(Reported(db, i))
    /\ UNCHANGED <<broker, net, reply, client, serial, approved, told>>

\* Mutant: a change of domains needs no confirmation.
NeverChanged(row) == FALSE
\* changed_domains
ChangedDomains(row) == FreshCsr.conf \notin {None, row.cert.dom}

(* renew_broker, in try_renew: nothing is signed for other domains that    *)
(* are not confirmed, or for a revoked row                                *)
RenewRefused ==
    /\ At("idle") /\ FreshCsr # Lost
    /\ \E i \in Row :
          /\ db[i] # None
          /\ ChangedDomains(db[i]) \/ db[i].state = "revoked"
          /\ Save(Reported(db, i))
    /\ UNCHANGED <<broker, net, reply, client, serial, approved, told>>

\* move_broker_to
MovedTo(rows, i, c) == [rows EXCEPT ![i].cert = c]

(* renew_subordinate: the row moves to the new serial, and the chain goes *)
(* to the broker once that is stored                                      *)
RenewSign ==
    /\ At("idle") /\ FreshCsr # Lost /\ serial < MaxSerial
    /\ serial' = serial + 1
    /\ \E i \in Active(db), change \in BOOLEAN :
          LET c == [serial |-> serial + 1, key |-> FreshCsr.key,
                    dom |-> IF FreshCsr.conf = None THEN db[i].cert.dom ELSE FreshCsr.conf] IN
          /\ ChangedDomains(db[i]) => change
          /\ approved' = IF change THEN approved \cup {c.dom} ELSE approved
          /\ Save(MovedTo(Reported(db, i), i, c))
          /\ IF Stored THEN Send(Request("chain", c, 0, FALSE), [pc |-> "chain", id |-> i])
             ELSE Done /\ UNCHANGED net
    /\ UNCHANGED <<broker, told>>

PauseBroker ==
    /\ At("idle")
    /\ \E i \in Row, p \in BOOLEAN :
          db[i] # None /\ Send(Request("pause", None, 0, p), [pc |-> "pause", id |-> i])
    /\ UNCHANGED <<broker, db, saved, serial, approved, told>>

(* revoke_broker: the row is revoked and stored first, and the broker told *)
(* again when it is already                                               *)
RevokeBroker ==
    /\ At("idle")
    /\ \E i \in Row :
          /\ db[i] # None
          /\ IF db[i].state = "active" THEN Save([db EXCEPT ![i].state = "revoked"])
             ELSE UNCHANGED <<db, saved>>
          /\ IF Stored \/ db[i].state = "revoked"
             THEN Send(Request("revoke", None, 0, FALSE), [pc |-> "revoke", id |-> i])
             ELSE UNCHANGED <<client, net, reply>>
    /\ UNCHANGED <<broker, serial, approved, told>>

(* CALL_TIMEOUT: the request may be lost, or be worked on later *)
Timeout ==
    /\ \E m \in net : m.live /\ net' \in {net \ {m}, (net \ {m}) \cup {[m EXCEPT !.live = FALSE]}}
    /\ reply' = Lost
    /\ UNCHANGED <<broker, opca>>

(* opCA is closed and opened again, in the middle of a call or between *)
Reopen ==
    /\ (db # saved \/ client # Idle)
    /\ db' = saved /\ client' = Idle /\ reply' = None
    /\ net' = {[m EXCEPT !.live = FALSE] : m \in net}
    /\ UNCHANGED <<disk, daemon, cli, halfway, saved, serial, approved, told>>

\* The page's POST pairing: as on the command line, in the daemon.
NewPairing == up /\ Pairing

\* The console's hooks, one at a time.
Hooks == Capture \/ Restore

(* The commands of opCA, each up to its call and from the answer on: the   *)
(* offer is shown first, and what the operator agrees to is signed and sent *)
HandleEnrol == FetchOffer \/ Resend \/ SignNew
HandleStatus == BrokerStatus
HandlePause == PauseBroker
HandleRenew == RenewRefused \/ RenewSign
HandleRevoke == RevokeBroker

Step ==
    \/ \E m \in net : \/ Admit(m)
                      \/ Enrol(m) \/ EnrolRefused(m) \/ UpdateChain(m) \/ Revoke(m) \/ Pause(m)
    \/ KeepServing \/ Start \/ Crash \/ Reload
    \/ Pairing \/ NewPairing \/ ReopenArchive \/ ReopenKey \/ ReopenCode \/ ReopenEnds
    \/ Hooks
    \/ HandleEnrol \/ HandleStatus \/ HandlePause \/ HandleRenew \/ HandleRevoke
    \/ Record \/ GiveUp \/ Timeout \/ Reopen

(* what counts as a failure: a call without its answer, a store that fails, *)
(* a refresh that fails, and a process that ends at its work               *)
Faulty ==
    \/ reply' = Lost /\ reply # Lost
    \/ saved' # db' /\ <<db, saved>>' # <<db, saved>>
    \/ acme' # acme /\ mem' # None /\ acme'.issuer # mem'.cert
    \/ up /\ ~up'
    \/ ~LockFree /\ cli' = "idle"
    \/ cli = "signal" /\ cli' = "idle" /\ up /\ mem' # enrol
    \/ client # Idle /\ client' = Idle /\ net' # net

Next ==
    /\ Step
    /\ faults' = IF Faulty THEN faults + 1 ELSE faults
    /\ faults' <= MaxFault

Spec == Init /\ [][Next]_vars

-----------------------------------------------------------------------------
(* Properties *)

(* opCA has at most one active subordinate for a broker, however often an *)
(* enrolment is cut off, retried or reopened (enrol.rs, undelivered).     *)
OneActiveSubordinate == Cardinality(Active(db)) <= 1 /\ Cardinality(Active(saved)) <= 1

(* A broker whose key opCA was told is revoked never takes its enrolment  *)
(* up again: no late call, restart or restore undoes it (enrolled.rs,     *)
(* store_revocation; backup.rs, enrolment_to_restore).  A reopen that     *)
(* ended between archiving the enrolment and deleting the key is left out: *)
(* it leaves the key without the revocation.                              *)
ToldStaysRevoked ==
    key \in told /\ enrol # None /\ ~halfway => enrol.revoked \/ enrol.cert.key # key

(* A reopen is not undone by a daemon that has yet to reload: an enrolment *)
(* comes back only by a pairing code that is spent on it or by a restore  *)
(* (enrolled.rs, enrolled).                                               *)
ReopenNotUndone ==
    [][enrol = None /\ enrol' # None => (code.left > 0 /\ code'.left = 0) \/ enrol' = backup]_vars

(* No broker is ever signed, or holds a chain, for domains the operator   *)
(* did not see and agree to, although broker.toml changes under him       *)
(* (enrol.rs, enrol_broker; renew.rs, try_renew).                         *)
OnlyApprovedDomains ==
    /\ \A i \in Row : db[i] # None => db[i].cert.dom \in approved
    /\ enrol # None => enrol.cert.dom \in approved

(* The listener issues only under an enrolment that is neither revoked nor *)
(* gone, and with its pause, although chains, pauses, reopens and restores *)
(* come in any order and a refresh may fail (listener.rs, refresh_acme).  *)
ServesAsEnrolled == acme.on => mem # None /\ ~mem.revoked /\ acme.paused = mem.paused

=============================================================================
