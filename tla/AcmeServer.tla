---------------------------- MODULE AcmeServer ----------------------------
(***************************************************************************)
(* The ACME server of crates/opca-acme-broker/src/acme: orders, their      *)
(* authorisations and challenges in acme.db (store.rs), the requests that  *)
(* work on them and the background validations (server.rs).                *)
(*                                                                         *)
(* A transaction of the store is one step, and so is a plain read.  A      *)
(* request is several of them, in between which other requests, finished   *)
(* validations and the end of the process come.  `late` holds the orders   *)
(* whose `expires` has passed; an order and its authorisations share it.   *)
(*                                                                         *)
(* A request that is refused before it reads or changes a row (signature,  *)
(* nonce, ownership, payload) is left out: it leaves everything as it was. *)
(***************************************************************************)
EXTENDS Naturals, FiniteSets

CONSTANTS
    Order, Authz, Chal, \* ids of the three tables
    OrderOf,            \* by authorisation: authorisations.order_id
    AuthzOf,            \* by challenge: challenges.authorisation
    Req,                \* requests being handled at once
    MaxRestart          \* bound: restarts of the process

ASSUME TableAssumption ==
    /\ OrderOf \in [Authz -> Order]
    /\ AuthzOf \in [Chal -> Authz]
    /\ \A o \in Order : \E z \in Authz : OrderOf[z] = o
ASSUME RestartAssumption == MaxRestart \in Nat

VARIABLES
    account,    \* accounts.status
    order,      \* orders.status, "none" before the row is made
    authz,      \* authorisations.status
    chal,       \* challenges.status
    certs,      \* orders that a certificate is recorded for
    late,       \* orders whose time is up
    req,        \* by request: where it is, and what it works on
    tasks,      \* by challenge: validations running in the background
    resumed,    \* whether resume's task is yet to be started, to read, or done
    restarts    \* restarts so far

vars == <<account, order, authz, chal, certs, late, req, tasks, resumed, restarts>>

NoRow == "none"
OrderStatus == {"pending", "ready", "processing", "valid", "invalid"}
AuthzStatus == {"pending", "valid", "invalid", "deactivated", "expired", "revoked"}
ChalStatus == {"pending", "processing", "valid", "invalid"}

Idle == [pc |-> "idle"]

\* Where a request is: on an order, an authorisation or a challenge, or on its account.
Request ==
    {Idle}
    \cup [pc : {"finalise", "readOrder", "signing"}, on : Order]
    \cup [pc : {"deactivate", "withdraw"}, on : Authz]
    \cup [pc : {"challenge", "checkAuthz", "decide", "process", "spawn"}, on : Chal]
    \cup [pc : {"newOrder", "account", "show"}]

TypeOK ==
    /\ account \in {"valid", "deactivated"}
    /\ order \in [Order -> OrderStatus \cup {NoRow}]
    /\ authz \in [Authz -> AuthzStatus \cup {NoRow}]
    /\ chal \in [Chal -> ChalStatus \cup {NoRow}]
    /\ certs \subseteq Order /\ late \subseteq Order
    /\ req \in [Req -> Request]
    /\ tasks \in [Chal -> Nat]
    /\ resumed \in {"no", "started", "done"}
    /\ restarts \in 0..MaxRestart

-----------------------------------------------------------------------------
(* store.rs *)

\* Lifecycle::may_become of the three tables.
OrderMayBecome(from, to) ==
    <<from, to>> \in ({"pending"} \X {"ready", "invalid"})
                      \cup ({"ready"} \X {"processing", "invalid"})
                      \cup ({"processing"} \X {"valid", "invalid"})

AuthzMayBecome(from, to) ==
    <<from, to>> \in ({"pending"} \X {"valid", "invalid", "deactivated", "expired"})
                      \cup ({"valid"} \X {"deactivated", "expired", "revoked"})

ChalMayBecome(from, to) ==
    <<from, to>> \in ({"pending"} \X {"processing"})
                      \cup ({"processing"} \X {"pending", "valid", "invalid"})

AuthzsOf(o) == {z \in Authz : OrderOf[z] = o}

\* FAIL_ORDERS: an open order with an authorisation that failed or is gone.
Failed(o, st, zs) ==
    /\ st[o] \in {"pending", "ready"}
    /\ \E z \in AuthzsOf(o) : zs[z] \notin {"pending", "valid"}

\* Mutant: an order that is ready already is not failed any more.
SettledPendingOnly(o, st, zs) ==
    IF st[o] = "pending" /\ Failed(o, st, zs) THEN "invalid"
    ELSE IF st[o] = "pending" /\ \A z \in AuthzsOf(o) : zs[z] = "valid" THEN "ready"
    ELSE st[o]

\* Mutant: one valid authorisation makes the order ready.
SettledByAny(o, st, zs) ==
    IF Failed(o, st, zs) THEN "invalid"
    ELSE IF st[o] = "pending" /\ \E z \in AuthzsOf(o) : zs[z] = "valid" THEN "ready"
    ELSE st[o]

\* settle_order_of: what the order becomes once its authorisations are zs.
Settled(o, st, zs) ==
    IF Failed(o, st, zs) THEN "invalid"
    ELSE IF st[o] = "pending" /\ \A z \in AuthzsOf(o) : zs[z] = "valid" THEN "ready"
    ELSE st[o]

\* Mutant: an order that is valid expires too.
ExpireAnyOrder ==
    LET zs == [z \in Authz |-> IF OrderOf[z] \in late /\ authz[z] \in {"pending", "valid"}
                               THEN "expired" ELSE authz[z]] IN
    /\ authz' = zs
    /\ order' = [o \in Order |-> IF o \in late \/ Failed(o, order, zs) THEN "invalid" ELSE order[o]]

\* expire_stale, one transaction.
ExpireStale ==
    LET zs == [z \in Authz |-> IF OrderOf[z] \in late /\ authz[z] \in {"pending", "valid"}
                               THEN "expired" ELSE authz[z]]
        st == [o \in Order |-> IF o \in late /\ order[o] \in {"pending", "ready"}
                               THEN "invalid" ELSE order[o]] IN
    /\ authz' = zs
    /\ order' = [o \in Order |-> IF Failed(o, st, zs) THEN "invalid" ELSE st[o]]

\* set_authorisation_status: refused unless the status may become `to`.
SetAuthorisationStatus(z, to) ==
    LET zs == [authz EXCEPT ![z] = to] IN
    IF AuthzMayBecome(authz[z], to)
    THEN /\ authz' = zs
         /\ order' = [order EXCEPT ![OrderOf[z]] = Settled(OrderOf[z], order, zs)]
    ELSE UNCHANGED <<authz, order>>

\* Mutant: the outcome is written over whatever the authorisation has become.
SetChallengeAlways(c, to) ==
    LET z == AuthzOf[c]
        zs == [authz EXCEPT ![z] = to] IN
    IF ChalMayBecome(chal[c], to)
    THEN /\ chal' = [chal EXCEPT ![c] = to]
         /\ authz' = zs
         /\ order' = [order EXCEPT ![OrderOf[z]] = Settled(OrderOf[z], order, zs)]
    ELSE UNCHANGED <<chal, authz, order>>

\* Mutant: a failed validation leaves its authorisation as it is.
SetChallengeValidOnly(c, to) ==
    LET z == AuthzOf[c]
        zs == [authz EXCEPT ![z] = IF @ = "pending" THEN "valid" ELSE @] IN
    IF ChalMayBecome(chal[c], to)
    THEN /\ chal' = [chal EXCEPT ![c] = to]
         /\ authz' = zs
         /\ order' = [order EXCEPT ![OrderOf[z]] = Settled(OrderOf[z], order, zs)]
    ELSE UNCHANGED <<chal, authz, order>>

\* set_challenge_status to valid or invalid: decides a pending authorisation.
SetChallengeStatus(c, to) ==
    LET z == AuthzOf[c]
        zs == [authz EXCEPT ![z] = IF @ = "pending" THEN to ELSE @] IN
    IF ChalMayBecome(chal[c], to)
    THEN /\ chal' = [chal EXCEPT ![c] = to]
         /\ authz' = zs
         /\ order' = [order EXCEPT ![OrderOf[z]] = Settled(OrderOf[z], order, zs)]
    ELSE UNCHANGED <<chal, authz, order>>

\* record_certificate: from ready through processing to valid, one row per order.
RecordCertificate(o) ==
    LET from == IF order[o] = "ready" THEN "processing" ELSE order[o] IN
    IF OrderMayBecome(from, "valid") /\ o \notin certs
    THEN /\ order' = [order EXCEPT ![o] = "valid"]
         /\ certs' = certs \cup {o}
    ELSE UNCHANGED <<order, certs>>

-----------------------------------------------------------------------------
(* server.rs *)

Init ==
    /\ account = "valid"
    /\ order = [o \in Order |-> NoRow]
    /\ authz = [z \in Authz |-> NoRow]
    /\ chal = [c \in Chal |-> NoRow]
    /\ certs = {} /\ late = {}
    /\ req = [r \in Req |-> Idle]
    /\ tasks = [c \in Chal |-> 0]
    /\ resumed = "no" /\ restarts = 0

store == <<account, order, authz, chal, certs>>
process == <<tasks, resumed, restarts>>

At(r, l) == req[r].pc = l
Goto(r, l) == req' = [req EXCEPT ![r] = [pc |-> l]]
GotoOn(r, l, x) == req' = [req EXCEPT ![r] = [pc |-> l, on |-> x]]
Done(r) == req' = [req EXCEPT ![r] = Idle]

(* a request of the account comes in: its signature, its nonce and its     *)
(* account's status have been checked, before anything else is read        *)
Accept(r) ==
    /\ At(r, "idle")
    /\ resumed # "no"
    /\ account = "valid"
    /\ \/ Goto(r, "newOrder") \/ Goto(r, "account") \/ Goto(r, "show")
       \/ \E o \in Order : order[o] # NoRow /\ GotoOn(r, "finalise", o)
       \/ \E z \in Authz : authz[z] # NoRow /\ GotoOn(r, "deactivate", z)
       \/ \E c \in Chal : chal[c] # NoRow /\ GotoOn(r, "challenge", c)
    /\ UNCHANGED <<store, late, process>>

(* refused: issuance is paused, the CSR does not fit, a read fails *)
Refuse(r) ==
    /\ req[r].pc \notin {"idle", "spawn"}
    /\ Done(r)
    /\ UNCHANGED <<store, late, process>>

(* create_order: a pending order with its authorisations and challenges *)
CreateOrder(r) ==
    /\ At(r, "newOrder")
    /\ \E o \in Order :
          /\ order[o] = NoRow
          /\ order' = [order EXCEPT ![o] = "pending"]
          /\ authz' = [z \in Authz |-> IF OrderOf[z] = o THEN "pending" ELSE authz[z]]
          /\ chal' = [c \in Chal |-> IF OrderOf[AuthzOf[c]] = o THEN "pending" ELSE chal[c]]
    /\ Done(r)
    /\ UNCHANGED <<account, certs, late, process>>

(* set_account_status, which another request may have done before *)
DeactivateAccount(r) ==
    /\ At(r, "account")
    /\ account' = "deactivated"
    /\ Done(r)
    /\ UNCHANGED <<order, authz, chal, certs, late, process>>

(* order_of and authorisation_of expire what is stale before they read *)
Expire(r) ==
    /\ ExpireStale
    /\ \/ At(r, "finalise") /\ GotoOn(r, "readOrder", req[r].on)
       \/ At(r, "deactivate") /\ GotoOn(r, "withdraw", req[r].on)
       \/ At(r, "checkAuthz") /\ GotoOn(r, "decide", req[r].on)
       \/ At(r, "show") /\ Done(r)
    /\ UNCHANGED <<account, chal, certs, late, process>>

(* finalise: the order was ready when it was read *)
ReadOrder(r) ==
    /\ At(r, "readOrder")
    /\ IF order[req[r].on] = "ready" THEN GotoOn(r, "signing", req[r].on) ELSE Done(r)
    /\ UNCHANGED <<store, late, process>>

(* finalise: the leaf is signed, then recorded; if it cannot be, it is dropped *)
Finalise(r) ==
    /\ At(r, "signing")
    /\ RecordCertificate(req[r].on)
    /\ IF certs' # certs THEN Goto(r, "show") ELSE Done(r)
    /\ UNCHANGED <<account, authz, chal, late, process>>

Withdraw(r) ==
    /\ At(r, "withdraw")
    /\ SetAuthorisationStatus(req[r].on, "deactivated")
    /\ IF authz' # authz THEN Goto(r, "show") ELSE Done(r)
    /\ UNCHANGED <<account, chal, certs, late, process>>

(* challenge: the row is read, and its authorisation after it *)
ReadChallenge(r) ==
    /\ At(r, "challenge")
    /\ IF chal[req[r].on] = "pending"
       THEN GotoOn(r, "checkAuthz", req[r].on)
       ELSE Goto(r, "show")
    /\ UNCHANGED <<store, late, process>>

Decide(r) ==
    /\ At(r, "decide")
    /\ IF authz[AuthzOf[req[r].on]] = "pending"
       THEN GotoOn(r, "process", req[r].on)
       ELSE Done(r)
    /\ UNCHANGED <<store, late, process>>

(* challenge: set_challenge_status, refused when another request was first *)
StartProcessing(r) ==
    LET c == req[r].on IN
    /\ At(r, "process")
    /\ IF ChalMayBecome(chal[c], "processing")
       THEN chal' = [chal EXCEPT ![c] = "processing"] /\ GotoOn(r, "spawn", c)
       ELSE UNCHANGED chal /\ Done(r)
    /\ UNCHANGED <<account, order, authz, certs, late, process>>

(* challenge: validate_in_background *)
Spawn(r) ==
    /\ At(r, "spawn")
    /\ tasks' = [tasks EXCEPT ![req[r].on] = @ + 1]
    /\ Done(r)
    /\ UNCHANGED <<store, late, resumed, restarts>>

(* a validation ends and its outcome is recorded, unless one was before *)
Validated(c) ==
    /\ tasks[c] > 0
    /\ tasks' = [tasks EXCEPT ![c] = @ - 1]
    /\ \E to \in {"valid", "invalid"} : SetChallengeStatus(c, to)
    /\ UNCHANGED <<account, certs, late, req, resumed, restarts>>

(* resume: the listener starts a task, which reads what is processing later *)
ResumeStart ==
    /\ resumed = "no"
    /\ resumed' = "started"
    /\ UNCHANGED <<store, late, req, tasks, restarts>>

\* Mutant: challenges that a restart left processing are not validated again.
ResumeNothing ==
    /\ resumed = "started"
    /\ resumed' = "done"
    /\ UNCHANGED <<store, late, req, tasks, restarts>>

ResumeRead ==
    /\ resumed = "started"
    /\ resumed' = "done"
    /\ tasks' = [c \in Chal |-> IF chal[c] = "processing" THEN tasks[c] + 1 ELSE tasks[c]]
    /\ UNCHANGED <<store, late, req, restarts>>

(* the process ends and is started again; only the database stays *)
Restart ==
    /\ restarts < MaxRestart
    /\ restarts' = restarts + 1
    /\ req' = [r \in Req |-> Idle]
    /\ tasks' = [c \in Chal |-> 0]
    /\ resumed' = "no"
    /\ UNCHANGED <<store, late>>

TimeUp(o) ==
    /\ order[o] # NoRow
    /\ late' = late \cup {o}
    /\ UNCHANGED <<store, req, process>>

Proceed(r) ==
    \/ CreateOrder(r) \/ DeactivateAccount(r) \/ Expire(r)
    \/ ReadOrder(r) \/ Finalise(r) \/ Withdraw(r)
    \/ ReadChallenge(r) \/ Decide(r) \/ StartProcessing(r) \/ Spawn(r)

Next ==
    \/ \E r \in Req : Accept(r) \/ Refuse(r) \/ Proceed(r)
    \/ \E c \in Chal : Validated(c)
    \/ ResumeStart \/ ResumeRead \/ Restart
    \/ \E o \in Order : TimeUp(o)

Spec == Init /\ [][Next]_vars

\* The runtime polls every task; a validation ends within its time limit.
Fairness ==
    /\ \A r \in Req : WF_vars(Proceed(r))
    /\ \A c \in Chal : WF_vars(Validated(c))
    /\ WF_vars(ResumeStart) /\ WF_vars(ResumeRead)

FairSpec == Spec /\ Fairness

-----------------------------------------------------------------------------
(* Properties *)

(***************************************************************************)
(* An order follows its authorisations at every commit: a ready one has    *)
(* all of them valid, a pending one waits for one and has lost none        *)
(* (settle_order_of, FAIL_ORDERS).                                         *)
(***************************************************************************)
OrderSettled ==
    \A o \in Order :
        /\ order[o] = "ready" => \A z \in AuthzsOf(o) : authz[z] = "valid"
        /\ order[o] = "pending" => /\ \A z \in AuthzsOf(o) : authz[z] \in {"pending", "valid"}
                                   /\ \E z \in AuthzsOf(o) : authz[z] = "pending"

(***************************************************************************)
(* An authorisation is valid only if a challenge of it was validated, and  *)
(* invalid only if one failed, whichever validations ran beside it.        *)
(***************************************************************************)
AuthorisationEarned ==
    \A z \in Authz : authz[z] \in {"valid", "invalid"} =>
        \E c \in Chal : AuthzOf[c] = z /\ chal[c] = authz[z]

(***************************************************************************)
(* An order is valid exactly when a certificate is recorded for it, and    *)
(* neither expiry nor a second finalise takes that back.                   *)
(***************************************************************************)
ValidHasCertificate == \A o \in Order : order[o] = "valid" <=> o \in certs

(***************************************************************************)
(* A certificate is recorded only while every authorisation of its order   *)
(* is valid, although finalise read the order's status some steps before.  *)
(***************************************************************************)
IssueStep == \A o \in certs' \ certs : \A z \in AuthzsOf(o) : authz[z] = "valid"

IssuedWasAuthorised == [][IssueStep]_vars

(***************************************************************************)
(* "moving only as RFC 8555 7.1.6 draws it": the updates that do not go    *)
(* through `transition` (expiry, FAIL_ORDERS, settling, deciding) keep to  *)
(* may_become too; record_certificate passes processing in one commit.     *)
(***************************************************************************)
LifecycleStep ==
    /\ \A o \in Order : \/ order'[o] = order[o] \/ order[o] = NoRow
                        \/ OrderMayBecome(order[o], order'[o])
                        \/ order[o] = "ready" /\ order'[o] = "valid"
    /\ \A z \in Authz : \/ authz'[z] = authz[z] \/ authz[z] = NoRow
                        \/ AuthzMayBecome(authz[z], authz'[z])
    /\ \A c \in Chal : \/ chal'[c] = chal[c] \/ chal[c] = NoRow
                       \/ ChalMayBecome(chal[c], chal'[c])

LifecycleKept == [][LifecycleStep]_vars

(***************************************************************************)
(* A challenge that is being validated is decided in the end, a restart    *)
(* between its commit and its validation included (resume).                *)
(***************************************************************************)
ValidationEnds ==
    \A c \in Chal : chal[c] = "processing" ~> chal[c] \in {"valid", "invalid"}

\* What a client is told of an order, as OrderPromise names it.
PhaseOf(st) ==
    CASE st = NoRow -> "none" [] st = "pending" -> "open" [] st = "ready" -> "ready"
      [] st = "valid" -> "issued" [] OTHER -> "ended"

Promise == INSTANCE OrderPromise WITH
    Name <- Authz,
    phase <- [o \in Order |-> PhaseOf(order[o])],
    proven <- {z \in Authz : authz[z] = "valid"}

(***************************************************************************)
(* The server implements OrderPromise: under every interleaving of         *)
(* requests, validations, expiry and restarts an order is ready exactly    *)
(* from its last proof on, is issued only from there, and no outcome is    *)
(* taken back (settle_order_of, expire_stale, record_certificate).         *)
(***************************************************************************)
KeepsPromise == Promise!Spec

=============================================================================
