-------------------------- MODULE AcmeServerProofs --------------------------
(***************************************************************************)
(* Theorems about AcmeServer, for any tables, requests and restarts: the   *)
(* types, and that orders, authorisations, challenges and certificates     *)
(* agree at every commit; and that it implements OrderPromise.             *)
(***************************************************************************)
EXTENDS AcmeServer, TLAPS

-----------------------------------------------------------------------------
(* What a request works on *)

(* A request's row is of the table its place in the handler says. *)
LEMMA RequestOn ==
    ASSUME NEW q \in Request
    PROVE  /\ q.pc \in {"finalise", "readOrder", "signing"} => q.on \in Order
           /\ q.pc \in {"deactivate", "withdraw"} => q.on \in Authz
           /\ q.pc \in {"challenge", "checkAuthz", "decide", "process", "spawn"} => q.on \in Chal
  BY DEF Request, Idle

(* The places that the handlers go to are places of a request. *)
LEMMA RequestPlaces ==
    /\ Idle \in Request
    /\ \A l \in {"newOrder", "account", "show"} : [pc |-> l] \in Request
    /\ \A l \in {"finalise", "readOrder", "signing"} :
          \A o \in Order : [pc |-> l, on |-> o] \in Request
    /\ \A l \in {"deactivate", "withdraw"} : \A z \in Authz : [pc |-> l, on |-> z] \in Request
    /\ \A l \in {"challenge", "checkAuthz", "decide", "process", "spawn"} :
          \A c \in Chal : [pc |-> l, on |-> c] \in Request
  BY DEF Request, Idle

-----------------------------------------------------------------------------
(* Steps of the store *)

(* settle_order_of keeps or invalidates an order, or finds it ready. *)
LEMMA SettledCases ==
    ASSUME NEW o \in Order, NEW st, NEW zs
    PROVE  \/ Settled(o, st, zs) = st[o]
           \/ Settled(o, st, zs) = "invalid" /\ st[o] \in {"pending", "ready"}
           \/ /\ Settled(o, st, zs) = "ready" /\ st[o] = "pending"
              /\ \A z \in AuthzsOf(o) : zs[z] = "valid"
  BY DEF Settled, Failed

(* A commit of the store leaves well-typed rows. *)
LEMMA StoreSteps ==
    ASSUME TypeOK
    PROVE  /\ ExpireStale => order' \in [Order -> OrderStatus \cup {NoRow}]
                             /\ authz' \in [Authz -> AuthzStatus \cup {NoRow}]
           /\ \A z \in Authz : SetAuthorisationStatus(z, "deactivated") =>
                 /\ order' \in [Order -> OrderStatus \cup {NoRow}]
                 /\ authz' \in [Authz -> AuthzStatus \cup {NoRow}]
           /\ \A c \in Chal : \A to \in {"valid", "invalid"} : SetChallengeStatus(c, to) =>
                 /\ order' \in [Order -> OrderStatus \cup {NoRow}]
                 /\ authz' \in [Authz -> AuthzStatus \cup {NoRow}]
                 /\ chal' \in [Chal -> ChalStatus \cup {NoRow}]
           /\ \A o \in Order : RecordCertificate(o) =>
                 order' \in [Order -> OrderStatus \cup {NoRow}] /\ certs' \subseteq Order
<1>1. ASSUME ExpireStale
      PROVE  order' \in [Order -> OrderStatus \cup {NoRow}]
             /\ authz' \in [Authz -> AuthzStatus \cup {NoRow}]
  BY <1>1 DEF ExpireStale, TypeOK, OrderStatus, AuthzStatus
<1>2. ASSUME NEW z \in Authz, SetAuthorisationStatus(z, "deactivated")
      PROVE  /\ order' \in [Order -> OrderStatus \cup {NoRow}]
             /\ authz' \in [Authz -> AuthzStatus \cup {NoRow}]
  <2>1. OrderOf[z] \in Order
    BY TableAssumption
  <2>2. \A zs : Settled(OrderOf[z], order, zs) \in OrderStatus \cup {NoRow}
    BY <2>1, SettledCases DEF TypeOK, OrderStatus
  <2> QED
    BY <1>2, <2>1, <2>2 DEF SetAuthorisationStatus, TypeOK, AuthzStatus
<1>3. ASSUME NEW c \in Chal, NEW to \in {"valid", "invalid"}, SetChallengeStatus(c, to)
      PROVE  /\ order' \in [Order -> OrderStatus \cup {NoRow}]
             /\ authz' \in [Authz -> AuthzStatus \cup {NoRow}]
             /\ chal' \in [Chal -> ChalStatus \cup {NoRow}]
  <2>1. AuthzOf[c] \in Authz /\ OrderOf[AuthzOf[c]] \in Order
    BY TableAssumption
  <2>2. \A zs : Settled(OrderOf[AuthzOf[c]], order, zs) \in OrderStatus \cup {NoRow}
    BY <2>1, SettledCases DEF TypeOK, OrderStatus
  <2> QED
    BY <1>3, <2>1, <2>2 DEF SetChallengeStatus, TypeOK, AuthzStatus, ChalStatus
<1>4. ASSUME NEW o \in Order, RecordCertificate(o)
      PROVE  order' \in [Order -> OrderStatus \cup {NoRow}] /\ certs' \subseteq Order
  BY <1>4 DEF RecordCertificate, TypeOK, OrderStatus
<1> QED
  BY <1>1, <1>2, <1>3, <1>4

-----------------------------------------------------------------------------
(* Types *)

(* A step of AcmeServer keeps the types. *)
LEMMA TypeStep == TypeOK /\ [Next]_vars => TypeOK'
<1> SUFFICES ASSUME TypeOK, [Next]_vars PROVE TypeOK'
  OBVIOUS
<1> USE RequestPlaces
<1>r. ASSUME NEW r \in Req PROVE req[r] \in Request
  BY DEF TypeOK
<1>1. ASSUME NEW r \in Req, Accept(r) PROVE TypeOK'
  <2>1. req' \in [Req -> Request]
    BY <1>1, <1>r DEF Accept, TypeOK, Goto, GotoOn
  <2> QED
    BY <1>1, <2>1 DEF Accept, TypeOK, store, process
<1>2. ASSUME NEW r \in Req, Refuse(r) PROVE TypeOK'
  BY <1>2 DEF Refuse, Done, TypeOK, store, process
<1>3. ASSUME NEW r \in Req, CreateOrder(r) PROVE TypeOK'
  BY <1>3 DEF CreateOrder, Done, TypeOK, process, OrderStatus, AuthzStatus, ChalStatus
<1>4. ASSUME NEW r \in Req, DeactivateAccount(r) PROVE TypeOK'
  BY <1>4 DEF DeactivateAccount, Done, TypeOK, process
<1>5. ASSUME NEW r \in Req, Expire(r) PROVE TypeOK'
  <2>1. req' \in [Req -> Request]
    BY <1>5, <1>r, RequestOn DEF Expire, TypeOK, At, Done, GotoOn
  <2> QED
    BY <1>5, <2>1, StoreSteps DEF Expire, TypeOK, process
<1>6. ASSUME NEW r \in Req, ReadOrder(r) PROVE TypeOK'
  <2>1. req' \in [Req -> Request]
    BY <1>6, <1>r, RequestOn DEF ReadOrder, TypeOK, At, Done, GotoOn
  <2> QED
    BY <1>6, <2>1 DEF ReadOrder, TypeOK, store, process
<1>7. ASSUME NEW r \in Req, Finalise(r) PROVE TypeOK'
  <2>1. req[r].on \in Order
    BY <1>7, <1>r, RequestOn DEF Finalise, At
  <2> QED
    BY <1>7, <2>1, StoreSteps DEF Finalise, TypeOK, Goto, Done, process
<1>8. ASSUME NEW r \in Req, Withdraw(r) PROVE TypeOK'
  <2>1. req[r].on \in Authz
    BY <1>8, <1>r, RequestOn DEF Withdraw, At
  <2> QED
    BY <1>8, <2>1, StoreSteps DEF Withdraw, TypeOK, Goto, Done, process
<1>9. ASSUME NEW r \in Req, ReadChallenge(r) PROVE TypeOK'
  <2>1. req' \in [Req -> Request]
    BY <1>9, <1>r, RequestOn DEF ReadChallenge, TypeOK, At, Goto, GotoOn
  <2> QED
    BY <1>9, <2>1 DEF ReadChallenge, TypeOK, store, process
<1>10. ASSUME NEW r \in Req, Decide(r) PROVE TypeOK'
  <2>1. req' \in [Req -> Request]
    BY <1>10, <1>r, RequestOn DEF Decide, TypeOK, At, Done, GotoOn
  <2> QED
    BY <1>10, <2>1 DEF Decide, TypeOK, store, process
<1>11. ASSUME NEW r \in Req, StartProcessing(r) PROVE TypeOK'
  <2>1. req[r].on \in Chal
    BY <1>11, <1>r, RequestOn DEF StartProcessing, At
  <2> QED
    BY <1>11, <2>1 DEF StartProcessing, TypeOK, Done, GotoOn, process, ChalStatus
<1>12. ASSUME NEW r \in Req, Spawn(r) PROVE TypeOK'
  <2>1. req[r].on \in Chal
    BY <1>12, <1>r, RequestOn DEF Spawn, At
  <2> QED
    BY <1>12, <2>1 DEF Spawn, TypeOK, Done, store
<1>13. ASSUME NEW c \in Chal, Validated(c) PROVE TypeOK'
  <2>1. tasks' \in [Chal -> Nat]
    BY <1>13 DEF Validated, TypeOK
  <2> QED
    BY <1>13, <2>1, StoreSteps DEF Validated, TypeOK
<1>14. CASE ResumeStart
  BY <1>14 DEF ResumeStart, TypeOK, store
<1>15. CASE ResumeRead
  BY <1>15 DEF ResumeRead, TypeOK, store
<1>16. CASE Restart
  BY <1>16, RestartAssumption DEF Restart, TypeOK, store
<1>17. ASSUME NEW o \in Order, TimeUp(o) PROVE TypeOK'
  BY <1>17 DEF TimeUp, TypeOK, store, process
<1>18. CASE UNCHANGED vars
  BY <1>18 DEF vars, TypeOK
<1> QED
  BY <1>1, <1>2, <1>3, <1>4, <1>5, <1>6, <1>7, <1>8, <1>9, <1>10, <1>11, <1>12, <1>13, <1>14,
     <1>15, <1>16, <1>17, <1>18 DEF Next, Proceed

(* TypeOK holds throughout: requests always work on rows of the right      *)
(* table, and the raw updates of store.rs write only listed statuses.      *)
THEOREM AcmeTypeCorrect == Spec => []TypeOK
<1>1. Init => TypeOK
  BY RequestPlaces, RestartAssumption DEF Init, TypeOK
<1> QED
  BY <1>1, TypeStep, PTL DEF Spec

-----------------------------------------------------------------------------
(* Orders, authorisations, challenges and certificates agree *)

\* No commit leaves an order processing: record_certificate passes through it.
NoneProcessing == \A o \in Order : order[o] # "processing"

\* create_order makes an order's rows in one transaction, and none is ever deleted.
RowsTogether ==
    /\ \A z \in Authz : authz[z] = NoRow <=> order[OrderOf[z]] = NoRow
    /\ \A c \in Chal : chal[c] = NoRow <=> authz[AuthzOf[c]] = NoRow

Agreement ==
    OrderSettled /\ AuthorisationEarned /\ ValidHasCertificate /\ NoneProcessing /\ RowsTogether

rows == <<order, authz, chal, certs>>

(* expire_stale keeps the rows in agreement and moves them lawfully. *)
LEMMA ExpireAgrees ==
    ASSUME TypeOK, Agreement, ExpireStale, UNCHANGED <<chal, certs>>
    PROVE  Agreement' /\ LifecycleStep
<1> DEFINE zs == [z \in Authz |-> IF OrderOf[z] \in late /\ authz[z] \in {"pending", "valid"}
                                  THEN "expired" ELSE authz[z]]
           st == [o \in Order |-> IF o \in late /\ order[o] \in {"pending", "ready"}
                                  THEN "invalid" ELSE order[o]]
<1>1. authz' = zs /\ order' = [o \in Order |-> IF Failed(o, st, zs) THEN "invalid" ELSE st[o]]
  BY DEF ExpireStale
<1>2. \A z \in Authz : \/ authz'[z] = authz[z]
                       \/ authz'[z] = "expired" /\ authz[z] \in {"pending", "valid"}
  BY <1>1
<1>3. \A o \in Order : \/ order'[o] = order[o]
                       \/ order'[o] = "invalid" /\ order[o] \in {"pending", "ready"}
  BY <1>1 DEF Failed
<1>4. \A o \in Order : order'[o] \in {"pending", "ready"} =>
         order'[o] = order[o] /\ \A z \in AuthzsOf(o) : authz'[z] = authz[z]
  BY <1>1 DEF AuthzsOf
<1>5. OrderSettled'
  BY <1>4 DEF Agreement, OrderSettled, AuthzsOf
<1>6. AuthorisationEarned' /\ ValidHasCertificate' /\ NoneProcessing'
  BY <1>2, <1>3 DEF Agreement, AuthorisationEarned, ValidHasCertificate, NoneProcessing
<1>7. RowsTogether'
  BY <1>2, <1>3, TableAssumption DEF Agreement, RowsTogether, NoRow
<1>8. LifecycleStep
  BY <1>2, <1>3 DEF LifecycleStep, OrderMayBecome, AuthzMayBecome
<1> QED
  BY <1>5, <1>6, <1>7, <1>8 DEF Agreement

(* An authorisation is decided or withdrawn and its order is settled.      *)
LEMMA SettleAgrees ==
    ASSUME TypeOK, Agreement, NEW z \in Authz, NEW to \in {"valid", "invalid", "deactivated"},
           AuthzMayBecome(authz[z], to),
           to = "valid" => authz[z] = "pending",
           authz' = [authz EXCEPT ![z] = to],
           order' = [order EXCEPT ![OrderOf[z]] = Settled(OrderOf[z], order, authz')],
           certs' = certs
    PROVE  /\ OrderSettled' /\ ValidHasCertificate' /\ NoneProcessing'
           /\ \A o \in Order : \/ order'[o] = order[o]
                               \/ order[o] # NoRow /\ OrderMayBecome(order[o], order'[o])
           /\ authz[z] # NoRow
<1>1. OrderOf[z] \in Order /\ z \in AuthzsOf(OrderOf[z])
  BY TableAssumption DEF AuthzsOf
<1>2. \A y \in Authz \ {z} : authz'[y] = authz[y]
  BY DEF TypeOK
<1>3. authz'[z] = to /\ authz[z] \in {"pending", "valid"}
  BY DEF TypeOK, AuthzMayBecome
<1>4. \A o \in Order \ {OrderOf[z]} : order'[o] = order[o]
  BY DEF TypeOK
<1>5. order'[OrderOf[z]] = Settled(OrderOf[z], order, authz')
  BY <1>1 DEF TypeOK
<1>6. order[OrderOf[z]] = "ready" => Failed(OrderOf[z], order, authz')
  BY <1>1, <1>3 DEF Failed, Agreement, OrderSettled
<1>7. OrderSettled'
  <2>1. ASSUME NEW o \in Order, o # OrderOf[z]
        PROVE  \A y \in AuthzsOf(o) : y \in Authz /\ authz'[y] = authz[y]
    BY <2>1, <1>2 DEF AuthzsOf
  <2>2. /\ order'[OrderOf[z]] = "ready" => \A y \in AuthzsOf(OrderOf[z]) : authz'[y] = "valid"
        /\ order'[OrderOf[z]] = "pending" =>
              /\ \A y \in AuthzsOf(OrderOf[z]) : authz'[y] \in {"pending", "valid"}
              /\ \E y \in AuthzsOf(OrderOf[z]) : authz'[y] = "pending"
    BY <1>5, <1>6 DEF Settled, Failed
  <2> QED
    BY <2>1, <2>2, <1>4 DEF OrderSettled, Agreement, AuthzsOf
<1>8. \A o \in Order : \/ order'[o] = order[o]
                       \/ order'[o] = "invalid" /\ order[o] \in {"pending", "ready"}
                       \/ order'[o] = "ready" /\ order[o] = "pending"
  BY <1>1, <1>4, <1>5, SettledCases
<1>9. ValidHasCertificate' /\ NoneProcessing'
  BY <1>8 DEF ValidHasCertificate, NoneProcessing, Agreement
<1>10. \A o \in Order : \/ order'[o] = order[o]
                        \/ order[o] # NoRow /\ OrderMayBecome(order[o], order'[o])
  <2>1. /\ OrderMayBecome("pending", "ready") /\ OrderMayBecome("pending", "invalid")
        /\ OrderMayBecome("ready", "invalid")
    BY DEF OrderMayBecome
  <2> QED
    BY <1>8, <2>1 DEF NoRow
<1> QED
  BY <1>3, <1>7, <1>9, <1>10 DEF NoRow

(* Every step keeps the rows in agreement and moves them lawfully. *)
LEMMA AgreementStep ==
    TypeOK /\ Agreement /\ [Next]_vars => Agreement' /\ LifecycleStep /\ IssueStep
<1> SUFFICES ASSUME TypeOK, Agreement, [Next]_vars
             PROVE  Agreement' /\ LifecycleStep /\ IssueStep
  OBVIOUS
<1> DEFINE Goal == Agreement' /\ LifecycleStep /\ IssueStep
<1>r. ASSUME NEW r \in Req PROVE req[r] \in Request
  BY DEF TypeOK
<1>u. ASSUME UNCHANGED rows PROVE Goal
  BY <1>u DEF rows, Agreement, OrderSettled, AuthorisationEarned, ValidHasCertificate,
              NoneProcessing, RowsTogether, LifecycleStep, IssueStep
<1>1. ASSUME NEW r \in Req, CreateOrder(r) PROVE Goal
  <2>1. PICK o \in Order :
           /\ order[o] = NoRow
           /\ order' = [order EXCEPT ![o] = "pending"]
           /\ authz' = [z \in Authz |-> IF OrderOf[z] = o THEN "pending" ELSE authz[z]]
           /\ chal' = [c \in Chal |-> IF OrderOf[AuthzOf[c]] = o THEN "pending" ELSE chal[c]]
           /\ certs' = certs
    BY <1>1 DEF CreateOrder
  <2>2. order'[o] = "pending" /\ \A p \in Order \ {o} : order'[p] = order[p]
    BY <2>1 DEF TypeOK
  <2>3. OrderSettled'
    BY <2>1, <2>2, TableAssumption DEF Agreement, OrderSettled, AuthzsOf
  <2>4. AuthorisationEarned'
    BY <2>1, TableAssumption DEF Agreement, AuthorisationEarned
  <2>5. ValidHasCertificate' /\ NoneProcessing'
    BY <2>1, <2>2 DEF Agreement, ValidHasCertificate, NoneProcessing, NoRow
  <2>6. RowsTogether'
    BY <2>1, <2>2, TableAssumption DEF Agreement, RowsTogether, NoRow
  <2>7. LifecycleStep
    BY <2>1, <2>2, TableAssumption DEF Agreement, RowsTogether, LifecycleStep
  <2> QED
    BY <2>1, <2>3, <2>4, <2>5, <2>6, <2>7 DEF Agreement, IssueStep
<1>2. ASSUME NEW r \in Req, Expire(r) PROVE Goal
  <2>1. ExpireStale /\ UNCHANGED <<chal, certs>>
    BY <1>2 DEF Expire
  <2> QED
    BY <2>1, ExpireAgrees DEF IssueStep
<1>3. ASSUME NEW r \in Req, Finalise(r) PROVE Goal
  <2> DEFINE o == req[r].on
  <2>1. o \in Order /\ RecordCertificate(o) /\ UNCHANGED <<authz, chal>>
    BY <1>3, <1>r, RequestOn DEF Finalise, At
  <2>2. CASE order[o] = "ready" /\ o \notin certs
    <3>1. order' = [order EXCEPT ![o] = "valid"] /\ certs' = certs \cup {o}
      BY <2>1, <2>2 DEF RecordCertificate, OrderMayBecome
    <3>2. order'[o] = "valid" /\ \A p \in Order \ {o} : order'[p] = order[p]
      BY <2>1, <3>1 DEF TypeOK
    <3>3. OrderSettled' /\ AuthorisationEarned' /\ ValidHasCertificate' /\ NoneProcessing'
      BY <2>1, <3>1, <3>2 DEF Agreement, OrderSettled, AuthorisationEarned,
                              ValidHasCertificate, NoneProcessing
    <3>4. RowsTogether'
      BY <2>1, <2>2, <3>2, TableAssumption DEF Agreement, RowsTogether, NoRow
    <3>5. LifecycleStep
      BY <2>1, <2>2, <3>2 DEF LifecycleStep
    <3>6. IssueStep
      BY <2>1, <2>2, <3>1 DEF IssueStep, Agreement, OrderSettled
    <3> QED
      BY <3>3, <3>4, <3>5, <3>6 DEF Agreement
  <2>3. CASE ~(order[o] = "ready" /\ o \notin certs)
    <3>1. order[o] # "processing" /\ (order[o] = "ready" => o \notin certs)
      BY <2>1 DEF Agreement, NoneProcessing, ValidHasCertificate
    <3>2. ~OrderMayBecome(order[o], "valid")
      BY <3>1 DEF OrderMayBecome
    <3>3. UNCHANGED rows
      BY <2>1, <2>3, <3>1, <3>2 DEF RecordCertificate, rows
    <3> QED
      BY <3>3, <1>u
  <2> QED
    BY <2>2, <2>3
<1>4. ASSUME NEW r \in Req, Withdraw(r) PROVE Goal
  <2> DEFINE z == req[r].on
  <2>1. z \in Authz /\ SetAuthorisationStatus(z, "deactivated") /\ UNCHANGED <<chal, certs>>
    BY <1>4, <1>r, RequestOn DEF Withdraw, At
  <2>2. CASE AuthzMayBecome(authz[z], "deactivated")
    <3>1. /\ authz' = [authz EXCEPT ![z] = "deactivated"]
          /\ order' = [order EXCEPT ![OrderOf[z]] = Settled(OrderOf[z], order, authz')]
      BY <2>1, <2>2 DEF SetAuthorisationStatus
    <3>2. /\ OrderSettled' /\ ValidHasCertificate' /\ NoneProcessing'
          /\ \A o \in Order : \/ order'[o] = order[o]
                              \/ order[o] # NoRow /\ OrderMayBecome(order[o], order'[o])
          /\ authz[z] # NoRow
      BY <2>1, <2>2, <3>1, SettleAgrees
    <3>3. authz'[z] = "deactivated" /\ \A y \in Authz \ {z} : authz'[y] = authz[y]
      BY <2>1, <3>1 DEF TypeOK
    <3>4. AuthorisationEarned'
      BY <2>1, <3>3 DEF AuthorisationEarned, Agreement
    <3>5. \A o \in Order : order'[o] = NoRow <=> order[o] = NoRow
      BY <3>2 DEF OrderMayBecome, NoRow
    <3>6. RowsTogether'
      BY <2>1, <3>2, <3>3, <3>5, TableAssumption DEF RowsTogether, Agreement, NoRow
    <3>7. LifecycleStep
      BY <2>1, <2>2, <3>2, <3>3 DEF LifecycleStep
    <3> QED
      BY <2>1, <3>2, <3>4, <3>6, <3>7 DEF Agreement, IssueStep
  <2>3. CASE ~AuthzMayBecome(authz[z], "deactivated")
    BY <2>1, <2>3, <1>u DEF SetAuthorisationStatus, rows
  <2> QED
    BY <2>2, <2>3
<1>5. ASSUME NEW r \in Req, StartProcessing(r) PROVE Goal
  <2> DEFINE c == req[r].on
  <2>1. c \in Chal /\ UNCHANGED <<order, authz, certs>>
    BY <1>5, <1>r, RequestOn DEF StartProcessing, At
  <2>2. CASE ChalMayBecome(chal[c], "processing")
    <3>1. chal[c] = "pending"
      BY <2>2 DEF ChalMayBecome
    <3>2. chal'[c] = "processing" /\ \A d \in Chal \ {c} : chal'[d] = chal[d]
      BY <1>5, <2>1, <2>2 DEF StartProcessing, TypeOK
    <3>3. AuthorisationEarned'
      BY <2>1, <3>1, <3>2 DEF Agreement, AuthorisationEarned
    <3>4. OrderSettled' /\ ValidHasCertificate' /\ NoneProcessing'
      BY <2>1 DEF Agreement, OrderSettled, ValidHasCertificate, NoneProcessing
    <3>5. RowsTogether'
      BY <2>1, <3>1, <3>2 DEF Agreement, RowsTogether, NoRow
    <3>6. LifecycleStep
      BY <2>1, <2>2, <3>2 DEF LifecycleStep
    <3> QED
      BY <2>1, <3>3, <3>4, <3>5, <3>6 DEF Agreement, IssueStep
  <2>3. CASE ~ChalMayBecome(chal[c], "processing")
    BY <1>5, <2>1, <2>3, <1>u DEF StartProcessing, rows
  <2> QED
    BY <2>2, <2>3
<1>6. ASSUME NEW c \in Chal, Validated(c) PROVE Goal
  <2> DEFINE z == AuthzOf[c]
  <2>1. z \in Authz /\ certs' = certs
    BY <1>6, TableAssumption DEF Validated
  <2>2. PICK to \in {"valid", "invalid"} : SetChallengeStatus(c, to)
    BY <1>6 DEF Validated
  <2>3. CASE ~ChalMayBecome(chal[c], to)
    BY <2>1, <2>2, <2>3, <1>u DEF SetChallengeStatus, rows
  <2>4. CASE ChalMayBecome(chal[c], to)
    <3>1. chal[c] = "processing"
      BY <2>4 DEF ChalMayBecome
    <3>2. chal'[c] = to /\ \A d \in Chal \ {c} : chal'[d] = chal[d]
      BY <2>2, <2>4 DEF SetChallengeStatus, TypeOK
    <3>3. /\ authz' = [authz EXCEPT ![z] = IF authz[z] = "pending" THEN to ELSE authz[z]]
          /\ order' = [order EXCEPT ![OrderOf[z]] = Settled(OrderOf[z], order, authz')]
      BY <2>2, <2>4 DEF SetChallengeStatus
    <3>4. \A y \in Authz \ {z} : authz'[y] = authz[y]
      BY <3>3 DEF TypeOK
    <3>5. CASE authz[z] = "pending"
      <4>1. AuthzMayBecome(authz[z], to)
        BY <3>5 DEF AuthzMayBecome
      <4>2. authz' = [authz EXCEPT ![z] = to]
        BY <3>3, <3>5
      <4>3. /\ OrderSettled' /\ ValidHasCertificate' /\ NoneProcessing'
            /\ \A o \in Order : \/ order'[o] = order[o]
                                \/ order[o] # NoRow /\ OrderMayBecome(order[o], order'[o])
        BY <2>1, <3>3, <3>5, <4>1, <4>2, SettleAgrees
      <4>4. authz'[z] = to
        BY <2>1, <4>2 DEF TypeOK
      <4>5. AuthorisationEarned'
        BY <2>1, <3>1, <3>2, <3>4, <4>4 DEF AuthorisationEarned, Agreement
      <4>6. \A o \in Order : order'[o] = NoRow <=> order[o] = NoRow
        BY <4>3 DEF OrderMayBecome, NoRow
      <4>7. RowsTogether'
        BY <2>1, <3>1, <3>2, <3>4, <3>5, <4>4, <4>6, TableAssumption
           DEF RowsTogether, Agreement, NoRow
      <4>8. LifecycleStep
        BY <2>4, <3>2, <3>4, <4>1, <4>3, <4>4 DEF LifecycleStep
      <4> QED
        BY <2>1, <4>3, <4>5, <4>7, <4>8 DEF Agreement, IssueStep
    <3>6. CASE authz[z] # "pending"
      <4>1. authz' = authz
        BY <3>3, <3>6 DEF TypeOK
      <4>2. Settled(OrderOf[z], order, authz) = order[OrderOf[z]]
        BY <2>1, TableAssumption DEF Settled, Failed, Agreement, OrderSettled
      <4>3. order' = order
        BY <3>3, <4>1, <4>2 DEF TypeOK
      <4>4. AuthorisationEarned'
        BY <3>1, <3>2, <4>1 DEF AuthorisationEarned, Agreement
      <4>5. OrderSettled' /\ ValidHasCertificate' /\ NoneProcessing'
        BY <2>1, <4>1, <4>3 DEF Agreement, OrderSettled, ValidHasCertificate, NoneProcessing
      <4>6. RowsTogether'
        BY <3>1, <3>2, <4>1, <4>3 DEF Agreement, RowsTogether, NoRow
      <4>7. LifecycleStep
        BY <2>4, <3>2, <4>1, <4>3 DEF LifecycleStep
      <4> QED
        BY <2>1, <4>4, <4>5, <4>6, <4>7 DEF Agreement, IssueStep
    <3> QED
      BY <3>5, <3>6
  <2> QED
    BY <2>3, <2>4
<1>7. ASSUME NEW r \in Req,
             \/ Accept(r) \/ Refuse(r) \/ DeactivateAccount(r) \/ ReadOrder(r)
             \/ ReadChallenge(r) \/ Decide(r) \/ Spawn(r)
      PROVE  Goal
  <2>1. UNCHANGED rows
    BY <1>7 DEF Accept, Refuse, DeactivateAccount, ReadOrder, ReadChallenge, Decide, Spawn,
                store, rows
  <2> QED
    BY <2>1, <1>u
<1>8. CASE ResumeStart \/ ResumeRead \/ Restart
  <2>1. UNCHANGED rows
    BY <1>8 DEF ResumeStart, ResumeRead, Restart, store, rows
  <2> QED
    BY <2>1, <1>u
<1>9. ASSUME NEW o \in Order, TimeUp(o) PROVE Goal
  <2>1. UNCHANGED rows
    BY <1>9 DEF TimeUp, store, rows
  <2> QED
    BY <2>1, <1>u
<1>10. CASE UNCHANGED vars
  <2>1. UNCHANGED rows
    BY <1>10 DEF vars, rows
  <2> QED
    BY <2>1, <1>u
<1>11. ASSUME NEW r \in Req, Accept(r) \/ Refuse(r) \/ Proceed(r) PROVE Goal
  BY <1>1, <1>2, <1>3, <1>4, <1>5, <1>7, <1>11 DEF Proceed
<1> QED
  BY <1>6, <1>8, <1>9, <1>10, <1>11 DEF Next

(* The inductive invariant holds throughout. *)
LEMMA AgreementHolds == Spec => [](TypeOK /\ Agreement)
<1>1. Init => TypeOK
  BY RequestPlaces, RestartAssumption DEF Init, TypeOK
<1>2. Init => Agreement
  BY TableAssumption DEF Init, Agreement, OrderSettled, AuthorisationEarned,
     ValidHasCertificate, NoneProcessing, RowsTogether, NoRow
<1> QED
  BY <1>1, <1>2, TypeStep, AgreementStep, PTL DEF Spec

(* Whatever requests, validations, expiries and restarts interleave, an    *)
(* order agrees with its authorisations at every commit of store.rs.       *)
THEOREM OrdersAreSettled == Spec => []OrderSettled
<1>1. TypeOK /\ Agreement => OrderSettled
  BY DEF Agreement
<1> QED
  BY <1>1, AgreementHolds, PTL

(* An authorisation's outcome is that of a challenge of it, in spite of    *)
(* validations of several challenges, or twice of one, running at once.    *)
THEOREM AuthorisationsAreEarned == Spec => []AuthorisationEarned
<1>1. TypeOK /\ Agreement => AuthorisationEarned
  BY DEF Agreement
<1> QED
  BY <1>1, AgreementHolds, PTL

(* An order is valid exactly when its certificate is recorded, however     *)
(* many finalise requests read it as ready.                                *)
THEOREM ValidOrdersHaveCertificates == Spec => []ValidHasCertificate
<1>1. TypeOK /\ Agreement => ValidHasCertificate
  BY DEF Agreement
<1> QED
  BY <1>1, AgreementHolds, PTL

(* finalise's stale read does no harm: record_certificate commits only     *)
(* while all authorisations of the order are valid.                        *)
THEOREM IssuesOnlyAuthorised == Spec => IssuedWasAuthorised
<1>1. TypeOK /\ Agreement /\ [Next]_vars => [IssueStep]_vars
  BY AgreementStep
<1> QED
  BY <1>1, AgreementHolds, PTL DEF Spec, IssuedWasAuthorised

(* No commit moves a row in a way that may_become does not allow, also not *)
(* the updates that do not go through `transition`.                        *)
THEOREM LifecycleIsKept == Spec => LifecycleKept
<1>1. TypeOK /\ Agreement /\ [Next]_vars => [LifecycleStep]_vars
  BY AgreementStep
<1> QED
  BY <1>1, AgreementHolds, PTL DEF Spec, LifecycleKept

-----------------------------------------------------------------------------
(* The refinement of OrderPromise *)

phases == [o \in Order |-> PhaseOf(order[o])]
proofs == {z \in Authz : authz[z] = "valid"}

(* A step that leaves the promised state alone, as OrderPromise sees it. *)
LEMMA PromiseStutter == ASSUME UNCHANGED rows PROVE UNCHANGED <<phases, proofs>>
  BY DEF rows, phases, proofs

(* The phase that each status stands for. *)
LEMMA PhaseCases ==
    /\ PhaseOf(NoRow) = "none" /\ PhaseOf("pending") = "open" /\ PhaseOf("ready") = "ready"
    /\ PhaseOf("valid") = "issued" /\ PhaseOf("invalid") = "ended"
  BY DEF PhaseOf, NoRow

(* Losing proofs: whatever takes them away has ended the orders that are   *)
(* still open and relied on them, and moved no other order.                *)
LEMMA LosesProofs ==
    ASSUME TypeOK, authz' \in [Authz -> AuthzStatus \cup {NoRow}],
           order' \in [Order -> OrderStatus \cup {NoRow}],
           \A z \in Authz : authz'[z] = "valid" => authz[z] = "valid",
           \A o \in Order : \/ order'[o] = order[o]
                            \/ order'[o] = "invalid" /\ order[o] \in {"pending", "ready"},
           \A z \in Authz : authz[z] = "valid" /\ authz'[z] # "valid"
                            => order'[OrderOf[z]] \notin {"pending", "ready"}
    PROVE  \E names \in SUBSET Authz, orders \in SUBSET Order : Promise!Lose(names, orders)
<1>n. PICK names \in SUBSET Authz :
           names = {z \in Authz : authz[z] = "valid" /\ authz'[z] # "valid"}
  OBVIOUS
<1>o. PICK orders \in SUBSET Order : orders = {o \in Order : order'[o] # order[o]}
  OBVIOUS
<1>1. names \subseteq proofs /\ proofs' = proofs \ names
  BY <1>n DEF proofs
<1>2. \A o \in orders : phases[o] \in {"open", "ready"}
  BY <1>o, PhaseCases DEF phases
<1>3. \A z \in names : phases[OrderOf[z]] \in {"open", "ready"} => OrderOf[z] \in orders
  <2> SUFFICES ASSUME NEW z \in names, OrderOf[z] \notin orders
               PROVE  phases[OrderOf[z]] \notin {"open", "ready"}
    OBVIOUS
  <2>1. OrderOf[z] \in Order /\ order'[OrderOf[z]] = order[OrderOf[z]]
    BY <1>o, TableAssumption
  <2>2. order[OrderOf[z]] \notin {"pending", "ready"}
    BY <1>n, <2>1
  <2> QED
    BY <2>1, <2>2 DEF phases, PhaseOf
<1>4. phases' = [o \in Order |-> IF o \in orders THEN "ended" ELSE phases[o]]
  BY <1>o, PhaseCases DEF phases
<1>5. Promise!Lose(names, orders)
  BY <1>1, <1>2, <1>3, <1>4 DEF Promise!Lose, phases, proofs
<1> QED
  BY <1>5

(* An authorisation that is pending is decided or withdrawn, or a valid    *)
(* one withdrawn, and the order settled: a proof, or the loss of one.      *)
LEMMA SettlePromised ==
    ASSUME TypeOK, Agreement, NEW z \in Authz, NEW to \in {"valid", "invalid", "deactivated"},
           authz[z] \in {"pending", "valid"},
           to = "valid" => authz[z] = "pending",
           authz' = [authz EXCEPT ![z] = to],
           order' = [order EXCEPT ![OrderOf[z]] = Settled(OrderOf[z], order, authz')]
    PROVE  Promise!Next
<1> DEFINE o == OrderOf[z]
<1>1. o \in Order /\ z \in AuthzsOf(o)
  BY TableAssumption DEF AuthzsOf
<1>2. authz'[z] = to /\ \A y \in Authz \ {z} : authz'[y] = authz[y]
  BY DEF TypeOK
<1>3. order'[o] = Settled(o, order, authz') /\ \A p \in Order \ {o} : order'[p] = order[p]
  BY <1>1 DEF TypeOK
<1>4. CASE to = "valid"
  <2>1. order[o] # NoRow /\ order[o] # "ready"
    BY <1>1, <1>4 DEF Agreement, RowsTogether, OrderSettled, NoRow
  <2>2. z \notin proofs /\ phases[o] # "none" /\ proofs' = proofs \cup {z}
    BY <1>1, <1>2, <1>4, <2>1 DEF proofs, phases, PhaseOf
  <2>3. ~Failed(o, order, authz')
    BY <1>1, <1>2, <1>4, <2>1 DEF Failed, Agreement, OrderSettled, AuthzsOf
  <2>4. Promise!NamesOf(o) \subseteq proofs' <=> \A y \in AuthzsOf(o) : authz'[y] = "valid"
    BY <1>2 DEF Promise!NamesOf, proofs, AuthzsOf
  <2>5. phases[o] = "open" <=> order[o] = "pending"
    BY <1>1 DEF phases, PhaseOf, NoRow
  <2>6. phases'[o] = IF phases[o] = "open" /\ Promise!NamesOf(o) \subseteq proofs'
                     THEN "ready" ELSE phases[o]
    <3>1. CASE order[o] = "pending" /\ \A y \in AuthzsOf(o) : authz'[y] = "valid"
      <4>1. order'[o] = "ready"
        BY <1>3, <2>3, <3>1 DEF Settled
      <4> QED
        BY <1>1, <2>4, <2>5, <3>1, <4>1, PhaseCases DEF phases
    <3>2. CASE ~(order[o] = "pending" /\ \A y \in AuthzsOf(o) : authz'[y] = "valid")
      <4>1. order'[o] = order[o]
        BY <1>3, <2>3, <3>2 DEF Settled
      <4> QED
        BY <1>1, <2>4, <2>5, <3>2, <4>1 DEF phases
    <3> QED
      BY <3>1, <3>2
  <2>7. \A p \in Order \ {o} : phases'[p] = phases[p]
    BY <1>3 DEF phases
  <2>8. phases' = [phases EXCEPT ![o] = IF @ = "open" /\ Promise!NamesOf(o) \subseteq proofs'
                                        THEN "ready" ELSE @]
    BY <1>1, <2>6, <2>7 DEF phases
  <2>9. Promise!Prove(z)
    BY <2>2, <2>8 DEF Promise!Prove, phases, proofs
  <2> QED
    BY <2>9 DEF Promise!Next
<1>5. CASE to # "valid"
  <2>1. Failed(o, order, authz') <=> order[o] \in {"pending", "ready"}
    BY <1>1, <1>2, <1>5 DEF Failed
  <2>2. order'[o] = IF order[o] \in {"pending", "ready"} THEN "invalid" ELSE order[o]
    BY <1>3, <2>1 DEF Settled
  <2>3. authz' \in [Authz -> AuthzStatus \cup {NoRow}] /\ order' \in [Order -> OrderStatus \cup {NoRow}]
    <3>1. \A p \in Order : order'[p] \in OrderStatus \cup {NoRow}
      BY <1>3, <2>2 DEF TypeOK, OrderStatus
    <3> QED
      BY <3>1 DEF TypeOK, AuthzStatus
  <2>4. \A y \in Authz : authz'[y] = "valid" => authz[y] = "valid"
    BY <1>2, <1>5
  <2>5. \A p \in Order : \/ order'[p] = order[p]
                         \/ order'[p] = "invalid" /\ order[p] \in {"pending", "ready"}
    BY <1>3, <2>2
  <2>6. \A y \in Authz : authz[y] = "valid" /\ authz'[y] # "valid"
                         => order'[OrderOf[y]] \notin {"pending", "ready"}
    BY <1>2, <2>2
  <2>7. \E names \in SUBSET Authz, orders \in SUBSET Order : Promise!Lose(names, orders)
    BY <2>3, <2>4, <2>5, <2>6, LosesProofs
  <2> QED
    BY <2>7 DEF Promise!Next
<1> QED
  BY <1>4, <1>5

(* Every step is one of OrderPromise, or changes nothing that it speaks of. *)
LEMMA PromiseStep ==
    TypeOK /\ Agreement /\ [Next]_vars => [Promise!Next]_<<phases, proofs>>
<1> SUFFICES ASSUME TypeOK, Agreement, [Next]_vars
             PROVE  Promise!Next \/ UNCHANGED <<phases, proofs>>
  OBVIOUS
<1> DEFINE Goal == Promise!Next \/ UNCHANGED <<phases, proofs>>
<1>r. ASSUME NEW r \in Req PROVE req[r] \in Request
  BY DEF TypeOK
<1>u. ASSUME UNCHANGED rows PROVE Goal
  BY <1>u, PromiseStutter
<1>1. ASSUME NEW r \in Req, CreateOrder(r) PROVE Goal
  <2>1. PICK o \in Order :
           /\ order[o] = NoRow
           /\ order' = [order EXCEPT ![o] = "pending"]
           /\ authz' = [z \in Authz |-> IF OrderOf[z] = o THEN "pending" ELSE authz[z]]
    BY <1>1 DEF CreateOrder
  <2>2. proofs' = proofs
    BY <2>1 DEF proofs, Agreement, RowsTogether, NoRow
  <2>3. phases[o] = "none" /\ phases' = [phases EXCEPT ![o] = "open"]
    BY <2>1, PhaseCases DEF phases, TypeOK
  <2>4. Promise!Make(o)
    BY <2>2, <2>3 DEF Promise!Make, phases, proofs
  <2> QED
    BY <2>4 DEF Promise!Next
<1>2. ASSUME NEW r \in Req, Expire(r) PROVE Goal
  <2> DEFINE st == [o \in Order |-> IF o \in late /\ order[o] \in {"pending", "ready"}
                                    THEN "invalid" ELSE order[o]]
  <2>1. ExpireStale
    BY <1>2 DEF Expire
  <2>2. authz' \in [Authz -> AuthzStatus \cup {NoRow}] /\ order' \in [Order -> OrderStatus \cup {NoRow}]
    BY <2>1, StoreSteps
  <2>3. /\ authz' = [z \in Authz |-> IF OrderOf[z] \in late /\ authz[z] \in {"pending", "valid"}
                                     THEN "expired" ELSE authz[z]]
        /\ order' = [o \in Order |-> IF Failed(o, st, authz') THEN "invalid" ELSE st[o]]
    BY <2>1 DEF ExpireStale
  <2>4. \A z \in Authz : authz'[z] = "valid" => authz[z] = "valid"
    BY <2>3
  <2>5. \A o \in Order : \/ order'[o] = order[o]
                         \/ order'[o] = "invalid" /\ order[o] \in {"pending", "ready"}
    BY <2>3 DEF Failed
  <2>6. \A z \in Authz : authz[z] = "valid" /\ authz'[z] # "valid"
                         => order'[OrderOf[z]] \notin {"pending", "ready"}
    BY <2>3, TableAssumption
  <2>7. \E names \in SUBSET Authz, orders \in SUBSET Order : Promise!Lose(names, orders)
    BY <2>2, <2>4, <2>5, <2>6, LosesProofs
  <2> QED
    BY <2>7 DEF Promise!Next
<1>3. ASSUME NEW r \in Req, Finalise(r) PROVE Goal
  <2> DEFINE o == req[r].on
  <2>1. o \in Order /\ RecordCertificate(o) /\ UNCHANGED <<authz, chal>>
    BY <1>3, <1>r, RequestOn DEF Finalise, At
  <2>2. order[o] # "processing"
    BY <2>1 DEF Agreement, NoneProcessing
  <2>3. CASE order[o] = "ready" /\ o \notin certs
    <3>1. order' = [order EXCEPT ![o] = "valid"]
      BY <2>1, <2>3 DEF RecordCertificate, OrderMayBecome
    <3>2. phases[o] = "ready" /\ phases' = [phases EXCEPT ![o] = "issued"]
      BY <2>1, <2>3, <3>1, PhaseCases DEF phases, TypeOK
    <3>3. Promise!NamesOf(o) \subseteq proofs /\ proofs' = proofs
      BY <2>1, <2>3 DEF Promise!NamesOf, proofs, Agreement, OrderSettled, AuthzsOf
    <3>4. Promise!Issue(o)
      BY <3>2, <3>3 DEF Promise!Issue, phases, proofs
    <3> QED
      BY <2>1, <3>4 DEF Promise!Next
  <2>4. CASE ~(order[o] = "ready" /\ o \notin certs)
    <3>1. UNCHANGED rows
      BY <2>1, <2>2, <2>4 DEF RecordCertificate, OrderMayBecome, rows
    <3> QED
      BY <3>1, <1>u
  <2> QED
    BY <2>3, <2>4
<1>4. ASSUME NEW r \in Req, Withdraw(r) PROVE Goal
  <2> DEFINE z == req[r].on
  <2>1. z \in Authz /\ SetAuthorisationStatus(z, "deactivated") /\ UNCHANGED <<chal, certs>>
    BY <1>4, <1>r, RequestOn DEF Withdraw, At
  <2>2. CASE AuthzMayBecome(authz[z], "deactivated")
    <3>1. /\ authz' = [authz EXCEPT ![z] = "deactivated"]
          /\ order' = [order EXCEPT ![OrderOf[z]] = Settled(OrderOf[z], order, authz')]
      BY <2>1, <2>2 DEF SetAuthorisationStatus
    <3>2. authz[z] \in {"pending", "valid"}
      BY <2>2 DEF AuthzMayBecome
    <3> QED
      BY <2>1, <3>1, <3>2, SettlePromised
  <2>3. CASE ~AuthzMayBecome(authz[z], "deactivated")
    BY <2>1, <2>3, <1>u DEF SetAuthorisationStatus, rows
  <2> QED
    BY <2>2, <2>3
<1>5. ASSUME NEW c \in Chal, Validated(c) PROVE Goal
  <2> DEFINE z == AuthzOf[c]
  <2>1. z \in Authz
    BY TableAssumption
  <2>2. PICK to \in {"valid", "invalid"} : SetChallengeStatus(c, to)
    BY <1>5 DEF Validated
  <2>3. CASE ChalMayBecome(chal[c], to) /\ authz[z] = "pending"
    <3>1. /\ authz' = [authz EXCEPT ![z] = to]
          /\ order' = [order EXCEPT ![OrderOf[z]] = Settled(OrderOf[z], order, authz')]
      BY <2>2, <2>3 DEF SetChallengeStatus
    <3> QED
      BY <2>1, <2>3, <3>1, SettlePromised
  <2>4. CASE ~(ChalMayBecome(chal[c], to) /\ authz[z] = "pending")
    <3>1. Settled(OrderOf[z], order, authz) = order[OrderOf[z]]
      BY <2>1, TableAssumption DEF Settled, Failed, Agreement, OrderSettled
    <3>2. authz' = authz
      BY <2>2, <2>4 DEF SetChallengeStatus, TypeOK
    <3>3. \/ order' = order
          \/ order' = [order EXCEPT ![OrderOf[z]] = Settled(OrderOf[z], order, authz')]
      BY <2>2 DEF SetChallengeStatus
    <3>4. order' = order
      BY <3>1, <3>2, <3>3 DEF TypeOK
    <3> QED
      BY <3>2, <3>4 DEF phases, proofs
  <2> QED
    BY <2>3, <2>4
<1>6. ASSUME NEW r \in Req,
             \/ Accept(r) \/ Refuse(r) \/ DeactivateAccount(r) \/ ReadOrder(r)
             \/ ReadChallenge(r) \/ Decide(r) \/ Spawn(r) \/ StartProcessing(r)
      PROVE  Goal
  <2>1. order' = order /\ authz' = authz
    BY <1>6 DEF Accept, Refuse, DeactivateAccount, ReadOrder, ReadChallenge, Decide, Spawn,
                StartProcessing, store
  <2> QED
    BY <2>1 DEF phases, proofs
<1>7. ASSUME \/ ResumeStart \/ ResumeRead \/ Restart \/ UNCHANGED vars
             \/ \E o \in Order : TimeUp(o)
      PROVE  Goal
  <2>1. order' = order /\ authz' = authz
    BY <1>7 DEF ResumeStart, ResumeRead, Restart, TimeUp, store, vars
  <2> QED
    BY <2>1 DEF phases, proofs
<1>8. ASSUME NEW r \in Req, Accept(r) \/ Refuse(r) \/ Proceed(r) PROVE Goal
  BY <1>1, <1>2, <1>3, <1>4, <1>6, <1>8 DEF Proceed
<1> QED
  BY <1>5, <1>7, <1>8 DEF Next

(* The server implements OrderPromise, for any orders, names, challenges   *)
(* and requests at once: what server.rs and store.rs commit is a proof, a  *)
(* loss, an issue or nothing, and stale reads of finalise issue nothing.   *)
THEOREM ServerKeepsPromise == Spec => KeepsPromise
<1>1. Init => Promise!Init
  BY TableAssumption, PhaseCases DEF Init, Promise!Init, NoRow
<1>2. TypeOK /\ Agreement /\ [Next]_vars
        => [Promise!Next]_<<[o \in Order |-> PhaseOf(order[o])], {z \in Authz : authz[z] = "valid"}>>
  BY PromiseStep DEF phases, proofs
<1> QED
  BY <1>1, <1>2, AgreementHolds, PTL DEF Spec, KeepsPromise, Promise!Spec

=============================================================================
