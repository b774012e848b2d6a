-------------------------- MODULE BrokerStoreProofs --------------------------
(* Proofs about the broker's acme.db: accounts, nonces, issuance, certificates and the CRL. *)
EXTENDS BrokerStore, FiniteSetTheorems, WellFoundedInduction, TLAPS

-----------------------------------------------------------------------------
(* Accounts and nonces *)

RequestType ==
    [at : {"idle", "sent", "verified", "redeemed", "absent"}, op : Op \cup {"none"},
     account : Account \cup {0}, key : Key \cup {0}, newKey : Key \cup {0}, nonce : Nonce \cup {0}]

AccountsTyped ==
    /\ accounts \in [Account -> [key : Key \cup {0}, status : {"none", "valid", "deactivated"}]]
    /\ nonces \in [live : SUBSET Nonce, issued : Seq(Nat), given : 0..MaxNonce]
    /\ request \in [Client -> RequestType]
    /\ effects \in [Nonce -> Nat]
    /\ \A a \in Account : accounts[a].status = "none" => accounts[a] = NoAccount

\* A request under way is about an account that is there, and has a nonce that was given.
RequestsBacked ==
    \A c \in Client : request[c].at # "idle" =>
        /\ request[c].nonce \in 1..nonces.given /\ request[c].key \in Key
        /\ request[c].op # "new_account" =>
              request[c].account \in Account /\ Exists(request[c].account)
        /\ request[c].op = "key_change" => request[c].newKey \in Key

\* The requests that have redeemed their nonce and may yet take effect.
Holds(c, n) == request[c].at \in {"redeemed", "absent"} /\ request[c].nonce = n

\* A nonce that is live, or still to be given, has no holder and no effect; one that is held
\* has one holder and no effect yet.
NoncesUnspent ==
    /\ \A n \in Nonce : n \in nonces.live => n <= nonces.given
    /\ \A n \in Nonce : n \in nonces.live \/ n > nonces.given =>
          effects[n] = 0 /\ \A c \in Client : ~Holds(c, n)
    /\ \A n \in Nonce, c \in Client : Holds(c, n) =>
          effects[n] = 0 /\ \A d \in Client \ {c} : ~Holds(d, n)

AccountsInv == AccountsTyped /\ RequestsBacked /\ NoncesUnspent /\ OneAccountPerKey /\ EffectOnce

(***************************************************************************)
(* A response keeps what is known of accounts and requests, whether it     *)
(* forgets the oldest nonce or has no new one to give.                     *)
(***************************************************************************)
LEMMA IssuedTyped ==
  ASSUME AccountsTyped, nonces.given < MaxNonce
  PROVE  /\ Issued \in [live : SUBSET Nonce, issued : Seq(Nat), given : 0..MaxNonce]
         /\ Issued.given = nonces.given + 1
         /\ Issued.live \subseteq nonces.live \cup {nonces.given + 1}
<1> USE AccountAssumption DEF AccountsTyped, Nonce
<1>1. nonces.given + 1 \in Nonce /\ nonces.given + 1 \in Nat
  OBVIOUS
<1>2. Len(nonces.issued) >= Capacity => Tail(nonces.issued) \in Seq(Nat)
  OBVIOUS
<1>3. Append(IF Len(nonces.issued) >= Capacity THEN Tail(nonces.issued) ELSE nonces.issued,
             nonces.given + 1) \in Seq(Nat)
  BY <1>1, <1>2
<1>4. QED
  BY <1>1, <1>3 DEF Issued

(***************************************************************************)
(* What a response leaves of the invariant: request c is over, the others  *)
(* are as they were, and only a nonce that was never given becomes live.   *)
(***************************************************************************)
LEMMA RespondsStep ==
  ASSUME AccountsTyped, NEW c \in Client, Responds(c)
  PROVE  /\ nonces' \in [live : SUBSET Nonce, issued : Seq(Nat), given : 0..MaxNonce]
         /\ nonces'.given \in {nonces.given, nonces.given + 1}
         /\ nonces'.live \subseteq nonces.live \cup ({nonces'.given} \ {nonces.given})
         /\ request' \in [Client -> RequestType]
         /\ request'[c] = NoRequest /\ \A d \in Client \ {c} : request'[d] = request[d]
<1> USE AccountAssumption DEF AccountsTyped
<1>1. NoRequest \in RequestType
  BY DEF NoRequest, RequestType
<1>2. QED
  BY <1>1, IssuedTyped DEF Responds, Nonce

(***************************************************************************)
(* After a response no nonce is live or still to be given that was spent or *)
(* held before, and the request that was answered holds none (Nonces::issue). *)
(***************************************************************************)
LEMMA NoncesAfterResponse ==
  ASSUME AccountsInv, NEW c \in Client, Responds(c)
  PROVE  /\ \A n \in Nonce : n \in nonces'.live => n <= nonces'.given
         /\ \A n \in Nonce : n \in nonces'.live \/ n > nonces'.given =>
                              n \in nonces.live \/ n > nonces.given
         /\ \A d \in Client, n \in Nonce : Holds(d, n)' => Holds(d, n) /\ d # c
<1> USE AccountAssumption DEF Nonce
<1>1. /\ nonces'.given \in {nonces.given, nonces.given + 1}
      /\ nonces'.live \subseteq nonces.live \cup ({nonces'.given} \ {nonces.given})
      /\ request'[c].at = "idle" /\ \A d \in Client \ {c} : request'[d] = request[d]
  BY RespondsStep DEF AccountsInv, NoRequest
<1>2. nonces.given \in Nat /\ \A n \in Nonce : n \in nonces.live => n <= nonces.given
  BY DEF AccountsInv, AccountsTyped, NoncesUnspent
<1>3. \A d \in Client, n \in Nonce : Holds(d, n)' => Holds(d, n) /\ d # c
  BY <1>1 DEF Holds
<1>4. QED
  BY <1>1, <1>2, <1>3

(***************************************************************************)
(* A response that refuses spends nothing.                                 *)
(***************************************************************************)
LEMMA NoncesAfterRefusal ==
  ASSUME AccountsInv, NEW c \in Client, Responds(c), UNCHANGED effects
  PROVE  NoncesUnspent' /\ EffectOnce'
<1>1. EffectOnce'
  BY DEF AccountsInv, EffectOnce
<1>2. NoncesUnspent'
  BY NoncesAfterResponse DEF AccountsInv, NoncesUnspent
<1>3. QED
  BY <1>1, <1>2

(***************************************************************************)
(* A request that takes effect spends its nonce, which nobody else holds.  *)
(***************************************************************************)
LEMMA NoncesAfterEffect ==
  ASSUME AccountsInv, NEW c \in Client, request[c].at \in {"redeemed", "absent"}, NEW accts,
         Takes(c, accts)
  PROVE  NoncesUnspent' /\ EffectOnce' /\ effects' \in [Nonce -> Nat]
<1> USE AccountAssumption DEF Nonce
<1>m. PICK m : m = request[c].nonce
  OBVIOUS
<1>0. Responds(c) /\ effects' = [effects EXCEPT ![m] = @ + 1]
  BY <1>m DEF Takes
<1>1. m \in Nonce /\ m <= nonces.given
  BY <1>m DEF AccountsInv, RequestsBacked, AccountsTyped
<1>2. Holds(c, m)
  BY <1>m DEF Holds
<1>3. /\ effects[m] = 0 /\ m \notin nonces.live /\ ~(m > nonces.given)
      /\ \A d \in Client \ {c} : ~Holds(d, m)
  BY <1>1, <1>2 DEF AccountsInv, NoncesUnspent, AccountsTyped
<1>4. \A n \in Nonce : effects'[n] = IF n = m THEN 1 ELSE effects[n]
  BY <1>0, <1>1, <1>3 DEF AccountsInv, AccountsTyped
<1>5. effects' \in [Nonce -> Nat]
  BY <1>0, <1>1, <1>3 DEF AccountsInv, AccountsTyped
<1>6. EffectOnce'
  BY <1>4 DEF AccountsInv, EffectOnce
<1>7. NoncesUnspent'
  BY <1>0, <1>3, <1>4, NoncesAfterResponse DEF AccountsInv, NoncesUnspent
<1>8. QED
  BY <1>5, <1>6, <1>7

(***************************************************************************)
(* Requests stay backed when nonces are only given and accounts only added *)
(* or changed.                                                             *)
(***************************************************************************)
LEMMA StillBacked ==
  ASSUME AccountsTyped, RequestsBacked, nonces'.given \in Nat, nonces.given <= nonces'.given,
         \A a \in Account : Exists(a) => Exists(a)',
         \A d \in Client : request'[d].at = "idle" \/ request'[d] = request[d]
  PROVE  RequestsBacked'
<1> SUFFICES ASSUME NEW d \in Client, request'[d].at # "idle"
             PROVE  /\ request'[d].nonce \in 1..nonces'.given /\ request'[d].key \in Key
                    /\ request'[d].op # "new_account" =>
                          /\ request'[d].account \in Account
                          /\ accounts'[request'[d].account] # NoAccount
                    /\ request'[d].op = "key_change" => request'[d].newKey \in Key
  BY DEF RequestsBacked, Exists
<1>1. request'[d] = request[d] /\ nonces.given \in Nat
  BY AccountAssumption DEF AccountsTyped
<1>2. /\ request[d].nonce \in 1..nonces.given /\ request[d].key \in Key
      /\ request[d].op # "new_account" =>
            request[d].account \in Account /\ Exists(request[d].account)
      /\ request[d].op = "key_change" => request[d].newKey \in Key
  BY <1>1 DEF RequestsBacked
<1>3. QED
  BY <1>1, <1>2 DEF Exists

(***************************************************************************)
(* A request that moves on to its next place in the handler stays a request. *)
(***************************************************************************)
LEMMA AtTyped ==
  ASSUME NEW c \in Client, NEW l \in {"idle", "sent", "verified", "redeemed", "absent"},
         request \in [Client -> RequestType]
  PROVE  [request EXCEPT ![c].at = l] \in [Client -> RequestType]
<1>1. [request[c] EXCEPT !.at = l] \in RequestType
  BY DEF RequestType
<1>2. QED
  BY <1>1

(***************************************************************************)
(* Every step of the account handlers keeps AccountsInv.                   *)
(***************************************************************************)
LEMMA AccountsStep ==
  ASSUME AccountsInv, AccountsNext
  PROVE  AccountsInv'
<1> USE AccountAssumption
<1>r. ASSUME NEW c \in Client, Responds(c), UNCHANGED <<accounts, effects>>
      PROVE  AccountsInv'
  <2>1. AccountsTyped'
    BY <1>r, RespondsStep DEF AccountsInv, AccountsTyped
  <2>2. RequestsBacked'
    BY <1>r, RespondsStep DEF AccountsInv, RequestsBacked, NoRequest, Exists, AccountsTyped
  <2>3. OneAccountPerKey'
    BY <1>r DEF AccountsInv, OneAccountPerKey, Exists
  <2>4. QED
    BY <1>r, <2>1, <2>2, <2>3, NoncesAfterRefusal DEF AccountsInv
<1>t. ASSUME NEW c \in Client, request[c].at \in {"redeemed", "absent"}, NEW accts,
             Takes(c, accts),
             accts \in [Account -> [key : Key \cup {0}, status : {"none", "valid", "deactivated"}]],
             \A a \in Account : accts[a].status = "none" => accts[a] = NoAccount,
             \A a \in Account : Exists(a) => accts[a] # NoAccount,
             \A a, b \in Account : a # b /\ accts[a] # NoAccount /\ accts[b] # NoAccount
                                      => accts[a].key # accts[b].key
      PROVE  AccountsInv'
  <2>0. accounts' = accts /\ Responds(c)
    BY <1>t DEF Takes
  <2>n. NoncesUnspent' /\ EffectOnce' /\ effects' \in [Nonce -> Nat]
    BY <1>t, NoncesAfterEffect
  <2>1. AccountsTyped'
    BY <1>t, <2>0, <2>n, RespondsStep DEF AccountsInv, AccountsTyped
  <2>2. RequestsBacked'
    <3>0. AccountsTyped
      BY DEF AccountsInv
    <3>a. \A d \in Client : request'[d].at = "idle" \/ request'[d] = request[d]
      BY <2>0, <3>0, RespondsStep DEF NoRequest
    <3>b. nonces'.given \in {nonces.given, nonces.given + 1}
      BY <2>0, <3>0, RespondsStep
    <3>1. nonces'.given \in Nat /\ nonces.given <= nonces'.given
      BY <3>0, <3>b DEF AccountsTyped
    <3>2. \A a \in Account : Exists(a) => Exists(a)'
      BY <1>t, <2>0 DEF Exists
    <3>3. QED
      BY <3>a, <3>1, <3>2, StillBacked DEF AccountsInv
  <2>3. OneAccountPerKey'
    BY <1>t, <2>0 DEF OneAccountPerKey, Exists
  <2>4. QED
    BY <2>n, <2>1, <2>2, <2>3 DEF AccountsInv
<1>1. CASE NewNonce
  <2>1. /\ nonces'.given = nonces.given + 1
        /\ nonces'.live \subseteq nonces.live \cup {nonces.given + 1}
        /\ nonces' \in [live : SUBSET Nonce, issued : Seq(Nat), given : 0..MaxNonce]
    BY <1>1, IssuedTyped DEF NewNonce, AccountsInv
  <2>2. AccountsTyped' /\ OneAccountPerKey' /\ EffectOnce'
    BY <1>1, <2>1 DEF NewNonce, AccountsInv, AccountsTyped, OneAccountPerKey, EffectOnce, Exists
  <2>3. RequestsBacked'
    <3>1. nonces'.given \in Nat /\ nonces.given <= nonces'.given
      BY <2>1 DEF AccountsInv, AccountsTyped
    <3>2. QED
      BY <1>1, <3>1, StillBacked DEF NewNonce, AccountsInv, Exists
  <2>4. NoncesUnspent'
    <3>1. nonces.given \in Nat
      BY DEF AccountsInv, AccountsTyped
    <3>2. \A n \in Nonce : n \in nonces'.live => n \in nonces.live \/ n = nonces.given + 1
      BY <2>1
    <3>3. \A d \in Client, n \in Nonce : Holds(d, n)' <=> Holds(d, n)
      BY <1>1 DEF NewNonce, Holds
    <3>4. \A n \in Nonce : n \in Nat
      BY DEF Nonce
    <3>5. QED
      BY <1>1, <2>1, <3>1, <3>2, <3>3, <3>4 DEF NewNonce, AccountsInv, NoncesUnspent
  <2>5. QED
    BY <2>2, <2>3, <2>4 DEF AccountsInv
<1>2. ASSUME NEW c \in Client, NEW op \in Op, NEW a \in Account, NEW k \in Key, NEW n \in Nonce,
             Send(c, op, a, k, n)
      PROVE  AccountsInv'
  <2>1. PICK new \in Key \cup {0} :
          /\ op = "key_change" => new \in Key
          /\ request' = [request EXCEPT ![c] =
              [at |-> "sent", op |-> op, account |-> IF op = "new_account" THEN 0 ELSE a,
               key |-> k, newKey |-> new, nonce |-> n]]
    BY <1>2 DEF Send
  <2>2. AccountsTyped'
    BY <1>2, <2>1 DEF Send, AccountsInv, AccountsTyped, RequestType
  <2>3. RequestsBacked'
    BY <1>2, <2>1 DEF Send, AccountsInv, RequestsBacked, Exists, AccountsTyped, Nonce
  <2>4. NoncesUnspent'
    BY <1>2, <2>1 DEF Send, AccountsInv, NoncesUnspent, Holds, AccountsTyped
  <2>5. QED
    BY <1>2, <2>2, <2>3, <2>4 DEF Send, AccountsInv, OneAccountPerKey, EffectOnce, Exists
<1>3. ASSUME NEW c \in Client, NEW at \in {"verified", "absent"},
             request[c].at = IF at = "verified" THEN "sent" ELSE "redeemed",
             request' = [request EXCEPT ![c].at = at], UNCHANGED <<accounts, nonces, effects>>
      PROVE  AccountsInv'
  <2>1. AccountsTyped'
    BY <1>3, AtTyped DEF AccountsInv, AccountsTyped
  <2>2. RequestsBacked'
    BY <1>3 DEF AccountsInv, RequestsBacked, Exists, AccountsTyped, RequestType
  <2>3. \A d \in Client, n \in Nonce : Holds(d, n)' => Holds(d, n)
    BY <1>3 DEF Holds, AccountsInv, AccountsTyped, RequestType
  <2>4. NoncesUnspent'
    BY <1>3, <2>3 DEF AccountsInv, NoncesUnspent
  <2>5. QED
    BY <1>3, <2>1, <2>2, <2>4 DEF AccountsInv, OneAccountPerKey, EffectOnce, Exists
<1>4. ASSUME NEW c \in Client, Verify(c) PROVE AccountsInv'
  BY <1>4, <1>r, <1>3 DEF Verify
<1>5. ASSUME NEW c \in Client, Redeem(c) PROVE AccountsInv'
  <2>1. CASE request[c].nonce \in nonces.live
    <3>0. PICK m \in Nonce : m = request[c].nonce
      BY <2>1 DEF AccountsInv, AccountsTyped
    <3>1. /\ nonces' = [nonces EXCEPT !.live = @ \ {m}]
          /\ request' = [request EXCEPT ![c].at = "redeemed"]
          /\ UNCHANGED <<accounts, effects>> /\ request[c].at = "verified"
      BY <1>5, <2>1, <3>0 DEF Redeem, AfterRedeem
    <3>2. AccountsTyped'
      BY <3>1, AtTyped DEF AccountsInv, AccountsTyped
    <3>3. RequestsBacked'
      BY <3>1 DEF AccountsInv, RequestsBacked, Exists, AccountsTyped, RequestType
    <3>4. /\ \A d \in Client, n \in Nonce : Holds(d, n)' => Holds(d, n) \/ (d = c /\ n = m)
          /\ nonces'.live = nonces.live \ {m} /\ nonces'.given = nonces.given
      BY <3>0, <3>1 DEF Holds, AccountsInv, AccountsTyped, RequestType
    <3>5. m \in nonces.live /\ m <= nonces.given
      BY <2>1, <3>0 DEF AccountsInv, NoncesUnspent
    <3>6. NoncesUnspent'
      BY <3>1, <3>4, <3>5 DEF AccountsInv, NoncesUnspent, AccountsTyped, Nonce
    <3>7. QED
      BY <3>1, <3>2, <3>3, <3>6 DEF AccountsInv, OneAccountPerKey, EffectOnce, Exists
  <2>2. QED
    BY <1>5, <1>r, <2>1 DEF Redeem
<1>6. ASSUME NEW c \in Client, FindAccount(c) PROVE AccountsInv'
  BY <1>6, <1>r, <1>3 DEF FindAccount
<1>7. ASSUME NEW c \in Client, CreateAccount(c) PROVE AccountsInv'
  <2>1. PICK accts \in Inserted(request[c].key) : Takes(c, accts)
    BY <1>7 DEF CreateAccount
  <2>2. request[c].at = "absent" /\ request[c].key \in Key
    BY <1>7 DEF CreateAccount, AccountsInv, RequestsBacked
  <2>3. CASE Holders(request[c].key) = {}
    <3>1. PICK b \in Account : ~Exists(b)
                 /\ accts = [accounts EXCEPT ![b] = [key |-> request[c].key, status |-> "valid"]]
      BY <2>1, <2>3 DEF Inserted, Added
    <3>2. /\ accts \in [Account -> [key : Key \cup {0}, status : {"none", "valid", "deactivated"}]]
          /\ \A a \in Account : accts[a].status = "none" => accts[a] = NoAccount
          /\ \A a \in Account : Exists(a) => accts[a] # NoAccount
      BY <2>2, <3>1 DEF AccountsInv, AccountsTyped, Exists, NoAccount
    <3>3. \A a, d \in Account : a # d /\ accts[a] # NoAccount /\ accts[d] # NoAccount
                                  => accts[a].key # accts[d].key
      BY <2>3, <3>1 DEF AccountsInv, AccountsTyped, OneAccountPerKey, Exists, Holders
    <3>4. QED
      BY <1>t, <2>1, <2>2, <3>2, <3>3
  <2>4. CASE accts = accounts
    BY <1>t, <2>1, <2>2, <2>4 DEF AccountsInv, AccountsTyped, OneAccountPerKey, Exists
  <2>5. QED
    BY <2>1, <2>3, <2>4 DEF Inserted
<1>8. ASSUME NEW c \in Client, Deactivate(c) PROVE AccountsInv'
  <2> DEFINE a == request[c].account
  <2>1. a \in Account /\ Exists(a) /\ request[c].at = "redeemed"
    BY <1>8 DEF Deactivate, AccountsInv, RequestsBacked
  <2>2. CASE accounts[a].status = "valid"
    <3>1. PICK accts : accts = [accounts EXCEPT ![a].status = "deactivated"] /\ Takes(c, accts)
      BY <1>8, <2>2 DEF Deactivate
    <3>0. /\ accounts \in [Account -> [key : Key \cup {0}, status : {"none", "valid", "deactivated"}]]
          /\ \A b \in Account : accounts[b].status = "none" => accounts[b] = NoAccount
      BY DEF AccountsInv, AccountsTyped
    <3>a. accts \in [Account -> [key : Key \cup {0}, status : {"none", "valid", "deactivated"}]]
      BY <2>1, <3>0, <3>1
    <3>b. \A b \in Account : b # a => accts[b] = accounts[b]
      BY <3>0, <3>1
    <3>c. accts[a].key = accounts[a].key /\ accts[a].status = "deactivated"
      BY <2>1, <3>0, <3>1
    <3>2. /\ accts \in [Account -> [key : Key \cup {0}, status : {"none", "valid", "deactivated"}]]
          /\ \A b \in Account : accts[b].status = "none" => accts[b] = NoAccount
          /\ \A b \in Account : Exists(b) => accts[b] # NoAccount
          /\ \A b \in Account : accts[b].key = accounts[b].key /\ (accts[b] # NoAccount => Exists(b))
      BY <2>1, <3>0, <3>a, <3>b, <3>c DEF Exists, NoAccount
    <3>3. \A b, d \in Account : b # d /\ accts[b] # NoAccount /\ accts[d] # NoAccount
                                  => accts[b].key # accts[d].key
      BY <3>2 DEF AccountsInv, OneAccountPerKey
    <3>4. Takes(c, accts) /\ request[c].at \in {"redeemed", "absent"}
      BY <2>1, <3>1
    <3>5. QED
      BY <1>t, <3>2, <3>3, <3>4
  <2>3. QED
    BY <1>8, <1>r, <2>2 DEF Deactivate
<1>9. ASSUME NEW c \in Client, ChangeKey(c) PROVE AccountsInv'
  <2> DEFINE a == request[c].account
  <2>1. a \in Account /\ Exists(a) /\ request[c].at = "redeemed" /\ request[c].newKey \in Key
    BY <1>9 DEF ChangeKey, AccountsInv, RequestsBacked
  <2>2. CASE Holders(request[c].newKey) \subseteq {a}
    <3>1. PICK accts : accts = [accounts EXCEPT ![a].key = request[c].newKey] /\ Takes(c, accts)
      BY <1>9, <2>2 DEF ChangeKey
    <3>2. accounts[a].status # "none"
      BY <2>1 DEF AccountsInv, AccountsTyped, Exists
    <3>3. /\ accts \in [Account -> [key : Key \cup {0}, status : {"none", "valid", "deactivated"}]]
          /\ \A b \in Account : accts[b].status = "none" => accts[b] = NoAccount
          /\ \A b \in Account : Exists(b) => accts[b] # NoAccount
      BY <2>1, <3>1, <3>2 DEF AccountsInv, AccountsTyped, Exists, NoAccount
    <3>4. \A b, d \in Account : b # d /\ accts[b] # NoAccount /\ accts[d] # NoAccount
                                  => accts[b].key # accts[d].key
      BY <2>1, <2>2, <3>1 DEF AccountsInv, AccountsTyped, OneAccountPerKey, Exists, Holders
    <3>5. Takes(c, accts) /\ request[c].at \in {"redeemed", "absent"}
      BY <2>1, <3>1
    <3>6. QED
      BY <1>t, <3>3, <3>4, <3>5
  <2>3. QED
    BY <1>9, <1>r, <2>2 DEF ChangeKey
<1>10. ASSUME NEW c \in Client, NewOrder(c) PROVE AccountsInv'
  BY <1>10, <1>t DEF NewOrder, AccountsInv, AccountsTyped, OneAccountPerKey, Exists
<1>11. QED
  BY <1>1, <1>2, <1>4, <1>5, <1>6, <1>7, <1>8, <1>9, <1>10 DEF AccountsNext

-----------------------------------------------------------------------------
(* Issuance *)

\* The client controls what name n stands for.
NameProven(n) == IF n.wild THEN <<"dns", n.host>> \in Control
                           ELSE \E k \in Kind : <<k, n.host>> \in Control

\* An order's names are authorised only when proven, and a wildcard is offered dns-01 alone.
OrderSound ==
    order # NoOrder =>
        /\ order = [names |-> order.names, period |-> order.period, authz |-> order.authz,
                    offered |-> order.offered]
        /\ order.names \in SUBSET Name /\ order.period \in Period
        /\ order.authz \in [order.names -> Status] /\ order.offered \in [order.names -> SUBSET Kind]
        /\ \A n \in order.names : /\ n.wild => order.offered[n] \subseteq {"dns"}
                                  /\ order.authz[n] = "valid" => NameProven(n)

\* A validation is of a name of the order, by a challenge offered for it; and whomever it was
\* sent on to, it gets the client's answer only if it asked the client's server first.
TaskSound ==
    task # NoTask =>
        /\ task = [kind |-> task.kind, name |-> task.name, host |-> task.host, https |-> task.https,
                   asked |-> task.asked]
        /\ task.kind \in Kind /\ task.name \in Name /\ task.host \in Host
        /\ order # NoOrder /\ task.name \in order.names /\ task.kind \in order.offered[task.name]
        /\ IF task.kind = "http"
           THEN <<"http", task.host>> \in Control => <<"http", task.name.host>> \in Control
           ELSE task.host = task.name.host

IssuanceInv ==
    /\ issuer \in Issuer /\ now \in Nat /\ Backdate <= now
    /\ OrderSound /\ TaskSound /\ IssuedRightly

(***************************************************************************)
(* The least of three integers is below each limit of a validity period.    *)
(***************************************************************************)
LEMMA LeastOfThree ==
  ASSUME NEW a \in Int, NEW b \in Int, NEW c \in Int
  PROVE  Least({a, b, c}) \in Int /\ Least({a, b, c}) <= b /\ Least({a, b, c}) <= c
<1>1. \E t \in {a, b, c} : \A u \in {a, b, c} : t <= u
  <2>1. CASE a <= b /\ a <= c
    BY <2>1
  <2>2. CASE b <= a /\ b <= c
    BY <2>2
  <2>3. CASE c <= a /\ c <= b
    BY <2>3
  <2>4. QED
    BY <2>1, <2>2, <2>3
<1>2. QED
  BY <1>1 DEF Least

(***************************************************************************)
(* The end of a validation keeps the invariant, when it ends in success    *)
(* only for a name that is proven.                                         *)
(***************************************************************************)
LEMMA EndsStep ==
  ASSUME IssuanceInv, task # NoTask, NEW valid \in BOOLEAN, Ends(valid),
         valid => NameProven(task.name), UNCHANGED <<issuer, leaf, now>>
  PROVE  IssuanceInv'
<1>1. PICK m \in order.names : m = task.name /\ order # NoOrder
  BY DEF IssuanceInv, TaskSound
<1>2. PICK st \in Status : st = (IF valid THEN "valid" ELSE "invalid")
  BY DEF Status
<1>3. order' = [order EXCEPT !.authz[m] = st] /\ task' = NoTask
  BY <1>1, <1>2 DEF Ends
<1>4. /\ order' = [names |-> order.names, period |-> order.period,
                   authz |-> [order.authz EXCEPT ![m] = st], offered |-> order.offered]
  BY <1>1, <1>3 DEF IssuanceInv, OrderSound
<1>5. /\ order'.names = order.names /\ order'.period = order.period
      /\ order'.authz = [order.authz EXCEPT ![m] = st] /\ order'.offered = order.offered
  BY <1>4
<1>6. OrderSound'
  <2>1. order'.authz \in [order.names -> Status]
    BY <1>1, <1>5 DEF IssuanceInv, OrderSound
  <2>2. \A n \in order.names : order'.authz[n] = "valid" => NameProven(n)
    BY <1>1, <1>2, <1>5 DEF IssuanceInv, OrderSound
  <2>3. QED
    BY <1>1, <1>4, <1>5, <2>1, <2>2 DEF IssuanceInv, OrderSound, NameProven
<1>7. TaskSound'
  BY <1>3 DEF TaskSound
<1>8. IssuedRightly'
  BY DEF IssuanceInv, IssuedRightly, NamesProven, Permitted
<1>9. QED
  BY <1>6, <1>7, <1>8 DEF IssuanceInv

(***************************************************************************)
(* A redirect that is followed keeps the client's answers the client's.    *)
(***************************************************************************)
LEMMA FollowedSound ==
  ASSUME IssuanceInv, task.kind = "http", NEW l \in Redirects(task.host), Follows(l),
         task' = [Target(task, l) EXCEPT !.asked = Asked(@)], UNCHANGED order
  PROVE  TaskSound'
<1>0. task # NoTask
  BY DEF NoTask
<1>1. /\ task = [kind |-> task.kind, name |-> task.name, host |-> task.host, https |-> task.https,
                 asked |-> task.asked]
      /\ task.kind \in Kind /\ task.name \in Name /\ task.host \in Host
      /\ order # NoOrder /\ task.name \in order.names /\ task.kind \in order.offered[task.name]
      /\ <<"http", task.host>> \in Control => <<"http", task.name.host>> \in Control
  BY <1>0 DEF IssuanceInv, TaskSound
<1>2. CASE l.scheme = "path"
  <2>1. task' = [task EXCEPT !.asked = @ + 1]
    BY <1>2 DEF Target, Asked
  <2>2. task' = [kind |-> task.kind, name |-> task.name, host |-> task.host, https |-> task.https,
                 asked |-> task.asked + 1]
    BY <1>1, <2>1
  <2>3. /\ task'.kind = task.kind /\ task'.name = task.name /\ task'.host = task.host
        /\ task'.https = task.https /\ task'.asked = task.asked + 1
    BY <2>2
  <2>4. QED
    BY <1>1, <2>2, <2>3 DEF TaskSound
<1>3. CASE l.scheme # "path"
  <2>1. l.scheme \in {"http", "https"} /\ l.host \in Host
    BY <1>3 DEF Follows
  <2>2. <<"http", l.host>> \in Control => <<"http", task.host>> \in Control
    BY <2>1 DEF Redirects
  <2>3. PICK secure : Target(task, l) = [task EXCEPT !.host = l.host, !.https = secure]
    BY <1>3 DEF Target
  <2>4. task' = [kind |-> task.kind, name |-> task.name, host |-> l.host, https |-> secure,
                 asked |-> task.asked + 1]
    BY <1>1, <2>3 DEF Asked
  <2>5. /\ task'.kind = task.kind /\ task'.name = task.name /\ task'.host = l.host
        /\ task'.https = secure /\ task'.asked = task.asked + 1
    BY <2>4
  <2>6. QED
    BY <1>1, <2>1, <2>2, <2>4, <2>5 DEF TaskSound
<1>4. QED
  BY <1>2, <1>3

(***************************************************************************)
(* Every step of validation and issuance keeps IssuanceInv.                *)
(***************************************************************************)
LEMMA IssuanceStep ==
  ASSUME IssuanceInv, IssuanceNext
  PROVE  IssuanceInv'
<1> USE IssuanceAssumption
<1>l. ASSUME UNCHANGED leaf PROVE IssuedRightly'
  BY <1>l DEF IssuanceInv, IssuedRightly, NamesProven, Permitted
<1>k. ASSUME task # NoTask
      PROVE  /\ task.name \in Name /\ task.kind \in Kind
             /\ task.name.wild => task.kind = "dns"
             /\ task.kind # "http" => task.host = task.name.host
             /\ task.kind = "http" /\ <<"http", task.host>> \in Control =>
                   <<"http", task.name.host>> \in Control
  BY <1>k DEF IssuanceInv, TaskSound, OrderSound
<1>1. CASE Http01
  <2>0. task # NoTask /\ task.kind = "http" /\ UNCHANGED <<issuer, leaf, now>>
    BY <1>1 DEF Http01, NoTask
  <2>1. CASE <<"http", task.host>> \in Control /\ Ends(TRUE)
    <3>1. NameProven(task.name)
      BY <1>k, <2>0, <2>1 DEF NameProven, Kind
    <3>2. QED
      BY <2>0, <2>1, <3>1, EndsStep
  <2>2. CASE Ends(FALSE)
    BY <2>0, <2>2, EndsStep
  <2>3. ASSUME NEW l \in Redirects(task.host), Follows(l),
               task' = [Target(task, l) EXCEPT !.asked = Asked(@)], UNCHANGED order
        PROVE  IssuanceInv'
    <3>1. TaskSound'
      BY <2>0, <2>3, FollowedSound
    <3>2. OrderSound'
      BY <2>3 DEF IssuanceInv, OrderSound, NameProven
    <3>3. QED
      BY <1>l, <2>0, <3>1, <3>2 DEF IssuanceInv
  <2>4. QED
    BY <1>1, <2>1, <2>2, <2>3 DEF Http01
<1>2. CASE Dns01
  <2>0. task # NoTask /\ task.kind = "dns" /\ UNCHANGED <<issuer, leaf, now>>
    BY <1>2 DEF Dns01, NoTask
  <2>1. PICK found \in SUBSET {"digest", "other"} :
           ("digest" \in found => <<"dns", task.host>> \in Control) /\ Ends("digest" \in found)
    BY <1>2 DEF Dns01
  <2>2. "digest" \in found => NameProven(task.name)
    BY <1>k, <2>0, <2>1 DEF NameProven, Kind
  <2>3. CASE "digest" \in found
    BY <2>0, <2>1, <2>2, <2>3, EndsStep DEF Ends
  <2>4. CASE "digest" \notin found
    BY <2>0, <2>1, <2>4, EndsStep DEF Ends
  <2>5. QED
    BY <2>3, <2>4
<1>3. CASE TlsAlpn01
  <2>0. task # NoTask /\ task.kind = "tls" /\ UNCHANGED <<issuer, leaf, now>>
    BY <1>3 DEF TlsAlpn01, NoTask
  <2>1. PICK c \in Presented : (c.digest => <<"tls", task.host>> \in Control) /\ Ends(Checked(c))
    BY <1>3 DEF TlsAlpn01
  <2>2. Checked(c) => NameProven(task.name)
    BY <1>k, <2>0, <2>1 DEF NameProven, Kind, Checked
  <2>3. CASE Checked(c)
    BY <2>0, <2>1, <2>2, <2>3, EndsStep DEF Ends
  <2>4. CASE ~Checked(c)
    BY <2>0, <2>1, <2>4, EndsStep DEF Ends
  <2>5. QED
    BY <2>3, <2>4
<1>4. CASE TimesOut
  BY <1>4, EndsStep DEF TimesOut
<1>5. CASE LeaveOrder
  BY <1>5, <1>l DEF LeaveOrder, IssuanceInv, OrderSound, TaskSound
<1>6. CASE TimePasses
  <2>1. now' \in Nat /\ Backdate <= now'
    BY <1>6 DEF TimePasses, IssuanceInv
  <2>2. QED
    BY <1>6, <1>l, <2>1 DEF TimePasses, IssuanceInv, OrderSound, TaskSound, NameProven
<1>7. ASSUME NEW i \in Issuer, SetIssuer(i) PROVE IssuanceInv'
  BY <1>7, <1>l DEF SetIssuer, IssuanceInv, OrderSound, TaskSound, NameProven
<1>8. ASSUME NEW asked \in SUBSET Name, Finalise(asked) PROVE IssuanceInv'
  <2>1. /\ order # NoOrder /\ task = NoTask /\ asked = order.names
        /\ \A n \in asked : order.authz[n] = "valid" /\ Permitted(n, issuer)
        /\ NotAfter(NotBefore) > NotBefore
        /\ leaf' = [names |-> asked, from |-> NotBefore, to |-> NotAfter(NotBefore), by |-> issuer]
        /\ order' = NoOrder /\ UNCHANGED <<issuer, task, now>>
    BY <1>8 DEF Finalise, RequestedNames, NamesMatch
  <2>2. \A n \in asked : NameProven(n)
    BY <2>1 DEF IssuanceInv, OrderSound
  <2>3. /\ order.period.from \in Int /\ order.period.to \in Int /\ now \in Int /\ Backdate \in Int
        /\ issuer.days \in Int /\ issuer.maxDays \in Int /\ issuer.end \in Int
    BY <2>1 DEF IssuanceInv, OrderSound
  <2>4. PICK from \in Int : from = NotBefore
    BY <2>3 DEF NotBefore
  <2>5. NotAfter(from) \in Int /\ NotAfter(from) <= issuer.end /\ NotAfter(from) <= from + issuer.maxDays
    <3>1. PICK until \in Int : until = IF order.period.to # 0 THEN order.period.to ELSE from + issuer.days
      BY <2>3
    <3>2. NotAfter(from) = Least({until, from + issuer.maxDays, issuer.end})
      BY <3>1 DEF NotAfter
    <3>3. PICK longest \in Int : longest = from + issuer.maxDays
      BY <2>3
    <3>4. NotAfter(from) = Least({until, longest, issuer.end})
      BY <3>2, <3>3
    <3>5. PICK end \in Int : end = issuer.end
      BY <2>3
    <3>6. Least({until, longest, end}) \in Int /\ Least({until, longest, end}) <= longest
             /\ Least({until, longest, end}) <= end
      BY LeastOfThree
    <3>7. QED
      BY <3>3, <3>4, <3>5, <3>6
  <2>6. /\ leaf'.names = asked /\ leaf'.from = from /\ leaf'.to = NotAfter(from) /\ leaf'.by = issuer
    BY <2>1, <2>4
  <2>7. NamesProven'
    BY <2>2, <2>6 DEF NamesProven, NameProven
  <2>8. IssuedRightly'
    BY <2>1, <2>4, <2>5, <2>6, <2>7 DEF IssuedRightly, Permitted
  <2>9. QED
    BY <2>1, <2>8 DEF IssuanceInv, OrderSound, TaskSound
<1>9. ASSUME NEW names \in SUBSET Name, NEW p \in Period, CreateOrder(names, p) PROVE IssuanceInv'
  <2>1. /\ order' = [names |-> names, period |-> p, authz |-> [n \in names |-> "pending"],
                     offered |-> [n \in names |-> ChallengesFor(n, issuer)]]
        /\ order = NoOrder /\ leaf' = NoLeaf /\ UNCHANGED <<issuer, task, now>>
    BY <1>9 DEF CreateOrder
  <2>2. /\ order'.names = names /\ order'.period = p /\ order'.authz = [n \in names |-> "pending"]
        /\ order'.offered = [n \in names |-> ChallengesFor(n, issuer)]
    BY <2>1
  <2>3. \A n \in names : ChallengesFor(n, issuer) \in SUBSET Kind
                         /\ (n.wild => ChallengesFor(n, issuer) \subseteq {"dns"})
    BY DEF ChallengesFor, IssuanceInv
  <2>4. OrderSound'
    BY <2>1, <2>2, <2>3 DEF OrderSound, Status
  <2>5. task = NoTask
    BY <2>1 DEF IssuanceInv, TaskSound
  <2>6. IssuedRightly'
    BY <2>1 DEF IssuedRightly, NamesProven, NoLeaf
  <2>7. QED
    BY <2>1, <2>4, <2>5, <2>6 DEF IssuanceInv, TaskSound
<1>10. ASSUME NEW n \in Name, NEW k \in Kind, StartValidation(n, k) PROVE IssuanceInv'
  <2>1. /\ n \in order.names /\ k \in order.offered[n] /\ UNCHANGED <<issuer, order, leaf, now>>
        /\ task' = [kind |-> k, name |-> n, host |-> n.host, https |-> FALSE, asked |-> 0]
    BY <1>10 DEF StartValidation
  <2>2. order # NoOrder
    BY <2>1 DEF NoOrder
  <2>3. n.host \in Host
    BY DEF Name
  <2>4. TaskSound'
    BY <2>1, <2>2, <2>3 DEF TaskSound
  <2>5. OrderSound'
    BY <2>1 DEF IssuanceInv, OrderSound, NameProven
  <2>6. QED
    BY <1>l, <2>1, <2>4, <2>5 DEF IssuanceInv
<1>11. QED
  BY <1>1, <1>2, <1>3, <1>4, <1>5, <1>6, <1>7, <1>8, <1>9, <1>10 DEF IssuanceNext, Answers

-----------------------------------------------------------------------------
(* The composition *)

(***************************************************************************)
(* The accounts' and the issuance's invariants hold of every reachable     *)
(* state of the broker's store.                                            *)
(***************************************************************************)
LEMMA AccountsAlways == Spec => []AccountsInv
<1>1. Init => AccountsInv
  <2> SUFFICES ASSUME AccountsInit PROVE AccountsInv
    BY DEF Init
  <2> USE AccountAssumption DEF AccountsInit
  <2>1. NoRequest \in RequestType
    BY DEF NoRequest, RequestType
  <2>2. <<>> \in Seq(Nat)
    OBVIOUS
  <2>3. AccountsTyped
    BY <2>1, <2>2 DEF AccountsTyped, NoAccount, Nonce
  <2>4. RequestsBacked /\ OneAccountPerKey
    BY DEF RequestsBacked, OneAccountPerKey, Exists, NoRequest
  <2>5. NoncesUnspent /\ EffectOnce
    BY DEF NoncesUnspent, EffectOnce, Holds, NoRequest, Nonce
  <2>6. QED
    BY <2>3, <2>4, <2>5 DEF AccountsInv
<1>2. AccountsInv /\ [Next]_storeVars => AccountsInv'
  <2> SUFFICES ASSUME AccountsInv, [Next]_storeVars PROVE AccountsInv'
    OBVIOUS
  <2>1. CASE AccountsNext
    BY <2>1, AccountsStep
  <2>2. CASE UNCHANGED accountVars
    <3>1. AccountsTyped' /\ RequestsBacked'
      BY <2>2 DEF accountVars, AccountsInv, AccountsTyped, RequestsBacked, Exists
    <3>2. NoncesUnspent' /\ OneAccountPerKey' /\ EffectOnce'
      BY <2>2 DEF accountVars, AccountsInv, NoncesUnspent, Holds, OneAccountPerKey, EffectOnce, Exists
    <3>3. QED
      BY <3>1, <3>2 DEF AccountsInv
  <2>3. QED
    BY <2>1, <2>2 DEF Next, storeVars
<1>3. QED
  BY <1>1, <1>2, PTL DEF Spec

(***************************************************************************)
(* IssuanceInv holds throughout.                                            *)
(***************************************************************************)
LEMMA IssuanceAlways == Spec => []IssuanceInv
<1>1. Init => IssuanceInv
  BY IssuanceAssumption DEF Init, IssuanceInit, IssuanceInv, OrderSound, TaskSound, IssuedRightly,
     NamesProven, NoLeaf
<1>2. IssuanceInv /\ [Next]_storeVars => IssuanceInv'
  <2> SUFFICES ASSUME IssuanceInv, [Next]_storeVars PROVE IssuanceInv'
    OBVIOUS
  <2>1. CASE IssuanceNext
    BY <2>1, IssuanceStep
  <2>2. CASE UNCHANGED issuanceVars
    BY <2>2 DEF issuanceVars, IssuanceInv, OrderSound, TaskSound, IssuedRightly, NamesProven,
       NameProven, Permitted
  <2>3. QED
    BY <2>1, <2>2 DEF Next, storeVars
<1>3. QED
  BY <1>1, <1>2, PTL DEF Spec

(***************************************************************************)
(* No two accounts ever hold one key, whatever new accounts and key        *)
(* changes cross (create_account, change_key).                             *)
(***************************************************************************)
THEOREM KeysHaveOneAccount == Spec => []OneAccountPerKey
<1>1. AccountsInv => OneAccountPerKey
  BY DEF AccountsInv
<1>2. QED
  BY <1>1, AccountsAlways, PTL

(***************************************************************************)
(* No request takes effect twice, however often the network delivers it    *)
(* and whichever nonces are forgotten at capacity (Nonces::issue, redeem). *)
(***************************************************************************)
THEOREM RequestsTakeEffectOnce == Spec => []EffectOnce
<1>1. AccountsInv => EffectOnce
  BY DEF AccountsInv
<1>2. QED
  BY <1>1, AccountsAlways, PTL

(***************************************************************************)
(* What is issued, is issued for proven and permitted names and within the *)
(* signing subordinate's limits, for any domains, challenges, redirects    *)
(* and changes of the subordinate (finalise, validity).                    *)
(***************************************************************************)
THEOREM IssuesRightly == Spec => []IssuedRightly
<1>1. IssuanceInv => IssuedRightly
  BY DEF IssuanceInv
<1>2. QED
  BY <1>1, IssuanceAlways, PTL

-----------------------------------------------------------------------------
(* The highest number *)

(***************************************************************************)
(* A set of numbers that is not empty has a least one.                     *)
(***************************************************************************)
LEMMA LeastNumber ==
  ASSUME NEW T \in SUBSET Nat, T # {}
  PROVE  \E x \in T : \A y \in T : x <= y
<1>1. IsWellFoundedOn(OpToRel(<, Nat), Nat)
  BY NatLessThanWellFounded
<1>2. PICK x \in T : \A y \in T : ~(<<y, x>> \in OpToRel(<, Nat))
  BY <1>1, WFMin
<1>3. \A y \in T : ~(y < x)
  BY <1>2 DEF OpToRel
<1>4. QED
  BY <1>3

(***************************************************************************)
(* A finite set of numbers has an upper bound.                             *)
(***************************************************************************)
LEMMA FiniteBounded ==
  ASSUME NEW S \in SUBSET Nat, IsFiniteSet(S)
  PROVE  \E b \in Nat : \A s \in S : s <= b
<1>1. PICK n \in Nat : ExistsBijection(1..n, S)
  BY FS_CardinalityType
<1>2. PICK f \in [1..n -> S] : \A s \in S : \E i \in 1..n : f[i] = s
  BY <1>1 DEF ExistsBijection, Bijection, Injection, Surjection
<1>3. \A i \in 1..n : f[i] \in Nat
  BY <1>2
<1>4. PICK B : B = {k \in 0..n : \E b \in Nat : \A i \in 1..k : f[i] <= b}
  OBVIOUS
<1>5. PICK Bad : Bad = (0..n) \ B
  OBVIOUS
<1>N. Bad \in SUBSET Nat
  BY <1>5
<1>6. Bad = {}
  <2> SUFFICES ASSUME Bad # {} PROVE FALSE
    OBVIOUS
  <2>1. PICK k \in Bad : \A j \in Bad : k <= j
    BY <1>N, LeastNumber
  <2>2. k \in 0..n /\ k \notin B
    BY <1>5
  <2>3. 0 \in B
    BY <1>4
  <2>4. k \in Nat /\ k # 0 /\ k \in 1..n
    BY <2>2, <2>3
  <2>5. k - 1 \in 0..n /\ k - 1 \notin Bad
    BY <2>1, <2>4
  <2>6. k - 1 \in B
    BY <1>5, <2>5
  <2>7. PICK b \in Nat : \A i \in 1..k - 1 : f[i] <= b
    BY <1>4, <2>6
  <2>8. f[k] \in Nat
    BY <1>3, <2>4
  <2>9. PICK c \in Nat : b <= c /\ f[k] <= c
    <3>1. CASE b <= f[k]
      BY <2>8, <3>1
    <3>2. CASE ~(b <= f[k])
      BY <2>8, <3>2
    <3>3. QED
      BY <3>1, <3>2
  <2>10. \A i \in 1..k : f[i] \in Nat /\ (i = k \/ i \in 1..k - 1)
    BY <1>3, <2>4
  <2>11. \A i \in 1..k : f[i] <= c
    BY <2>7, <2>8, <2>9, <2>10
  <2>12. k \in B
    BY <1>4, <2>2, <2>11
  <2>13. QED
    BY <2>2, <2>12
<1>7. n \in B
  BY <1>5, <1>6
<1>8. PICK b \in Nat : \A i \in 1..n : f[i] <= b
  BY <1>4, <1>7
<1>9. QED
  BY <1>2, <1>8

(***************************************************************************)
(* Highest is a number of the set, or 0, and none is higher.               *)
(***************************************************************************)
LEMMA HighestIs ==
  ASSUME NEW S \in SUBSET Nat, IsFiniteSet(S)
  PROVE  Highest(S) \in S \cup {0} /\ Highest(S) \in Nat /\ \A k \in S : k <= Highest(S)
<1>1. PICK Up \in SUBSET Nat : Up = {b \in Nat : \A s \in S : s <= b}
  OBVIOUS
<1>2. PICK m \in Up : \A b \in Up : m <= b
  <2>1. Up # {}
    BY <1>1, FiniteBounded
  <2>2. QED
    BY <2>1, LeastNumber
<1>3. m \in S \cup {0}
  <2> SUFFICES ASSUME m \notin S, m # 0 PROVE FALSE
    OBVIOUS
  <2>1. m \in Nat /\ m - 1 \in Nat
    BY <1>1, <1>2
  <2>2. \A s \in S : s \in Nat /\ s <= m /\ s # m
    BY <1>1
  <2>3. \A s \in S : s <= m - 1
    BY <2>1, <2>2
  <2>4. QED
    <3>1. m - 1 \in Up
      BY <1>1, <2>1, <2>3
    <3>2. QED
      BY <1>2, <2>1, <3>1
<1>4. \A k \in S : k <= m
  BY <1>1
<1>5. \E n \in S \cup {0} : \A k \in S : k <= n
  BY <1>3, <1>4
<1>6. PICK h : h = CHOOSE n \in S \cup {0} : \A k \in S : k <= n
  OBVIOUS
<1>7. h \in S \cup {0} /\ \A k \in S : k <= h
  BY <1>5, <1>6
<1>8. Highest(S) = h
  BY <1>6 DEF Highest
<1>9. QED
  BY <1>7, <1>8

(***************************************************************************)
(* The higher of two numbers is not below the first.                       *)
(***************************************************************************)
LEMMA HighestOfTwo ==
  ASSUME NEW a \in Nat, NEW b \in Nat
  PROVE  Highest({a, b}) \in Nat /\ a <= Highest({a, b}) /\ b <= Highest({a, b})
<1>1. IsFiniteSet({a})
  BY FS_Singleton
<1>2. IsFiniteSet({a} \cup {b})
  BY <1>1, FS_AddElement
<1>3. {a} \cup {b} = {a, b}
  OBVIOUS
<1>4. IsFiniteSet({a, b})
  BY <1>2, <1>3
<1>5. {a, b} \in SUBSET Nat
  OBVIOUS
<1>6. QED
  BY <1>4, <1>5, HighestIs

(***************************************************************************)
(* LastChange is at least every row's change, and is one of them or 0.     *)
(***************************************************************************)
LEMMA LastChangeIs ==
  ASSUME NEW certs \in [Leaf -> Row]
  PROVE  /\ LastChange(certs) \in Nat
         /\ \A l \in Leaf : certs[l].changed <= LastChange(certs)
         /\ LastChange(certs) = 0 \/ \E l \in Leaf : certs[l].changed = LastChange(certs)
<1>1. PICK S : S = {certs[l].changed : l \in Leaf}
  OBVIOUS
<1>2. S \in SUBSET Nat
  BY <1>1 DEF Row
<1>3. PICK f : f = [l \in Leaf |-> certs[l].changed]
  OBVIOUS
<1>4. f \in Surjection(Leaf, S)
  BY <1>1, <1>3 DEF Surjection
<1>5. IsFiniteSet(S)
  BY <1>4, FS_Surjection, LedgerAssumption
<1>6. Highest(S) \in S \cup {0} /\ Highest(S) \in Nat /\ \A k \in S : k <= Highest(S)
  BY <1>2, <1>5, HighestIs
<1>7. LastChange(certs) = Highest(S)
  BY <1>1 DEF LastChange
<1>8. QED
  BY <1>1, <1>6, <1>7

(***************************************************************************)
(* No row changed after a number that none is beyond.                      *)
(***************************************************************************)
LEMMA LastChangeWithin ==
  ASSUME NEW certs \in [Leaf -> Row], NEW n \in Nat, \A l \in Leaf : certs[l].changed <= n
  PROVE  LastChange(certs) <= n
BY LastChangeIs

-----------------------------------------------------------------------------
(* opCA's cursor *)

Db == [certs : [Leaf -> Row], number : Nat]
Numbered(db) == \A l \in Leaf : db.certs[l].state = "none" <=> db.certs[l].changed = 0

LedgerTyped ==
    /\ acme \in Db /\ Numbered(acme) /\ backup \in Db /\ Numbered(backup)
    /\ rows \in [Leaf -> Row]
    /\ call \in [at : {"idle", "asked", "waiting", "answered", "page", "record"},
                 after : Nat, got : [Leaf -> Row], leaf : Leaf \cup {0}]
    /\ call.at \in {"asked", "waiting", "answered"} => call.leaf \in Leaf

\* What opCA would have of a certificate if it recorded the pages it has.
Known(l) == IF call.got[l] = NoRow THEN rows[l] ELSE call.got[l]

\* The numbers only go up: no cursor is ahead of the broker.
CursorBehind == BrokerCursor <= LastChange(acme.certs)

\* The pages so far, on top of what opCA has, are right up to where they end.
PagesSound ==
    call.at \in {"page", "record"} =>
        /\ BrokerCursor <= call.after /\ call.after <= LastChange(acme.certs)
        /\ \A l \in Leaf : /\ call.got[l].changed <= call.after
                           /\ acme.certs[l].changed \in 1..call.after => Known(l).state = acme.certs[l].state

\* What was answered to be revoked is, unless it changed past the cursor since.
AnswerSound ==
    call.at \in {"waiting", "answered"} =>
        /\ call.got[call.leaf].state = "revoked"
        /\ acme.certs[call.leaf].changed \in 1..BrokerCursor => acme.certs[call.leaf].state = "revoked"

CursorInv == LedgerTyped /\ CursorBehind /\ CursorMissesNothing /\ PagesSound /\ AnswerSound

(***************************************************************************)
(* What the broker does to acme.db, of which every certificate that        *)
(* changes takes a number past all earlier ones, keeps what opCA relies on.*)
(***************************************************************************)
LEMMA BrokerMoves ==
  ASSUME CursorInv,
         acme' \in Db, Numbered(acme)', backup' \in Db, Numbered(backup)',
         LastChange(acme.certs) <= LastChange(acme'.certs),
         \A l \in Leaf : \/ acme'.certs[l] = acme.certs[l]
                         \/ acme'.certs[l].changed = 0
                         \/ acme'.certs[l].changed > LastChange(acme.certs),
         UNCHANGED <<rows, call>>
  PROVE  CursorInv'
<1>1. LastChange(acme.certs) \in Nat /\ LastChange(acme'.certs) \in Nat /\ BrokerCursor \in Nat
  BY LastChangeIs DEF CursorInv, LedgerTyped, Db, BrokerCursor
<1>2. BrokerCursor' = BrokerCursor
  BY DEF BrokerCursor
<1>3. \A l \in Leaf : acme.certs[l].changed \in Nat /\ acme'.certs[l].changed \in Nat
  BY DEF CursorInv, LedgerTyped, Db, Row
<1>4. LedgerTyped'
  BY DEF CursorInv, LedgerTyped
<1>5. CursorBehind'
  BY <1>1, <1>2 DEF CursorInv, CursorBehind
<1>6. \A n \in Nat : n <= LastChange(acme.certs) =>
        \A l \in Leaf : acme'.certs[l].changed \in 1..n => acme'.certs[l] = acme.certs[l]
  BY <1>1, <1>3
<1>7. CursorMissesNothing'
  <2>1. \A l \in Leaf : acme'.certs[l].changed \in 1..BrokerCursor => acme'.certs[l] = acme.certs[l]
    BY <1>1, <1>6 DEF CursorInv, CursorBehind
  <2>2. QED
    BY <1>2, <2>1 DEF CursorInv, CursorMissesNothing
<1>8. PagesSound'
  <2> SUFFICES ASSUME call.at \in {"page", "record"}
               PROVE  PagesSound'
    BY DEF PagesSound
  <2>1. /\ BrokerCursor <= call.after /\ call.after <= LastChange(acme.certs) /\ call.after \in Nat
        /\ \A l \in Leaf : /\ call.got[l].changed <= call.after
                           /\ acme.certs[l].changed \in 1..call.after => Known(l).state = acme.certs[l].state
    BY DEF CursorInv, PagesSound, LedgerTyped
  <2>2. \A l \in Leaf : acme'.certs[l].changed \in 1..call.after => acme'.certs[l] = acme.certs[l]
    BY <1>6, <2>1
  <2>3. call.after <= LastChange(acme'.certs)
    BY <1>1, <2>1
  <2>4. \A l \in Leaf : Known(l)' = Known(l)
    BY DEF Known
  <2>5. QED
    BY <1>2, <2>1, <2>2, <2>3, <2>4 DEF PagesSound
<1>9. AnswerSound'
  <2> SUFFICES ASSUME call.at \in {"waiting", "answered"}
               PROVE  AnswerSound'
    BY DEF AnswerSound
  <2>1. call.leaf \in Leaf
    BY DEF CursorInv, LedgerTyped
  <2>2. acme'.certs[call.leaf].changed \in 1..BrokerCursor => acme'.certs[call.leaf] = acme.certs[call.leaf]
    BY <1>1, <1>6, <2>1 DEF CursorInv, CursorBehind
  <2>3. QED
    BY <1>2, <2>2 DEF CursorInv, AnswerSound
<1>10. QED
  BY <1>4, <1>5, <1>7, <1>8, <1>9 DEF CursorInv

(***************************************************************************)
(* A change of one certificate takes the next number.                      *)
(***************************************************************************)
LEMMA ChangedMoves ==
  ASSUME CursorInv, NEW l \in Leaf, NEW state \in {"good", "revoked"}, acme' = Changed(l, state)
  PROVE  /\ acme' \in Db /\ Numbered(acme)'
         /\ LastChange(acme.certs) <= LastChange(acme'.certs)
         /\ \A k \in Leaf : \/ acme'.certs[k] = acme.certs[k]
                            \/ acme'.certs[k].changed > LastChange(acme.certs)
         /\ acme'.certs[l].state = state /\ acme'.certs[l].changed > LastChange(acme.certs)
<1>1. PICK n \in Nat : n = LastChange(acme.certs)
  BY LastChangeIs DEF CursorInv, LedgerTyped, Db
<1>2. PICK r : r = [state |-> state, changed |-> n + 1]
  OBVIOUS
<1>3. r \in Row /\ r.state = state /\ r.changed = n + 1
  BY <1>2 DEF Row, State
<1>4. acme \in Db /\ Numbered(acme)
  BY DEF CursorInv, LedgerTyped
<1>5. acme' = [acme EXCEPT !.certs[l] = r]
  BY <1>1, <1>2 DEF Changed
<1>6. acme'.certs = [acme.certs EXCEPT ![l] = r] /\ acme' \in Db
  BY <1>3, <1>4, <1>5 DEF Db
<1>7. \A k \in Leaf : acme'.certs[k] = IF k = l THEN r ELSE acme.certs[k]
  BY <1>4, <1>6 DEF Db
<1>8. Numbered(acme)'
  <2>1. r.state # "none" /\ r.changed # 0
    BY <1>3
  <2>2. QED
    BY <1>4, <1>7, <2>1 DEF Numbered
<1>9. acme'.certs[l].changed = n + 1 /\ acme'.certs[l].changed <= LastChange(acme'.certs)
      /\ LastChange(acme'.certs) \in Nat
  BY <1>3, <1>6, <1>7, LastChangeIs DEF Db
<1>10. QED
  BY <1>1, <1>3, <1>6, <1>7, <1>8, <1>9

(***************************************************************************)
(* No certificate is recorded as none.                                     *)
(***************************************************************************)
LEMMA NoCallTyped ==
  /\ NoRow \in Row /\ NoRow.changed = 0 /\ NoRow.state = "none"
  /\ NoCall.at = "idle" /\ NoCall.after = 0 /\ NoCall.leaf = 0 /\ NoCall.got = [l \in Leaf |-> NoRow]
  /\ NoCall \in [at : {"idle", "asked", "waiting", "answered", "page", "record"},
                 after : Nat, got : [Leaf -> Row], leaf : Leaf \cup {0}]
<1>1. NoRow \in Row /\ NoRow.changed = 0 /\ NoRow.state = "none"
  BY DEF NoRow, Row, State
<1>2. QED
  BY <1>1 DEF NoCall

(***************************************************************************)
(* opCA's call ends, or goes on to the answer it waits for.                *)
(***************************************************************************)
LEMMA CallSettles ==
  ASSUME CursorInv, UNCHANGED <<acme, backup, rows>>,
         \/ call' = call
         \/ call' = NoCall
         \/ call.at = "waiting" /\ call' = [call EXCEPT !.at = "answered"]
  PROVE  CursorInv'
<1>1. CASE call' = call
  BY <1>1 DEF CursorInv, LedgerTyped, CursorBehind, CursorMissesNothing, PagesSound, AnswerSound,
              Numbered, BrokerCursor, Known
<1>2. CASE call' = NoCall
  <2>1. call'.at = "idle"
    BY <1>2, NoCallTyped
  <2>2. LedgerTyped'
    BY <1>2, <2>1, NoCallTyped DEF CursorInv, LedgerTyped, Numbered
  <2>3. QED
    BY <2>1, <2>2 DEF CursorInv, CursorBehind, CursorMissesNothing, PagesSound, AnswerSound, BrokerCursor
<1>3. CASE call.at = "waiting" /\ call' = [call EXCEPT !.at = "answered"]
  <2>1. call'.at = "answered" /\ call'.got = call.got /\ call'.leaf = call.leaf
    BY <1>3 DEF CursorInv, LedgerTyped
  <2>2. LedgerTyped'
    BY <1>3, <2>1 DEF CursorInv, LedgerTyped, Numbered
  <2>3. QED
    BY <1>3, <2>1, <2>2 DEF CursorInv, CursorBehind, CursorMissesNothing, PagesSound, AnswerSound, BrokerCursor
<1>4. QED
  BY <1>1, <1>2, <1>3

(***************************************************************************)
(* The steps of the broker that take no part in opCA's calls.              *)
(***************************************************************************)
LEMMA BrokerKeepsCursor ==
  ASSUME CursorInv,
         \/ KeeperLooks \/ KeeperSigns \/ RevokingSigns \/ Ages \/ Capture \/ Restart \/ CallFails
         \/ \E w \in Signer : NextCrlNumber(w) \/ SignCrl(w) \/ SignFails(w)
         \/ \E x \in late : WrittenLate(x)
         \/ \E l \in Leaf : RecordCertificate(l) \/ Revoke(l)
  PROVE  CursorInv'
<1>t. acme \in Db /\ Numbered(acme) /\ backup \in Db /\ Numbered(backup) /\ LastChange(acme.certs) \in Nat
  BY LastChangeIs DEF CursorInv, LedgerTyped, Db
<1>1. CASE KeeperLooks \/ KeeperSigns \/ RevokingSigns \/ Ages
  BY <1>1, CallSettles DEF KeeperLooks, KeeperSigns, RevokingSigns, Ages
<1>2. CASE Capture
  <2>1. UNCHANGED <<acme, rows, call>> /\ backup' = acme
    BY <1>2 DEF Capture
  <2>2. Numbered(acme)' /\ Numbered(backup)'
    BY <1>t, <2>1 DEF Numbered
  <2>3. QED
    BY <1>t, <2>1, <2>2, BrokerMoves
<1>3. CASE Restart
  BY <1>3, CallSettles DEF Restart
<1>4. CASE CallFails
  BY <1>4, CallSettles DEF CallFails, broker
<1>5. CASE \E w \in Signer : NextCrlNumber(w)
  <2>1. UNCHANGED <<backup, rows, call>> /\ acme' = [acme EXCEPT !.number = @ + 1]
    BY <1>5 DEF NextCrlNumber
  <2>2. acme'.certs = acme.certs /\ acme' \in Db
    BY <1>t, <2>1 DEF Db
  <2>3. Numbered(acme)' /\ Numbered(backup)'
    BY <1>t, <2>1, <2>2 DEF Numbered
  <2>4. QED
    BY <1>t, <2>1, <2>2, <2>3, BrokerMoves
<1>6. CASE \E w \in Signer : SignCrl(w) \/ SignFails(w)
  BY <1>6, CallSettles DEF SignCrl, SignFails, SignEnds
<1>9. CASE \E x \in late : WrittenLate(x)
  BY <1>9, CallSettles DEF WrittenLate
<1>7. CASE \E l \in Leaf : RecordCertificate(l) \/ Revoke(l)
  <2>1. PICK l \in Leaf, state \in {"good", "revoked"} :
          acme' = Changed(l, state) /\ UNCHANGED <<backup, rows, call>>
    BY <1>7 DEF RecordCertificate, Revoke
  <2>2. Numbered(backup)'
    BY <1>t, <2>1 DEF Numbered
  <2>3. /\ acme' \in Db /\ Numbered(acme)'
        /\ LastChange(acme.certs) <= LastChange(acme'.certs)
        /\ \A k \in Leaf : \/ acme'.certs[k] = acme.certs[k]
                           \/ acme'.certs[k].changed > LastChange(acme.certs)
    BY <2>1, ChangedMoves
  <2>4. QED
    BY <1>t, <2>1, <2>2, <2>3, BrokerMoves
<1>8. QED
  BY <1>1, <1>2, <1>3, <1>4, <1>5, <1>6, <1>7, <1>9

(***************************************************************************)
(* A restore of a backup that has a certificate moves every certificate    *)
(* past the changes of both databases.                                     *)
(***************************************************************************)
LEMMA RestoreKeepsCursor ==
  ASSUME CursorInv, ReplaceFrom, ~EmptyBackup
  PROVE  CursorInv'
<1>1. acme \in Db /\ Numbered(acme) /\ backup \in Db /\ Numbered(backup)
  BY DEF CursorInv, LedgerTyped
<1>2. PICK n \in Nat : n = LastChange(acme.certs)
  BY <1>1, LastChangeIs DEF Db
<1>3. PICK m \in Nat : m = LastChange(backup.certs) /\ m > 0
  BY <1>1, LastChangeIs DEF Db, ReplaceFrom
<1>4. PICK past \in Nat : past = Highest({n, m}) /\ n <= past
  BY HighestOfTwo
<1>5. PICK top \in Nat : top = Highest({acme.number, backup.number})
  <2>1. acme.number \in Nat /\ backup.number \in Nat
    BY <1>1 DEF Db
  <2>2. QED
    BY <2>1, HighestOfTwo
<1>6. PICK certs : certs = [l \in Leaf |-> IF backup.certs[l] = NoRow THEN NoRow
                                           ELSE [backup.certs[l] EXCEPT !.changed = @ + past]]
  OBVIOUS
<1>7. acme' = [certs |-> certs, number |-> top] /\ UNCHANGED <<backup, rows, call>>
  BY <1>2, <1>3, <1>4, <1>5, <1>6 DEF ReplaceFrom, Restored
<1>8. \A l \in Leaf : backup.certs[l] \in Row /\ (backup.certs[l].changed = 0 => backup.certs[l] = NoRow)
  <2>1. \A l \in Leaf : backup.certs[l] \in Row
                        /\ (backup.certs[l].changed = 0 => backup.certs[l].state = "none")
    BY <1>1 DEF Db, Numbered
  <2>2. \A r \in Row : r.changed = 0 /\ r.state = "none" => r = NoRow
    BY DEF Row, NoRow
  <2>3. QED
    BY <2>1, <2>2
<1>9. \A l \in Leaf : /\ certs[l] \in Row
                      /\ certs[l].state = backup.certs[l].state
                      /\ certs[l].changed = IF backup.certs[l].changed = 0 THEN 0
                                            ELSE backup.certs[l].changed + past
  <2> TAKE l \in Leaf
  <2>1. PICK r \in Row : r = backup.certs[l] /\ (r.changed = 0 => r = NoRow)
    BY <1>8
  <2>2. r.changed \in Nat
    BY DEF Row
  <2>3. CASE r = NoRow
    BY <1>6, <2>1, <2>3, NoCallTyped
  <2>4. CASE r # NoRow
    <3>1. certs[l] = [r EXCEPT !.changed = r.changed + past]
      BY <1>6, <2>1, <2>4
    <3>2. certs[l] \in Row /\ certs[l].state = r.state /\ certs[l].changed = r.changed + past
      BY <2>2, <3>1 DEF Row
    <3>3. QED
      BY <2>1, <2>4, <3>2
  <2>5. QED
    BY <2>3, <2>4
<1>10. acme'.certs = certs /\ certs \in [Leaf -> Row] /\ acme' \in Db
  BY <1>6, <1>7, <1>9 DEF Db
<1>11. \A l \in Leaf : backup.certs[l].changed \in Nat
  BY <1>8 DEF Row
<1>12. Numbered(acme)' /\ Numbered(backup)'
  <2>1. \A l \in Leaf : backup.certs[l].state = "none" <=> backup.certs[l].changed = 0
    BY <1>1 DEF Numbered
  <2>2. \A l \in Leaf : backup.certs[l].changed = 0 <=> certs[l].changed = 0
    BY <1>9, <1>11
  <2>3. \A l \in Leaf : certs[l].state = "none" <=> certs[l].changed = 0
    BY <1>9, <2>1, <2>2
  <2>4. QED
    BY <1>1, <1>7, <1>10, <2>3 DEF Numbered
<1>13. \A l \in Leaf : certs[l].changed = 0 \/ certs[l].changed > n
  <2>1. \A c \in Nat : c # 0 => c + past > n
    BY <1>4
  <2>2. QED
    BY <1>9, <1>11, <2>1
<1>14. n <= LastChange(certs)
  <2>1. PICK l \in Leaf : backup.certs[l].changed = m
    BY <1>1, <1>3, LastChangeIs DEF Db
  <2>2. certs[l].changed = m + past
    BY <1>3, <1>9, <2>1
  <2>3. certs[l].changed <= LastChange(certs) /\ LastChange(certs) \in Nat
    BY <1>10, LastChangeIs
  <2>4. QED
    BY <1>4, <2>2, <2>3
<1>15. backup' \in Db
  BY <1>1, <1>7
<1>16. /\ LastChange(acme.certs) <= LastChange(acme'.certs)
       /\ \A l \in Leaf : acme'.certs[l].changed = 0 \/ acme'.certs[l].changed > LastChange(acme.certs)
  BY <1>2, <1>10, <1>13, <1>14
<1>17. acme' \in Db /\ UNCHANGED <<rows, call>>
  BY <1>7, <1>10
<1>18. QED
  BY <1>12, <1>15, <1>16, <1>17, BrokerMoves

(***************************************************************************)
(* A page ends where it ends: every certificate that changed after the     *)
(* last one and up to there is in it.                                      *)
(***************************************************************************)
LEMMA PageWhole ==
  ASSUME acme \in Db, NEW after \in Nat, after <= LastChange(acme.certs)
  PROVE  /\ IssuedPage(after).next \in Nat
         /\ after <= IssuedPage(after).next /\ IssuedPage(after).next <= LastChange(acme.certs)
         /\ \A l \in Leaf : acme.certs[l].changed \in after + 1 .. IssuedPage(after).next
                              => l \in IssuedPage(after).certs
         /\ \A l \in IssuedPage(after).certs : /\ l \in Leaf /\ acme.certs[l].changed > after
                                               /\ acme.certs[l].changed <= IssuedPage(after).next
<1>1. PICK c : c = [l \in Leaf |-> acme.certs[l].changed]
  OBVIOUS
<1>2. \A l \in Leaf : c[l] \in Nat /\ c[l] = acme.certs[l].changed /\ c[l] <= LastChange(acme.certs)
  BY <1>1, LastChangeIs DEF Db, Row
<1>3. PICK page : page = ChangedAfter(after)
  OBVIOUS
<1>4. page = {l \in Leaf : /\ c[l] > after
                           /\ Cardinality({k \in Leaf : c[k] \in after + 1 .. c[l]}) <= Page}
  BY <1>2, <1>3 DEF ChangedAfter
<1>5. PICK S : S = {acme.certs[l].changed : l \in page} \cup {after}
  OBVIOUS
<1>6. S \in SUBSET Nat /\ IsFiniteSet(S) /\ (\A l \in page : c[l] \in S) /\ after \in S
      /\ \A s \in S : s = after \/ \E l \in page : s = c[l]
  <2>1. S = {c[l] : l \in page} \cup {after} /\ page \in SUBSET Leaf
    BY <1>2, <1>4, <1>5
  <2>2. IsFiniteSet(page)
    BY <2>1, FS_Subset, LedgerAssumption
  <2>3. PICK f : f = [l \in page |-> c[l]]
    OBVIOUS
  <2>4. f \in Surjection(page, {c[l] : l \in page})
    BY <2>3 DEF Surjection
  <2>5. IsFiniteSet({c[l] : l \in page})
    BY <2>2, <2>4, FS_Surjection
  <2>6. IsFiniteSet({c[l] : l \in page} \cup {after})
    BY <2>5, FS_AddElement
  <2>7. QED
    BY <1>2, <2>1, <2>6
<1>7. PICK next \in Nat : next = Highest(S) /\ next \in S \cup {0} /\ \A s \in S : s <= next
  BY <1>6, HighestIs
<1>8. IssuedPage(after).certs = page /\ IssuedPage(after).next = next
  BY <1>3, <1>5, <1>7 DEF IssuedPage
<1>9. after <= next /\ next <= LastChange(acme.certs)
  <2>1. next \in S
    BY <1>6, <1>7
  <2>2. QED
    BY <1>2, <1>4, <1>6, <1>7, <2>1
<1>10. ASSUME NEW l \in Leaf, c[l] \in after + 1 .. next PROVE l \in page
  <2>1. PICK k \in page : next = c[k]
    BY <1>6, <1>7, <1>10
  <2>2. k \in Leaf /\ c[k] \in Nat /\ c[l] \in Nat /\ c[l] <= c[k] /\ c[l] > after
    BY <1>2, <1>4, <1>10, <2>1
  <2>3. PICK A : A = {j \in Leaf : c[j] \in after + 1 .. c[l]}
    OBVIOUS
  <2>4. PICK B : B = {j \in Leaf : c[j] \in after + 1 .. c[k]}
    OBVIOUS
  <2>5. A \in SUBSET B /\ A \in SUBSET Leaf /\ B \in SUBSET Leaf
    BY <2>2, <2>3, <2>4
  <2>6. IsFiniteSet(B) /\ IsFiniteSet(A)
    BY <2>5, FS_Subset, LedgerAssumption
  <2>7. Cardinality(A) <= Cardinality(B) /\ Cardinality(A) \in Nat /\ Cardinality(B) \in Nat
    BY <2>5, <2>6, FS_Subset, FS_CardinalityType
  <2>8. Cardinality(B) <= Page
    BY <1>4, <2>1, <2>4
  <2>9. Cardinality(A) <= Page
    BY <2>7, <2>8, LedgerAssumption
  <2>10. QED
    BY <1>4, <2>2, <2>3, <2>9
<1>11. \A l \in page : l \in Leaf /\ c[l] > after /\ c[l] <= next
  BY <1>4, <1>6, <1>7
<1>12. QED
  BY <1>2, <1>8, <1>9, <1>10, <1>11

(***************************************************************************)
(* A page more keeps the pages right up to where they end.                 *)
(***************************************************************************)
LEMMA PageKeepsCursor ==
  ASSUME CursorInv, IssuedSince
  PROVE  CursorInv'
<1>1. /\ acme \in Db /\ rows \in [Leaf -> Row] /\ call.got \in [Leaf -> Row] /\ call.after \in Nat
      /\ call.at = "page" /\ UNCHANGED <<acme, backup, rows>>
      /\ LastChange(acme.certs) \in Nat /\ BrokerCursor \in Nat
  BY LastChangeIs DEF CursorInv, LedgerTyped, IssuedSince, broker, Db, BrokerCursor
<1>2. /\ BrokerCursor <= call.after /\ call.after <= LastChange(acme.certs)
      /\ \A l \in Leaf : /\ call.got[l].changed <= call.after
                         /\ acme.certs[l].changed \in 1..call.after => Known(l).state = acme.certs[l].state
  BY <1>1 DEF CursorInv, PagesSound
<1>3. PICK page : page = IssuedPage(call.after)
  OBVIOUS
<1>4. PICK next \in Nat : next = page.next
  BY <1>1, <1>2, <1>3, PageWhole
<1>5. PICK certs : certs = page.certs
  OBVIOUS
<1>6. /\ call.after <= next /\ next <= LastChange(acme.certs)
      /\ \A l \in Leaf : acme.certs[l].changed \in call.after + 1 .. next => l \in certs
      /\ \A l \in certs : l \in Leaf /\ acme.certs[l].changed > call.after /\ acme.certs[l].changed <= next
  BY <1>1, <1>2, <1>3, <1>4, <1>5, PageWhole
<1>7. PICK at \in {"page", "record"} : at = IF page.more THEN "page" ELSE "record"
  OBVIOUS
<1>8. PICK got : got = [l \in Leaf |-> IF l \in certs THEN acme.certs[l] ELSE call.got[l]]
  OBVIOUS
<1>9. call' = [call EXCEPT !.got = got, !.after = next, !.at = at]
  BY <1>3, <1>4, <1>5, <1>7, <1>8 DEF IssuedSince
<1>10. got \in [Leaf -> Row]
  BY <1>1, <1>8 DEF Db
<1>11. call'.got = got /\ call'.after = next /\ call'.at = at /\ call'.leaf = call.leaf
  BY <1>9 DEF CursorInv, LedgerTyped
<1>12. LedgerTyped'
  <2>1. call' \in [at : {"idle", "asked", "waiting", "answered", "page", "record"},
                   after : Nat, got : [Leaf -> Row], leaf : Leaf \cup {0}]
    BY <1>9, <1>10 DEF CursorInv, LedgerTyped
  <2>2. call'.at \notin {"asked", "waiting", "answered"}
    BY <1>11
  <2>3. QED
    BY <1>1, <2>1, <2>2 DEF CursorInv, LedgerTyped, Numbered
<1>13. CursorBehind' /\ CursorMissesNothing' /\ BrokerCursor' = BrokerCursor
  BY <1>1 DEF CursorInv, CursorBehind, CursorMissesNothing, BrokerCursor
<1>14. AnswerSound'
  BY <1>11 DEF AnswerSound
<1>15. PagesSound'
  <2>1. BrokerCursor <= next
    BY <1>1, <1>2, <1>6
  <2>2. ASSUME NEW l \in Leaf
        PROVE  /\ got[l].changed <= next
               /\ acme.certs[l].changed \in 1..next =>
                    (IF got[l] = NoRow THEN rows[l] ELSE got[l]).state = acme.certs[l].state
    <3>1. PICK n \in Nat : n = acme.certs[l].changed
      BY <1>1 DEF Db, Row
    <3>2. CASE l \in certs
      <4>1. got[l] = acme.certs[l] /\ n > call.after /\ n <= next
        BY <1>6, <1>8, <3>1, <3>2
      <4>2. got[l] # NoRow
        BY <1>1, <3>1, <4>1, NoCallTyped
      <4>3. QED
        BY <3>1, <4>1, <4>2
    <3>3. CASE l \notin certs
      <4>1. got[l] = call.got[l]
        BY <1>8, <3>3
      <4>2. ~(n \in call.after + 1 .. next)
        BY <1>6, <3>1, <3>3
      <4>3. n \in 1..next => n \in 1..call.after
        BY <1>1, <3>1, <4>2
      <4>4. n \in 1..next => Known(l).state = acme.certs[l].state
        BY <1>2, <3>1, <4>3
      <4>5. call.got[l].changed <= call.after /\ call.got[l].changed \in Nat
        BY <1>1, <1>2 DEF Row
      <4>6. call.got[l].changed <= next
        BY <1>1, <1>6, <4>5
      <4>7. QED
        BY <3>1, <4>1, <4>4, <4>6 DEF Known
    <3>4. QED
      BY <3>2, <3>3
  <2>3. QED
    BY <1>1, <1>6, <1>11, <1>13, <2>1, <2>2 DEF PagesSound, Known
<1>16. QED
  BY <1>12, <1>13, <1>14, <1>15 DEF CursorInv

(***************************************************************************)
(* A call that starts to read pages has read none.                         *)
(***************************************************************************)
LEMMA PagesStart ==
  ASSUME LedgerTyped, CursorBehind', CursorMissesNothing', UNCHANGED <<acme, backup>>,
         rows' \in [Leaf -> Row],
         call' = [NoCall EXCEPT !.at = "page", !.after = LastChange(rows')]
  PROVE  CursorInv'
<1>1. PICK n \in Nat : n = LastChange(rows')
  BY LastChangeIs
<1>2. call'.at = "page" /\ call'.after = n /\ call'.got = [l \in Leaf |-> NoRow]
  BY <1>1, NoCallTyped
<1>3. call' \in [at : {"idle", "asked", "waiting", "answered", "page", "record"},
                 after : Nat, got : [Leaf -> Row], leaf : Leaf \cup {0}]
  BY <1>1, NoCallTyped
<1>4. LedgerTyped'
  BY <1>2, <1>3 DEF LedgerTyped, Numbered
<1>5. BrokerCursor' = n
  BY <1>1 DEF BrokerCursor
<1>6. \A l \in Leaf : call'.got[l].changed <= n /\ Known(l)' = rows'[l]
  BY <1>1, <1>2, NoCallTyped DEF Known
<1>7. PagesSound'
  BY <1>1, <1>2, <1>5, <1>6 DEF PagesSound, CursorBehind, CursorMissesNothing
<1>8. AnswerSound'
  BY <1>2 DEF AnswerSound
<1>9. QED
  BY <1>4, <1>7, <1>8 DEF CursorInv

(***************************************************************************)
(* What opCA records moves its cursor no further than what it knows.       *)
(***************************************************************************)
LEMMA RecordKeepsCursor ==
  ASSUME CursorInv, RecordIssued
  PROVE  CursorInv'
<1>1. /\ acme \in Db /\ rows \in [Leaf -> Row] /\ call.got \in [Leaf -> Row] /\ call.after \in Nat
      /\ call.at = "record" /\ UNCHANGED <<acme, backup>> /\ call' = NoCall
      /\ LastChange(acme.certs) \in Nat /\ BrokerCursor \in Nat
  BY LastChangeIs DEF CursorInv, LedgerTyped, RecordIssued, broker, Db, BrokerCursor
<1>2. /\ BrokerCursor <= call.after /\ call.after <= LastChange(acme.certs)
      /\ \A l \in Leaf : /\ call.got[l].changed <= call.after
                         /\ acme.certs[l].changed \in 1..call.after => Known(l).state = acme.certs[l].state
  BY <1>1 DEF CursorInv, PagesSound
<1>3. rows' = [l \in Leaf |-> Known(l)]
  BY DEF RecordIssued, Known
<1>4. rows' \in [Leaf -> Row]
  BY <1>1, <1>3 DEF Known
<1>5. \A l \in Leaf : rows'[l].changed <= call.after
  <2> TAKE l \in Leaf
  <2>1. rows[l].changed <= BrokerCursor /\ rows[l].changed \in Nat
    BY <1>1, LastChangeIs DEF BrokerCursor, Row
  <2>2. rows[l].changed <= call.after
    BY <1>1, <1>2, <2>1
  <2>3. QED
    BY <1>2, <1>3, <2>2 DEF Known
<1>6. PICK n \in Nat : n = LastChange(rows') /\ n <= call.after
  BY <1>1, <1>4, <1>5, LastChangeIs, LastChangeWithin
<1>7. BrokerCursor' = n
  BY <1>6 DEF BrokerCursor
<1>8. CursorBehind'
  BY <1>1, <1>2, <1>6, <1>7 DEF CursorBehind
<1>9. CursorMissesNothing'
  <2>1. \A l \in Leaf : acme.certs[l].changed \in 1..n => acme.certs[l].changed \in 1..call.after
    BY <1>1, <1>6
  <2>2. QED
    BY <1>1, <1>2, <1>3, <1>7, <2>1 DEF CursorMissesNothing
<1>10. LedgerTyped'
  BY <1>1, <1>4, NoCallTyped DEF CursorInv, LedgerTyped, Numbered
<1>11. PagesSound' /\ AnswerSound'
  BY <1>1, NoCallTyped DEF PagesSound, AnswerSound
<1>12. QED
  BY <1>8, <1>9, <1>10, <1>11 DEF CursorInv

(***************************************************************************)
(* A revocation for opCA: what is answered is revoked.                     *)
(***************************************************************************)
LEMMA RevokeKeepsCursor ==
  ASSUME CursorInv, RevokeLeaf
  PROVE  CursorInv'
<1>1. /\ acme \in Db /\ Numbered(acme) /\ backup \in Db /\ Numbered(backup) /\ rows \in [Leaf -> Row]
      /\ call.got \in [Leaf -> Row] /\ call.at = "asked" /\ UNCHANGED <<backup, rows>>
      /\ LastChange(acme.certs) \in Nat /\ BrokerCursor \in Nat /\ BrokerCursor' = BrokerCursor
  BY LastChangeIs DEF CursorInv, LedgerTyped, RevokeLeaf, Db, BrokerCursor
<1>2. PICK l \in Leaf : l = call.leaf
  BY <1>1 DEF CursorInv, LedgerTyped
<1>3. Numbered(backup)' /\ backup' \in Db
  BY <1>1 DEF Numbered
<1>4. CASE acme.certs[l].state = "good"
  <2>1. /\ acme' = Changed(l, "revoked")
        /\ call' = [call EXCEPT !.at = "waiting", !.got[l] = acme'.certs[l]]
    BY <1>2, <1>4 DEF RevokeLeaf
  <2>2. PICK r : r = acme'.certs[l]
    OBVIOUS
  <2>3. /\ acme' \in Db /\ Numbered(acme)'
        /\ LastChange(acme.certs) <= LastChange(acme'.certs)
        /\ \A k \in Leaf : \/ acme'.certs[k] = acme.certs[k]
                           \/ acme'.certs[k].changed > LastChange(acme.certs)
        /\ r.state = "revoked" /\ r.changed > LastChange(acme.certs)
    BY <2>1, <2>2, ChangedMoves
  <2>4. r \in Row /\ r.changed \in Nat
    BY <2>2, <2>3 DEF Db, Row
  <2>5. call' = [call EXCEPT !.at = "waiting", !.got[l] = r]
    BY <2>1, <2>2
  <2>6. call'.at = "waiting" /\ call'.leaf = l /\ call'.got[l] = r
    BY <1>1, <1>2, <2>5 DEF CursorInv, LedgerTyped
  <2>7. call' \in [at : {"idle", "asked", "waiting", "answered", "page", "record"},
                   after : Nat, got : [Leaf -> Row], leaf : Leaf \cup {0}]
    <3>1. [call.got EXCEPT ![l] = r] \in [Leaf -> Row]
      BY <1>1, <2>4
    <3>2. PICK g \in [Leaf -> Row] : g = [call.got EXCEPT ![l] = r]
      BY <3>1
    <3>3. call' = [call EXCEPT !.at = "waiting", !.got = g]
      BY <2>5, <3>2
    <3>4. QED
      BY <3>3 DEF CursorInv, LedgerTyped
  <2>8. LedgerTyped'
    BY <1>1, <1>2, <1>3, <2>3, <2>6, <2>7 DEF LedgerTyped
  <2>9. LastChange(acme'.certs) \in Nat
    BY <2>3, LastChangeIs DEF Db
  <2>10. CursorBehind'
    BY <1>1, <2>3, <2>9 DEF CursorInv, CursorBehind
  <2>11. \A k \in Leaf : acme'.certs[k].changed \in 1..BrokerCursor => acme'.certs[k] = acme.certs[k]
    <3>1. BrokerCursor <= LastChange(acme.certs)
      BY DEF CursorInv, CursorBehind
    <3>2. \A k \in Leaf : acme'.certs[k].changed \in Nat
      BY <2>3 DEF Db, Row
    <3>3. QED
      BY <1>1, <2>3, <3>1, <3>2
  <2>12. CursorMissesNothing'
    BY <1>1, <2>11 DEF CursorInv, CursorMissesNothing
  <2>13. PagesSound' /\ AnswerSound'
    BY <2>2, <2>3, <2>6 DEF PagesSound, AnswerSound
  <2>14. QED
    BY <2>8, <2>10, <2>12, <2>13 DEF CursorInv
<1>5. CASE acme.certs[l].state = "revoked"
  <2>1. acme' = acme /\ call' = [call EXCEPT !.at = "answered", !.got[l] = acme.certs[l]]
    BY <1>2, <1>5 DEF RevokeLeaf
  <2>2. PICK g \in [Leaf -> Row] : g = [call.got EXCEPT ![l] = acme.certs[l]]
    BY <1>1 DEF Db
  <2>3. call' = [call EXCEPT !.at = "answered", !.got = g]
    BY <2>1, <2>2
  <2>4. call'.at = "answered" /\ call'.leaf = l /\ call'.got[l] = acme.certs[l]
    BY <1>1, <1>2, <2>2, <2>3 DEF CursorInv, LedgerTyped
  <2>5. LedgerTyped'
    BY <1>2, <1>3, <2>1, <2>3, <2>4 DEF CursorInv, LedgerTyped, RevokeLeaf, Numbered
  <2>6. CursorBehind' /\ CursorMissesNothing'
    BY <1>1, <2>1 DEF CursorInv, CursorBehind, CursorMissesNothing
  <2>7. PagesSound' /\ AnswerSound'
    BY <1>5, <2>1, <2>4 DEF PagesSound, AnswerSound
  <2>8. QED
    BY <2>5, <2>6, <2>7 DEF CursorInv
<1>6. CASE acme.certs[l].state = "none"
  BY <1>1, <1>2, <1>6, CallSettles DEF RevokeLeaf
<1>7. QED
  BY <1>2, <1>4, <1>5, <1>6 DEF RevokeLeaf

(***************************************************************************)
(* A revoked certificate is recorded up to the cursor and no further.      *)
(***************************************************************************)
LEMMA RecordRevokedKeepsCursor ==
  ASSUME CursorInv, RecordRevoked
  PROVE  CursorInv'
<1>1. /\ acme \in Db /\ rows \in [Leaf -> Row] /\ call.got \in [Leaf -> Row]
      /\ call.at = "answered" /\ UNCHANGED <<acme, backup>>
      /\ LastChange(acme.certs) \in Nat /\ BrokerCursor \in Nat
  BY LastChangeIs DEF CursorInv, LedgerTyped, RecordRevoked, broker, Db, BrokerCursor
<1>2. PICK l \in Leaf : l = call.leaf
  BY <1>1 DEF CursorInv, LedgerTyped
<1>3. PICK r \in Row : r = call.got[l]
  BY <1>1
<1>4. r.changed \in Nat /\ r.state = "revoked"
  BY <1>1, <1>2, <1>3 DEF Row, CursorInv, AnswerSound
<1>5. PICK n \in Nat : n = UpToCursor(r.changed) /\ n <= BrokerCursor
  BY <1>1, <1>4 DEF UpToCursor
<1>6. rows' = [rows EXCEPT ![l] = [r EXCEPT !.changed = n]]
  BY <1>2, <1>3, <1>5 DEF RecordRevoked
<1>7. PICK s \in Row : s = [r EXCEPT !.changed = n] /\ s.changed = n /\ s.state = "revoked"
  <2>1. \A q \in Row : [q EXCEPT !.changed = n] \in Row /\ [q EXCEPT !.changed = n].changed = n
                        /\ [q EXCEPT !.changed = n].state = q.state
    BY DEF Row
  <2>2. QED
    BY <1>4, <2>1
<1>8. rows' \in [Leaf -> Row] /\ \A k \in Leaf : rows'[k] = IF k = l THEN s ELSE rows[k]
  BY <1>1, <1>6, <1>7
<1>9. \A k \in Leaf : rows'[k].changed <= BrokerCursor
  BY <1>1, <1>5, <1>7, <1>8, LastChangeIs DEF BrokerCursor
<1>10. PICK c \in Nat : c = LastChange(rows') /\ c <= BrokerCursor
  BY <1>1, <1>8, <1>9, LastChangeIs, LastChangeWithin
<1>11. BrokerCursor' = c
  BY <1>10 DEF BrokerCursor
<1>12. CursorBehind'
  BY <1>1, <1>10, <1>11 DEF CursorInv, CursorBehind
<1>13. CursorMissesNothing'
  <2>1. \A k \in Leaf : acme.certs[k].changed \in 1..c => acme.certs[k].changed \in 1..BrokerCursor
    BY <1>1, <1>10
  <2>2. acme.certs[l].changed \in 1..BrokerCursor => acme.certs[l].state = "revoked"
    BY <1>1, <1>2 DEF CursorInv, AnswerSound
  <2>3. QED
    BY <1>1, <1>7, <1>8, <1>11, <2>1, <2>2 DEF CursorInv, CursorMissesNothing
<1>14. LedgerTyped /\ call' = [NoCall EXCEPT !.at = "page", !.after = LastChange(rows')]
  BY DEF CursorInv, RecordRevoked
<1>15. QED
  BY <1>1, <1>8, <1>12, <1>13, <1>14, PagesStart

(***************************************************************************)
(* The invariant holds at the start.                                       *)
(***************************************************************************)
LEMMA CursorStarts == Init => CursorInv
<1> SUFFICES ASSUME Init PROVE CursorInv
  OBVIOUS
<1>1. PICK S \in SUBSET Leaf : LedgerInit(S)
  BY DEF Init
<1>2. PICK certs : certs = [l \in Leaf |-> IF l \in S THEN [state |-> "good", changed |-> l] ELSE NoRow]
  OBVIOUS
<1>3. acme = [certs |-> certs, number |-> 0] /\ backup = acme /\ rows = [l \in Leaf |-> NoRow] /\ call = NoCall
  BY <1>1, <1>2 DEF LedgerInit
<1>4. \A l \in Leaf : certs[l] \in Row /\ (certs[l].state = "none" <=> certs[l].changed = 0)
  BY <1>2, NoCallTyped, LedgerAssumption DEF Row, State
<1>5. acme \in Db /\ acme.certs = certs
  BY <1>2, <1>3, <1>4 DEF Db
<1>6. Numbered(acme) /\ Numbered(backup)
  BY <1>3, <1>4, <1>5 DEF Numbered
<1>7. rows \in [Leaf -> Row] /\ \A l \in Leaf : rows[l].changed = 0
  BY <1>3, NoCallTyped
<1>8. BrokerCursor = 0
  BY <1>7, LastChangeIs, LastChangeWithin DEF BrokerCursor
<1>9. LedgerTyped
  BY <1>3, <1>5, <1>6, <1>7, NoCallTyped DEF LedgerTyped
<1>10. LastChange(acme.certs) \in Nat
  BY <1>5, LastChangeIs DEF Db
<1>11. CursorBehind /\ CursorMissesNothing /\ PagesSound /\ AnswerSound
  BY <1>3, <1>8, <1>10, NoCallTyped DEF CursorBehind, CursorMissesNothing, PagesSound, AnswerSound
<1>12. QED
  BY <1>9, <1>11 DEF CursorInv

(***************************************************************************)
(* Every step keeps the invariant, when no backup is of a broker that had  *)
(* issued nothing.                                                         *)
(***************************************************************************)
LEMMA CursorStep ==
  ASSUME ~EmptyBackup, CursorInv, [Next]_storeVars
  PROVE  CursorInv'
<1>1. CASE LedgerNext
  <2>1. CASE StartSync
    <3>1. UNCHANGED <<acme, backup, rows>> /\ call' = [NoCall EXCEPT !.at = "page", !.after = LastChange(rows')]
      BY <2>1 DEF StartSync, broker, BrokerCursor
    <3>2. CursorBehind' /\ CursorMissesNothing' /\ LedgerTyped /\ rows' \in [Leaf -> Row]
      BY <3>1 DEF CursorInv, CursorBehind, CursorMissesNothing, LedgerTyped, BrokerCursor
    <3>3. QED
      BY <3>1, <3>2, PagesStart
  <2>2. CASE \E l \in Leaf : RevokeBrokerCert(l)
    <3>1. PICK l \in Leaf : /\ call' = [NoCall EXCEPT !.at = "asked", !.leaf = l]
                            /\ UNCHANGED <<acme, backup, rows>>
      BY <2>2 DEF RevokeBrokerCert, broker
    <3>2. call'.at = "asked" /\ call'.leaf = l
      BY <3>1, NoCallTyped
    <3>3. LedgerTyped'
      BY <3>1, <3>2, NoCallTyped DEF CursorInv, LedgerTyped, Numbered
    <3>4. QED
      BY <3>1, <3>2, <3>3 DEF CursorInv, CursorBehind, CursorMissesNothing, PagesSound, AnswerSound, BrokerCursor
  <2>3. QED
    BY <1>1, <2>1, <2>2, BrokerKeepsCursor, RestoreKeepsCursor, PageKeepsCursor, RecordKeepsCursor,
       RevokeKeepsCursor, RecordRevokedKeepsCursor
       DEF LedgerNext, SharedNext, CrlNext, SyncNext
<1>2. CASE UNCHANGED ledgerVars
  BY <1>2, CallSettles DEF ledgerVars, broker
<1>3. QED
  BY <1>1, <1>2 DEF Next, storeVars

(***************************************************************************)
(* What opCA's cursor has passed, opCA knows as it is (issued_since,       *)
(* record_issued, replace_from), for any number of certificates, any size  *)
(* of page and any number of lost calls, deaths and restores, as long as   *)
(* no backup is of a broker that had issued nothing.                       *)
(***************************************************************************)
THEOREM CursorSound ==
  ASSUME ~EmptyBackup
  PROVE  Spec => []CursorMissesNothing
<1>1. CursorInv => CursorMissesNothing
  BY DEF CursorInv
<1>2. CursorInv /\ [Next]_storeVars => CursorInv'
  BY CursorStep
<1>3. QED
  BY <1>1, <1>2, CursorStarts, PTL DEF Spec

-----------------------------------------------------------------------------
(* The published CRL *)

Sign == [at : {"none", "read", "numbered"}, list : SUBSET Leaf, number : Nat]

\* A database, whatever its rows are.
Shaped(db) ==
    /\ db = [certs |-> db.certs, number |-> db.number]
    /\ db.certs = [l \in Leaf |-> db.certs[l]] /\ db.number \in Nat

\* A signed CRL, the one on disk, and those that are there or may still be written.
Made(number, list) == [number |-> number, list |-> list]
OnDisk == Made(crl.number, crl.list)
Finished == late \cup {OnDisk}

CrlTyped ==
    /\ Shaped(acme) /\ Shaped(backup) /\ restores \in Nat
    /\ Finished \subseteq [number : Nat, list : SUBSET Leaf]
    /\ signing \in [Signer -> Sign]

\* The mutex: one task signs at a time.
OneSigner == \A v, w \in Signer : signing[v] # NoSign /\ signing[w] # NoSign => v = w

\* A number taken for a signature is past those of the CRLs that were signed.
NumbersUnspent ==
    /\ \A x \in Finished : x.number <= acme.number
    /\ \A x, y \in Finished : x.number = y.number => x.list = y.list
    /\ \A w \in Signer : signing[w].at = "numbered" =>
          /\ signing[w].number <= acme.number
          /\ \A x \in Finished : x.number < signing[w].number

\* Until a restore no revocation is undone, so a list read later has all of an earlier one.
ListsGrow ==
    restores = 0 =>
        /\ \A l \in Leaf : acme.certs[l].state # "none" => l \in issued
        /\ \A x \in Finished : x.list \subseteq Revoked
        /\ \A x, y \in Finished : x.number < y.number => x.list \subseteq y.list
        /\ \A w \in Signer : signing[w] # NoSign =>
              signing[w].list \subseteq Revoked /\ \A x \in Finished : x.list \subseteq signing[w].list

CrlInv == CrlTyped /\ OneSigner /\ NumbersUnspent /\ ListsGrow

(***************************************************************************)
(* The invariant holds at the start.                                       *)
(***************************************************************************)
LEMMA CrlStarts == Init => CrlInv
<1> SUFFICES ASSUME Init PROVE CrlInv
  OBVIOUS
<1>1. PICK S \in SUBSET Leaf : LedgerInit(S)
  BY DEF Init
<1>2. Shaped(acme) /\ Shaped(backup)
  BY <1>1 DEF LedgerInit, Shaped
<1>3. NoSign \in Sign /\ NoSign.at = "none"
  BY DEF NoSign, Sign
<1>4. crl.number = 0 /\ crl.list = {} /\ acme.number = 0 /\ signing = [w \in Signer |-> NoSign] /\ issued = S /\ restores = 0
  BY <1>1 DEF LedgerInit
<1>5. \A l \in Leaf : acme.certs[l].state # "none" => l \in S
  BY <1>1 DEF LedgerInit, NoRow
<1>7. Finished = {[number |-> 0, list |-> {}]}
  BY <1>1, <1>4 DEF LedgerInit, Finished, OnDisk, Made
<1>6. QED
  BY <1>2, <1>3, <1>4, <1>5, <1>7 DEF CrlInv, CrlTyped, OneSigner, NumbersUnspent, ListsGrow

(***************************************************************************)
(* The CRLs that are signed stay while nothing is written or due.          *)
(***************************************************************************)
LEMMA SameFiles ==
  ASSUME UNCHANGED pki
  PROVE  Finished' = Finished
BY DEF Finished, OnDisk, Made, pki

(***************************************************************************)
(* A change of one certificate that takes nothing from the revoked ones.   *)
(***************************************************************************)
LEMMA ChangedKeepsCrl ==
  ASSUME CrlInv, NEW l \in Leaf, NEW state, acme' = Changed(l, state),
         state = "good" => acme.certs[l].state # "revoked" \/ restores # 0,
         state \in {"good", "revoked"},
         issued \subseteq issued', state = "good" => l \in issued',
         state = "revoked" => acme.certs[l].state = "good",
         UNCHANGED <<backup, pki, signing, restores>>
  PROVE  CrlInv'
<1>F. Finished' = Finished
  BY SameFiles
<1>1. Shaped(acme) /\ Shaped(backup) /\ restores \in Nat
  BY DEF CrlInv, CrlTyped
<1>2. PICK r : r = [state |-> state, changed |-> LastChange(acme.certs) + 1]
  OBVIOUS
<1>3. acme' = [acme EXCEPT !.certs[l] = r] /\ r.state = state
  BY <1>2 DEF Changed
<1>4. acme' = [certs |-> [k \in Leaf |-> IF k = l THEN r ELSE acme.certs[k]], number |-> acme.number]
  <2>1. [acme EXCEPT !.certs[l] = r] = [certs |-> [acme.certs EXCEPT ![l] = r], number |-> acme.number]
    BY <1>1 DEF Shaped
  <2>2. [acme.certs EXCEPT ![l] = r] = [k \in Leaf |-> IF k = l THEN r ELSE acme.certs[k]]
    BY <1>1 DEF Shaped
  <2>3. QED
    BY <1>3, <2>1, <2>2
<1>5. acme'.number = acme.number /\ \A k \in Leaf : acme'.certs[k] = IF k = l THEN r ELSE acme.certs[k]
  BY <1>4
<1>6. CrlTyped'
  BY <1>1, <1>4, <1>F DEF CrlInv, CrlTyped, Shaped
<1>7. OneSigner' /\ NumbersUnspent'
  BY <1>5, <1>F DEF CrlInv, OneSigner, NumbersUnspent
<1>8. restores = 0 => Revoked \subseteq Revoked'
  BY <1>3, <1>5 DEF Revoked
<1>9. ListsGrow'
  BY <1>3, <1>5, <1>8, <1>F DEF CrlInv, ListsGrow
<1>10. QED
  BY <1>6, <1>7, <1>9 DEF CrlInv

(***************************************************************************)
(* A signature starts, under the mutex.                                    *)
(***************************************************************************)
LEMMA ReadsKeepsCrl ==
  ASSUME CrlInv, NEW w \in Signer, OneAtATime, Reads(w), UNCHANGED <<acme, issued, backup, pki, restores>>
  PROVE  CrlInv'
<1>F. Finished' = Finished
  BY SameFiles
<1>1. PICK s : s = [at |-> "read", list |-> Revoked, number |-> 0]
  OBVIOUS
<1>2. signing' = [signing EXCEPT ![w] = s]
  <2>1. [NoSign EXCEPT !.at = "read", !.list = Revoked] = s
    <3>1. PICK q : q = [NoSign EXCEPT !.at = "read", !.list = Revoked]
      OBVIOUS
    <3>2. q = [i \in {"at", "list", "number"} |-> q[i]]
      BY <3>1 DEF NoSign
    <3>3. q.at = "read" /\ q.list = Revoked /\ q.number = 0
      BY <3>1 DEF NoSign
    <3>4. s = [i \in {"at", "list", "number"} |-> q[i]]
      BY <1>1, <3>3
    <3>5. QED
      BY <3>1, <3>2, <3>4
  <2>2. QED
    BY <2>1 DEF Reads, RevokedUnexpired
<1>3. s \in Sign /\ s.at = "read" /\ s.list = Revoked
  BY <1>1 DEF Sign, Revoked
<1>4. signing \in [Signer -> Sign]
  BY DEF CrlInv, CrlTyped
<1>5. \A v \in Signer : signing'[v] = IF v = w THEN s ELSE NoSign
  BY <1>2, <1>4 DEF OneAtATime
<1>6. NoSign.at = "none"
  BY DEF NoSign
<1>7. CrlTyped'
  BY <1>2, <1>3, <1>4, <1>F DEF CrlInv, CrlTyped, Shaped
<1>8. OneSigner' /\ NumbersUnspent'
  BY <1>3, <1>5, <1>6, <1>F DEF CrlInv, OneSigner, NumbersUnspent
<1>9. ListsGrow'
  BY <1>3, <1>5, <1>F DEF CrlInv, ListsGrow, Revoked
<1>10. QED
  BY <1>7, <1>8, <1>9 DEF CrlInv

(***************************************************************************)
(* The signer takes the next number, which none has used.                  *)
(***************************************************************************)
LEMMA NumberKeepsCrl ==
  ASSUME CrlInv, NEW w \in Signer, NextCrlNumber(w)
  PROVE  CrlInv'
<1>F. Finished' = Finished
  BY SameFiles DEF NextCrlNumber
<1>1. Shaped(acme) /\ Shaped(backup) /\ signing \in [Signer -> Sign]
      /\ Finished \subseteq [number : Nat, list : SUBSET Leaf]
  BY DEF CrlInv, CrlTyped
<1>2. PICK n \in Nat : n = acme.number + 1
  BY <1>1 DEF Shaped
<1>3. acme' = [certs |-> acme.certs, number |-> n]
  BY <1>1, <1>2 DEF NextCrlNumber, Shaped
<1>4. acme'.certs = acme.certs /\ acme'.number = n
  BY <1>3
<1>5. PICK s \in Sign : s = [at |-> "numbered", list |-> signing[w].list, number |-> n]
  BY <1>1 DEF Sign
<1>6. s.at = "numbered" /\ s.list = signing[w].list /\ s.number = n
  BY <1>5
<1>7. signing' = [signing EXCEPT ![w] = s]
  <2>1. signing' = [signing EXCEPT ![w] = [signing[w] EXCEPT !.at = "numbered", !.number = n]]
    BY <1>1, <1>2 DEF NextCrlNumber
  <2>2. [signing[w] EXCEPT !.at = "numbered", !.number = n] = s
    <3>1. PICK q : q = [signing[w] EXCEPT !.at = "numbered", !.number = n]
      OBVIOUS
    <3>2. q = [i \in {"at", "list", "number"} |-> q[i]]
      BY <1>1, <3>1 DEF Sign
    <3>3. q.at = "numbered" /\ q.list = signing[w].list /\ q.number = n
      BY <1>1, <3>1 DEF Sign
    <3>4. s = [i \in {"at", "list", "number"} |-> q[i]]
      BY <1>5, <3>3
    <3>5. QED
      BY <3>1, <3>2, <3>4
  <2>3. QED
    BY <2>1, <2>2
<1>8. \A v \in Signer : signing'[v] = IF v = w THEN s ELSE signing[v]
  BY <1>1, <1>7
<1>9. signing[w].at = "read" /\ signing[w] # NoSign
  BY DEF NextCrlNumber, NoSign
<1>10. \A v \in Signer : v # w => signing[v] = NoSign /\ signing[v].at = "none"
  BY <1>9 DEF CrlInv, OneSigner, NoSign
<1>11. CrlTyped'
  <2>1. signing' \in [Signer -> Sign]
    BY <1>1, <1>7
  <2>2. Shaped(acme)' /\ Shaped(backup)'
    BY <1>1, <1>3, <1>4 DEF Shaped, NextCrlNumber
  <2>3. QED
    BY <1>F, <2>1, <2>2 DEF CrlInv, CrlTyped, NextCrlNumber
<1>12. OneSigner'
  BY <1>8, <1>10 DEF OneSigner
<1>13. NumbersUnspent'
  <2>1. acme.number \in Nat /\ \A x \in Finished : x.number \in Nat /\ x.number <= acme.number
    BY <1>1 DEF Shaped, CrlInv, NumbersUnspent
  <2>2. \A x \in Finished : x.number < n /\ x.number <= n
    BY <1>2, <2>1
  <2>3. \A v \in Signer : signing'[v].at = "numbered" => signing'[v].number = n
    BY <1>6, <1>8, <1>10
  <2>4. QED
    BY <1>4, <1>F, <2>2, <2>3 DEF CrlInv, NumbersUnspent
<1>14. ListsGrow'
  <2>1. Revoked' = Revoked
    BY <1>4 DEF Revoked
  <2>2. UNCHANGED <<issued, restores>>
    BY DEF NextCrlNumber
  <2>3. \A v \in Signer : signing'[v] # NoSign => v = w /\ signing[v] # NoSign /\ signing'[v].list = signing[v].list
    BY <1>6, <1>8, <1>9, <1>10
  <2>4. QED
    BY <1>4, <1>F, <2>1, <2>2, <2>3 DEF CrlInv, ListsGrow
<1>15. QED
  BY <1>11, <1>12, <1>13, <1>14 DEF CrlInv

(***************************************************************************)
(* A signature ends, published or not; the process ends.                   *)
(***************************************************************************)
LEMMA EndKeepsCrl ==
  ASSUME CrlInv, UNCHANGED <<acme, issued, backup, restores>>,
         NEW w \in Signer,
         signing' \in {[signing EXCEPT ![w] = NoSign], [v \in Signer |-> NoSign], signing},
         \/ Finished' \subseteq Finished
         \/ /\ signing[w].at = "numbered" /\ signing' = [signing EXCEPT ![w] = NoSign]
            /\ Finished' \subseteq Finished \cup {Signed(w)}
  PROVE  CrlInv'
<1>1. NoSign \in Sign /\ NoSign.at = "none"
  BY DEF NoSign, Sign
<1>2. signing \in [Signer -> Sign]
  BY DEF CrlInv, CrlTyped
<1>3. signing' \in [Signer -> Sign] /\ \A v \in Signer : signing'[v] = NoSign \/ signing'[v] = signing[v]
  BY <1>1, <1>2
<1>4. OneSigner'
  BY <1>3 DEF CrlInv, OneSigner
<1>5. Revoked' = Revoked
  BY DEF Revoked
<1>6. CASE Finished' \subseteq Finished
  <2>1. CrlTyped'
    BY <1>3, <1>6 DEF CrlInv, CrlTyped, Shaped
  <2>2. NumbersUnspent'
    BY <1>1, <1>3, <1>6 DEF CrlInv, NumbersUnspent
  <2>3. ListsGrow'
    BY <1>3, <1>5, <1>6 DEF CrlInv, ListsGrow
  <2>4. QED
    BY <1>4, <2>1, <2>2, <2>3 DEF CrlInv
<1>7. CASE /\ signing[w].at = "numbered" /\ signing' = [signing EXCEPT ![w] = NoSign]
           /\ Finished' \subseteq Finished \cup {Signed(w)}
  <2>1. signing[w] # NoSign
    BY <1>1, <1>7
  <2>2. \A v \in Signer : signing'[v] = NoSign
    BY <1>2, <1>7, <2>1 DEF CrlInv, OneSigner
  <2>3. PICK s : s = Signed(w)
    OBVIOUS
  <2>4. /\ s \in [number : Nat, list : SUBSET Leaf]
        /\ s.number = signing[w].number /\ s.list = signing[w].list
    BY <1>2, <2>3 DEF Signed, Sign
  <2>5. CrlTyped'
    BY <1>3, <1>7, <2>3, <2>4 DEF CrlInv, CrlTyped, Shaped
  <2>6. \A x \in Finished' : x \in Finished \/ x = s
    BY <1>7, <2>3
  <2>7. /\ \A x \in Finished : x.number \in Nat /\ x.number < s.number
        /\ s.number \in Nat /\ s.number <= acme.number
    BY <1>7, <2>4 DEF CrlInv, CrlTyped, NumbersUnspent
  <2>8. NumbersUnspent'
    <3>1. \A x \in Finished' : x.number <= acme'.number
      BY <2>6, <2>7 DEF CrlInv, NumbersUnspent
    <3>2. \A x, y \in Finished' : x.number = y.number => x.list = y.list
      BY <2>6, <2>7 DEF CrlInv, NumbersUnspent
    <3>3. QED
      BY <1>1, <2>2, <3>1, <3>2 DEF NumbersUnspent
  <2>9. ListsGrow'
    <3> SUFFICES ASSUME restores = 0 PROVE ListsGrow'
      BY DEF ListsGrow
    <3>1. s.list \subseteq Revoked /\ \A x \in Finished : x.list \subseteq s.list
      BY <2>1, <2>4 DEF CrlInv, ListsGrow
    <3>2. \A x \in Finished' : x.list \subseteq Revoked'
      BY <1>5, <2>6, <3>1 DEF CrlInv, ListsGrow
    <3>3. \A x, y \in Finished' : x.number < y.number => x.list \subseteq y.list
      BY <2>6, <2>7, <3>1 DEF CrlInv, ListsGrow
    <3>4. QED
      BY <2>2, <3>2, <3>3 DEF CrlInv, ListsGrow
  <2>10. QED
    BY <1>4, <2>5, <2>8, <2>9 DEF CrlInv
<1>8. QED
  BY <1>6, <1>7

(***************************************************************************)
(* A restore takes the higher of the two CRL numbers.                      *)
(***************************************************************************)
LEMMA RestoreKeepsCrl ==
  ASSUME CrlInv, ReplaceFrom
  PROVE  CrlInv'
<1>F. Finished' = Finished
  BY SameFiles DEF ReplaceFrom
<1>1. Shaped(acme) /\ Shaped(backup) /\ restores \in Nat /\ signing \in [Signer -> Sign]
      /\ Finished \subseteq [number : Nat, list : SUBSET Leaf]
  BY DEF CrlInv, CrlTyped
<1>2. PICK n \in Nat : n = Highest({acme.number, backup.number}) /\ acme.number <= n /\ acme.number \in Nat
  BY <1>1, HighestOfTwo DEF Shaped
<1>P. PICK past : past = Highest({LastChange(acme.certs), LastChange(backup.certs)})
  OBVIOUS
<1>C. PICK certs : certs = [l \in Leaf |-> IF backup.certs[l] = NoRow THEN NoRow
                                           ELSE [backup.certs[l] EXCEPT !.changed = @ + past]]
  OBVIOUS
<1>3. acme' = [certs |-> certs, number |-> n] /\ certs = [l \in Leaf |-> certs[l]]
  <2>1. acme' = [certs |-> certs, number |-> n]
    BY <1>2, <1>P, <1>C DEF ReplaceFrom, Restored
  <2>2. certs = [l \in Leaf |-> certs[l]]
    BY <1>C
  <2>3. QED
    BY <2>1, <2>2
<1>4. acme'.certs = certs /\ acme'.number = n
  BY <1>3
<1>5. UNCHANGED <<backup, signing>> /\ restores' = restores + 1
  BY DEF ReplaceFrom
<1>6. Shaped(acme)' /\ Shaped(backup)'
  BY <1>1, <1>3, <1>4, <1>5 DEF Shaped
<1>7. CrlTyped'
  BY <1>1, <1>5, <1>6, <1>F DEF CrlTyped
<1>8. OneSigner'
  BY <1>5 DEF CrlInv, OneSigner
<1>9. NumbersUnspent'
  <2>1. \A w \in Signer : signing[w].number \in Nat
    BY <1>1 DEF Sign
  <2>2. \A x \in Finished : x.number \in Nat /\ x.number <= acme.number
    BY <1>1 DEF CrlInv, NumbersUnspent
  <2>3. \A x \in Finished : x.number <= n
    BY <1>2, <2>2
  <2>4. \A w \in Signer : signing[w].at = "numbered" => signing[w].number <= n
    BY <1>2, <2>1 DEF CrlInv, NumbersUnspent
  <2>5. QED
    BY <1>4, <1>5, <1>F, <2>3, <2>4 DEF CrlInv, NumbersUnspent
<1>10. restores' # 0
  BY <1>1, <1>5
<1>11. QED
  BY <1>7, <1>8, <1>9, <1>10 DEF CrlInv, ListsGrow

(***************************************************************************)
(* A write that had timed out puts its own CRL on disk.                    *)
(***************************************************************************)
LEMMA LateWritten ==
  ASSUME CrlInv, NEW x \in late, WrittenLate(x)
  PROVE  /\ OnDisk' = x /\ late' = late \ {x}
         /\ crl'.number = x.number /\ crl'.list = x.list
<1>1. x \in [number : Nat, list : SUBSET Leaf]
  BY DEF CrlInv, CrlTyped, Finished
<1>2. crl'.number = x.number /\ crl'.list = x.list
  BY DEF WrittenLate
<1>3. OnDisk' = x
  BY <1>1, <1>2 DEF OnDisk, Made
<1>4. QED
  BY <1>2, <1>3 DEF WrittenLate

(***************************************************************************)
(* Every step keeps the invariant.                                         *)
(***************************************************************************)
LEMMA CrlStep ==
  ASSUME CrlInv, [Next]_storeVars
  PROVE  CrlInv'
<1>s. "keeper" \in Signer /\ "opca" \in Signer
  BY DEF Signer
<1>q. ASSUME UNCHANGED <<acme, issued, backup, signing, restores>>, Finished' \subseteq Finished
      PROVE  CrlInv'
  BY <1>s, <1>q, EndKeepsCrl
<1>u. UNCHANGED pki => Finished' \subseteq Finished
  BY SameFiles
<1>1. CASE KeeperLooks \/ StartSync \/ IssuedSince \/ RecordIssued \/ RecordRevoked \/ CallFails
           \/ \E l \in Leaf : RevokeBrokerCert(l)
  <2>1. UNCHANGED <<acme, issued, backup, signing, restores, pki>>
    BY <1>1 DEF KeeperLooks, StartSync, IssuedSince, RecordIssued, RecordRevoked, CallFails, RevokeBrokerCert, broker
  <2>2. QED
    BY <1>q, <1>u, <2>1
<1>2. CASE Ages
  <2>1. UNCHANGED <<late, OnDisk>>
    BY <1>2 DEF Ages, OnDisk
  <2>2. Finished' \subseteq Finished
    BY <2>1 DEF Finished
  <2>3. QED
    BY <1>2, <1>q, <2>2 DEF Ages
<1>3. CASE Capture
  <2>1. UNCHANGED <<acme, issued, signing, restores>> /\ backup' = acme /\ Finished' = Finished
    BY <1>3, SameFiles DEF Capture
  <2>2. CrlTyped'
    BY <2>1 DEF CrlInv, CrlTyped, Shaped
  <2>3. Revoked' = Revoked
    BY <2>1 DEF Revoked
  <2>4. QED
    BY <2>1, <2>2, <2>3 DEF CrlInv, OneSigner, NumbersUnspent, ListsGrow
<1>4. CASE ReplaceFrom
  BY <1>4, RestoreKeepsCrl
<1>5. CASE KeeperSigns
  <2>1. CASE Wanted
    BY <1>5, <1>s, <2>1, ReadsKeepsCrl DEF KeeperSigns
  <2>2. CASE ~Wanted
    BY <1>5, <1>q, <1>u, <2>2 DEF KeeperSigns
  <2>3. QED
    BY <2>1, <2>2
<1>6. CASE RevokingSigns
  BY <1>6, <1>s, ReadsKeepsCrl DEF RevokingSigns
<1>7. CASE \E w \in Signer : NextCrlNumber(w)
  BY <1>7, NumberKeepsCrl
<1>8. CASE \E w \in Signer : SignCrl(w)
  <2>1. PICK w \in Signer : SignCrl(w)
    BY <1>8
  <2>2. /\ UNCHANGED <<acme, issued, backup, restores>>
        /\ signing[w].at = "numbered" /\ signing' = [signing EXCEPT ![w] = NoSign]
        /\ crl' = [number |-> signing[w].number, list |-> signing[w].list, old |-> FALSE]
        /\ late' = late
    BY <2>1 DEF SignCrl, SignEnds
  <2>3. Finished' \subseteq Finished \cup {Signed(w)}
    <3>1. OnDisk' = Signed(w)
      BY <2>2 DEF OnDisk, Made, Signed
    <3>2. QED
      BY <2>2, <3>1 DEF Finished
  <2>4. QED
    BY <2>2, <2>3, EndKeepsCrl
<1>9. CASE \E w \in Signer : SignFails(w)
  <2>1. PICK w \in Signer : SignFails(w)
    BY <1>9
  <2>2. /\ UNCHANGED <<acme, issued, backup, restores, crl>>
        /\ signing' = [signing EXCEPT ![w] = NoSign]
        /\ late' = late \/ (signing[w].at = "numbered" /\ late' = late \cup {Signed(w)})
    BY <2>1 DEF SignFails, SignEnds
  <2>3. OnDisk' = OnDisk
    BY <2>2 DEF OnDisk
  <2>4. \/ Finished' \subseteq Finished
        \/ signing[w].at = "numbered" /\ Finished' \subseteq Finished \cup {Signed(w)}
    BY <2>2, <2>3 DEF Finished
  <2>5. QED
    BY <2>2, <2>4, EndKeepsCrl
<1>10. CASE Restart
  <2>1. late' = {} /\ OnDisk' = OnDisk
    BY <1>10 DEF Restart, OnDisk
  <2>2. Finished' \subseteq Finished
    BY <2>1 DEF Finished
  <2>3. QED
    BY <1>10, <1>s, <2>2, EndKeepsCrl DEF Restart
<1>16. CASE \E x \in late : WrittenLate(x)
  <2>1. PICK x \in late : WrittenLate(x)
    BY <1>16
  <2>2. OnDisk' = x /\ late' = late \ {x}
    BY <2>1, LateWritten
  <2>3. Finished' \subseteq Finished
    BY <2>2 DEF Finished
  <2>4. QED
    BY <1>q, <2>1, <2>3 DEF WrittenLate
<1>11. CASE \E l \in Leaf : RecordCertificate(l)
  <2>1. PICK l \in Leaf : RecordCertificate(l)
    BY <1>11
  <2>2. restores = 0 => acme.certs[l].state = "none"
    BY <2>1 DEF CrlInv, ListsGrow, RecordCertificate
  <2>3. acme' = Changed(l, "good") /\ issued \subseteq issued' /\ l \in issued' /\ UNCHANGED <<backup, pki, signing, restores>>
    BY <2>1 DEF RecordCertificate
  <2>4. QED
    BY <2>2, <2>3, ChangedKeepsCrl
<1>12. CASE \E l \in Leaf : Revoke(l)
  BY <1>12, ChangedKeepsCrl DEF Revoke
<1>13. CASE RevokeLeaf
  <2>1. PICK l : l = call.leaf
    OBVIOUS
  <2>2. CASE acme' = acme
    BY <1>13, <1>q, <1>u, <2>2 DEF RevokeLeaf
  <2>3. CASE acme' # acme
    <3>1. acme.certs[l].state = "good" /\ acme' = Changed(l, "revoked")
          /\ UNCHANGED <<issued, backup, pki, signing, restores>>
      BY <1>13, <2>1, <2>3 DEF RevokeLeaf
    <3>2. l \in Leaf
      <4>1. SUFFICES ASSUME l \notin Leaf PROVE acme' = acme
        BY <2>3
      <4>2. Shaped(acme)
        BY DEF CrlInv, CrlTyped
      <4>3. PICK r : acme' = [acme EXCEPT !.certs[l] = r]
        BY <3>1 DEF Changed
      <4>4. [acme.certs EXCEPT ![l] = r] = acme.certs
        BY <4>1, <4>2 DEF Shaped
      <4>5. [acme EXCEPT !.certs[l] = r] = [acme EXCEPT !.certs = [acme.certs EXCEPT ![l] = r]]
        BY <4>2 DEF Shaped
      <4>6. QED
        BY <4>2, <4>3, <4>4, <4>5 DEF Shaped
    <3>3. QED
      BY <3>1, <3>2, ChangedKeepsCrl
  <2>4. QED
    BY <2>2, <2>3
<1>14. CASE UNCHANGED ledgerVars
  BY <1>14, <1>q, <1>u DEF ledgerVars, broker
<1>15. QED
  BY <1>1, <1>2, <1>3, <1>4, <1>5, <1>6, <1>7, <1>8, <1>9, <1>10, <1>11, <1>12, <1>13, <1>14, <1>16
     DEF Next, storeVars, LedgerNext, SharedNext, CrlNext, SyncNext

(***************************************************************************)
(* Of two CRLs published one after the other the one with the higher       *)
(* number has, until a restore, all revoked certificates of the other, and *)
(* only a write that had timed out goes back to a lower one (refresh_crl,  *)
(* next_crl_number, locked, replace_from), whatever fails or dies.         *)
(***************************************************************************)
THEOREM CrlOnlyAdvances == Spec => CrlAdvances
<1> DEFINE Advance ==
             /\ crl'.number = crl.number => crl'.list = crl.list
             /\ crl'.number < crl.number => [number |-> crl'.number, list |-> crl'.list] \in late \ late'
             /\ crl'.number > crl.number /\ restores = 0 => crl.list \cap Revoked \subseteq crl'.list
             /\ crl'.number < crl.number /\ restores = 0 => crl'.list \subseteq crl.list
<1>1. CrlInv /\ [Next]_storeVars => CrlInv'
  BY CrlStep
<1>2. CrlInv /\ [Next]_storeVars => [Advance]_ledgerVars
  <2> SUFFICES ASSUME CrlInv, [Next]_storeVars PROVE Advance
    OBVIOUS
  <2>n. /\ crl.number \in Nat /\ OnDisk \in Finished
        /\ OnDisk.number = crl.number /\ OnDisk.list = crl.list
    BY DEF CrlInv, CrlTyped, Finished, OnDisk, Made
  <2>1. CASE \E w \in Signer : SignCrl(w)
    <3>1. PICK w \in Signer : SignCrl(w)
      BY <2>1
    <3>2. crl'.number = signing[w].number /\ crl'.list = signing[w].list /\ signing[w].at = "numbered"
          /\ signing[w] # NoSign
      BY <3>1 DEF SignCrl, NoSign
    <3>3. crl.number < signing[w].number /\ (restores = 0 => crl.list \subseteq signing[w].list)
      BY <2>n, <3>2 DEF CrlInv, NumbersUnspent, ListsGrow
    <3>4. signing[w].number \in Nat
      BY DEF CrlInv, CrlTyped, Sign
    <3>5. QED
      BY <2>n, <3>2, <3>3, <3>4
  <2>2. CASE crl'.number = crl.number /\ crl'.list = crl.list
    BY <2>2, <2>n
  <2>3. Ages => crl'.number = crl.number /\ crl'.list = crl.list
    BY DEF Ages
  <2>4. CASE \E x \in late : WrittenLate(x)
    <3>1. PICK x \in late : WrittenLate(x)
      BY <2>4
    <3>2. OnDisk' = x /\ late' = late \ {x} /\ crl'.number = x.number /\ crl'.list = x.list
      BY <3>1, LateWritten
    <3>3. x \in Finished /\ x.number \in Nat /\ [number |-> crl'.number, list |-> crl'.list] = x
      BY <3>2 DEF CrlInv, CrlTyped, Finished, OnDisk, Made
    <3>4. /\ x.number = crl.number => x.list = crl.list
          /\ restores = 0 => /\ x.number < crl.number => x.list \subseteq crl.list
                             /\ crl.number < x.number => crl.list \subseteq x.list
      BY <2>n, <3>3 DEF CrlInv, NumbersUnspent, ListsGrow
    <3>5. QED
      BY <2>n, <3>2, <3>3, <3>4
  <2>5. QED
    BY <2>1, <2>2, <2>3, <2>4
       DEF Next, storeVars, ledgerVars, broker, pki, LedgerNext, SharedNext, CrlNext, SyncNext,
           KeeperLooks, KeeperSigns, RevokingSigns, Restart, SignFails, StartSync, IssuedSince, RecordIssued,
           RecordRevoked, CallFails, Capture, ReplaceFrom, RevokeLeaf, NextCrlNumber, RecordCertificate,
           Revoke, RevokeBrokerCert
<1>3. QED
  BY <1>1, <1>2, CrlStarts, PTL DEF Spec, CrlAdvances

=============================================================================
