---------------------------- MODULE AcmeAccounts ----------------------------
(***************************************************************************)
(* Accounts, keys and replay nonces of the broker's ACME server            *)
(* (acme/request.rs, the account handlers of acme/server.rs and the        *)
(* accounts of acme/store.rs).  A request looks its account up, checks the *)
(* signature with the key it found, redeems its nonce and acts: each is a  *)
(* step of its own, between which other requests go on.  The network may   *)
(* deliver a request twice: a client may send any nonce it was ever given. *)
(***************************************************************************)
EXTENDS Integers, Sequences

CONSTANTS
    Account,    \* ids of accounts
    Key,
    Client,     \* requests at a time
    Capacity,   \* of the nonces remembered
    MaxNonce    \* bound on nonces given

ASSUME AccountAssumption == Account \subseteq Nat /\ Capacity \in Nat \ {0} /\ MaxNonce \in Nat

VARIABLES
    accounts,   \* the rows: key and status, or NoAccount
    nonces,     \* NonceState: live, issued; and how many were given
    request,    \* of each client
    effects     \* history: how often a request with this nonce took effect

accountVars == <<accounts, nonces, request, effects>>

Op == {"new_account", "deactivate", "key_change", "new_order"}
NoAccount == [key |-> 0, status |-> "none"]
NoRequest == [at |-> "idle", op |-> "none", account |-> 0, key |-> 0, newKey |-> 0, nonce |-> 0]
Nonce == 1..MaxNonce

AccountsTypeOK ==
    /\ accounts \in [Account -> [key : Key \cup {0}, status : {"none", "valid", "deactivated"}]]
    /\ nonces.live \subseteq Nonce /\ nonces.given \in 0..MaxNonce
    /\ \A i \in 1..Len(nonces.issued) : nonces.issued[i] = nonces.given - Len(nonces.issued) + i
    /\ \A c \in Client : request[c].at \in {"idle", "sent", "verified", "redeemed", "absent"}
    /\ effects \in [Nonce -> Nat]

AccountsInit ==
    /\ accounts = [a \in Account |-> NoAccount]
    /\ nonces = [live |-> {}, issued |-> <<>>, given |-> 0]
    /\ request = [c \in Client |-> NoRequest]
    /\ effects = [n \in Nonce |-> 0]

-----------------------------------------------------------------------------
(* Nonces *)

\* Nonces::issue: at capacity the oldest is forgotten, redeemed or not.
Issued ==
    LET new == nonces.given + 1
        full == Len(nonces.issued) >= Capacity
    IN  [live |-> (nonces.live \cup {new}) \ (IF full THEN {Head(nonces.issued)} ELSE {}),
         issued |-> Append(IF full THEN Tail(nonces.issued) ELSE nonces.issued, new),
         given |-> new]

\* stamp: every response has a nonce.
Responds(c) ==
    /\ nonces' = IF nonces.given < MaxNonce THEN Issued ELSE nonces
    /\ request' = [request EXCEPT ![c] = NoRequest]

NewNonce ==
    /\ nonces.given < MaxNonce /\ nonces' = Issued
    /\ UNCHANGED <<accounts, request, effects>>

-----------------------------------------------------------------------------
(* Requests *)

Exists(a) == accounts[a] # NoAccount
Holders(k) == {a \in Account : Exists(a) /\ accounts[a].key = k}

Send(c, op, a, k, n) ==
    /\ request[c].at = "idle" /\ n <= nonces.given
    /\ op # "new_account" => Exists(a)
    /\ \E new \in IF op = "key_change" THEN Key \ {k} ELSE {0} :
          request' = [request EXCEPT ![c] =
              [at |-> "sent", op |-> op, account |-> IF op = "new_account" THEN 0 ELSE a,
               key |-> k, newKey |-> new, nonce |-> n]]
    /\ UNCHANGED <<accounts, nonces, effects>>

\* Requests::account, and the signature under the key found there.
Admits(r) ==
    r.op = "new_account" \/ accounts[r.account] = [key |-> r.key, status |-> "valid"]

Verify(c) ==
    /\ request[c].at = "sent"
    /\ IF Admits(request[c])
       THEN request' = [request EXCEPT ![c].at = "verified"] /\ UNCHANGED nonces
       ELSE Responds(c)
    /\ UNCHANGED <<accounts, effects>>

\* Mutant: a nonce that is live is taken as often as it comes.
AfterLook(n) == nonces

AfterRedeem(n) == [nonces EXCEPT !.live = @ \ {n}]

Redeem(c) ==
    /\ request[c].at = "verified"
    /\ IF request[c].nonce \in nonces.live
       THEN /\ nonces' = AfterRedeem(request[c].nonce)
            /\ request' = [request EXCEPT ![c].at = "redeemed"]
       ELSE Responds(c)
    /\ UNCHANGED <<accounts, effects>>

Takes(c, rows) ==
    /\ accounts' = rows
    /\ effects' = [effects EXCEPT ![request[c].nonce] = @ + 1]
    /\ Responds(c)

\* new_account: the key's account, whatever its status; or none yet.
FindAccount(c) ==
    /\ request[c].at = "redeemed" /\ request[c].op = "new_account"
    /\ IF Holders(request[c].key) = {}
       THEN request' = [request EXCEPT ![c].at = "absent"] /\ UNCHANGED nonces
       ELSE Responds(c)
    /\ UNCHANGED <<accounts, effects>>

Added(k) ==
    {[accounts EXCEPT ![a] = [key |-> k, status |-> "valid"]] :
        a \in {b \in Account : ~Exists(b) /\ \A d \in Account : d < b => Exists(d)}}

\* Mutant: what the lookup found is still so.
InsertedAnyway(k) == Added(k)

\* create_account: ON CONFLICT DO NOTHING, and the row there is answered.
Inserted(k) == IF Holders(k) = {} THEN Added(k) ELSE {accounts}

CreateAccount(c) ==
    /\ request[c].at = "absent"
    /\ \E rows \in Inserted(request[c].key) : Takes(c, rows)

\* Only `valid` may become `deactivated`.
Deactivate(c) ==
    LET a == request[c].account
    IN  /\ request[c].at = "redeemed" /\ request[c].op = "deactivate"
        /\ IF accounts[a].status = "valid"
           THEN Takes(c, [accounts EXCEPT ![a].status = "deactivated"])
           ELSE Responds(c) /\ UNCHANGED <<accounts, effects>>

\* change_key: refused when another account holds the key.
ChangeKey(c) ==
    LET a == request[c].account
    IN  /\ request[c].at = "redeemed" /\ request[c].op = "key_change"
        /\ IF Holders(request[c].newKey) \subseteq {a}
           THEN Takes(c, [accounts EXCEPT ![a].key = request[c].newKey])
           ELSE Responds(c) /\ UNCHANGED <<accounts, effects>>

\* AcmeServer has what comes of an order.
NewOrder(c) ==
    /\ request[c].at = "redeemed" /\ request[c].op = "new_order"
    /\ Takes(c, accounts)

AccountsNext ==
    \/ NewNonce
    \/ \E c \in Client :
        \/ Verify(c) \/ Redeem(c) \/ FindAccount(c) \/ CreateAccount(c)
        \/ Deactivate(c) \/ ChangeKey(c) \/ NewOrder(c)
        \/ \E op \in Op, a \in Account, k \in Key, n \in Nonce : Send(c, op, a, k, n)

-----------------------------------------------------------------------------
(* Properties *)

(* No two accounts hold one key, whatever new accounts and key changes     *)
(* cross: new-account would answer with either.                            *)
OneAccountPerKey ==
    \A a, b \in Account : a # b /\ Exists(a) /\ Exists(b) => accounts[a].key # accounts[b].key

(* A request takes effect once at most, however often it is delivered and  *)
(* whenever its nonce is forgotten.                                        *)
EffectOnce == \A n \in Nonce : effects[n] <= 1

=============================================================================
