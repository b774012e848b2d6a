--------------------------- MODULE CommandsProofs ---------------------------
(* Proofs about the app's session, the local copies of the database and    *)
(* what is shown of it, for any vaults, uploads, copies, names and days;   *)
(* about a database that a failed write leaves unreadable; and about what  *)
(* a backup that is put back restores.                                     *)
EXTENDS CommandCallsProofs

-----------------------------------------------------------------------------
(* The session *)

(***************************************************************************)
(* A database that no other vault's brokers answered, and the types of the *)
(* session: what is in memory, stored or on its way is such a database, of *)
(* the vault it is meant for.                                              *)
(***************************************************************************)
Clean == {d \in Database : d.mixed = FALSE}

ConnSound ==
    /\ conn \in [vault : Vault \cup {NoVault}, ca : Database \cup {NoDb},
                 operator : Nat, session : Nat]
    /\ conn.ca # NoDb => conn.ca \in Clean /\ conn.ca.of = conn.vault
    /\ conn.vault # NoVault => conn.session > 0
    /\ key # NoVault => key = conn.vault

StoresSound ==
    /\ stored \in [Vault -> Clean] /\ \A v \in Vault : stored[v].of = v
    /\ mirror \in [Vault -> Clean \cup {NoDb, Unsure}]
    /\ \A v \in Vault : mirror[v].of \in {v, NoVault}
    /\ jobs \in Seq(Clean) /\ synced \in Clean \cup {NoDb}

(***************************************************************************)
(* The brokers' answers are of the session they were asked in: the         *)
(* operator minted for it is gone with its connection.                     *)
(***************************************************************************)
AskedSound ==
    /\ flow \in [Flow -> {"idle", "locked", "asking", "acted", "released"}]
    /\ flow["brokers"] = "asking" =>
          /\ asked.operator \in Nat \ {0}
          /\ conn.operator = asked.operator => conn.vault = asked.vault

(***************************************************************************)
(* What VaultLock no longer has is in vaults where something was amiss.    *)
(* What it has is in such a vault too, or in the one at hand, and some     *)
(* withLock is yet to release it.                                          *)
(***************************************************************************)
LockSound ==
    /\ orphans \subseteq amiss
    /\ held # NoVault => \/ held \in amiss
                         \/ /\ held = conn.vault /\ Connected
                            /\ \E f \in Flow : flow[f] \in {"locked", "asking", "acted"}

(***************************************************************************)
(* The private store has what was uploaded last, unless an upload of the   *)
(* same vault's database failed since.                                     *)
(***************************************************************************)
SyncSound == synced # NoDb => mirror[synced.of] \in {synced, Unsure}

SessionInv == ConnSound /\ StoresSound /\ AskedSound /\ LockSound /\ SyncSound

(***************************************************************************)
(* What the other areas do leaves the session alone.                       *)
(***************************************************************************)
LEMMA SessionSteps ==
  ASSUME [Next]_<<vars, sessionVars, schemaVars, copyVars, watchVars>>
  PROVE  SessionNext \/ UNCHANGED sessionVars
BY DEF Next

(***************************************************************************)
(* Databases: the constants are what they look like, and changing the rows *)
(* of a clean database leaves it clean and of its vault.                   *)
(***************************************************************************)
LEMMA Databases ==
  /\ NoDb.of = NoVault /\ NoDb.mixed = FALSE /\ Unsure.of = NoVault /\ Unsure.mixed = FALSE
  /\ NoDb \notin Database /\ Unsure \notin Database /\ NoDb # Unsure
  /\ \A d \in Clean : d \in Database /\ d # NoDb /\ d.of \in Vault /\ d.rows \in 0..1
  /\ \A d \in Clean : /\ [d EXCEPT !.rows = 1 - @] \in Clean
                      /\ [d EXCEPT !.rows = 1 - @].of = d.of
<1>1. NoDb.of = NoVault /\ NoDb.rows = 0 /\ NoDb.mixed = FALSE
  BY DEF NoDb
<1>2. Unsure.of = NoVault /\ Unsure.rows = 1 /\ Unsure.mixed = FALSE
  BY DEF NoDb, Unsure
<1>3. \A d \in Database : d.of \in Vault /\ d.rows \in 0..1
  BY DEF Database
<1>4. \A d \in Clean : d \in Database
  BY DEF Clean
<1>5. ASSUME NEW d \in Clean
      PROVE  [d EXCEPT !.rows = 1 - @] \in Clean /\ [d EXCEPT !.rows = 1 - @].of = d.of
  <2>1. d \in Database /\ d.mixed = FALSE /\ 1 - d.rows \in 0..1
    BY <1>3, <1>4, <1>5 DEF Clean
  <2>2. PICK x : x = [d EXCEPT !.rows = 1 - @]
    OBVIOUS
  <2>3. x \in Database /\ x.mixed = FALSE /\ x.of = d.of
    BY <2>1, <2>2 DEF Database
  <2>4. QED
    BY <2>2, <2>3 DEF Clean
<1>6. QED
  BY <1>1, <1>2, <1>3, <1>4, <1>5, SessionAssumption

(***************************************************************************)
(* What the app works on, loaded or in memory, is the vault's own.         *)
(***************************************************************************)
LEMMA CaIsOwn ==
  ASSUME ConnSound, StoresSound, Connected
  PROVE  /\ Ca \in Clean /\ Ca.of = conn.vault /\ conn.vault \in Vault
         /\ WithCa = [conn EXCEPT !.ca = Ca]
<1>1. conn.vault \in Vault
  BY DEF ConnSound, Connected
<1>2. QED
  BY <1>1 DEF Ca, WithCa, ConnSound, StoresSound

(***************************************************************************)
(* The connection with a database and an operator, and one that is taken   *)
(* up or given up.                                                         *)
(***************************************************************************)
Holding(d, n) == [conn EXCEPT !.ca = d, !.operator = n]
Fresh(v, n) == [NoConn EXCEPT !.vault = v, !.session = n]

(***************************************************************************)
(* A connection with another database of its vault in memory is sound.     *)
(***************************************************************************)
LEMMA WithDatabase ==
  ASSUME ConnSound, Connected, NEW d \in Clean, d.of = conn.vault, NEW n \in Nat,
         conn' = Holding(d, n), key' = key \/ key' = conn.vault
  PROVE  /\ ConnSound' /\ conn'.vault = conn.vault /\ conn'.operator = n
         /\ conn'.session = conn.session /\ conn'.ca = d
<1>1. d \in Database
  BY DEF Clean
<1>2. conn' \in [vault : Vault \cup {NoVault}, ca : Database \cup {NoDb}, operator : Nat, session : Nat]
      /\ conn'.vault = conn.vault /\ conn'.operator = n /\ conn'.session = conn.session /\ conn'.ca = d
  BY <1>1 DEF ConnSound, Holding
<1>3. QED
  BY <1>2 DEF ConnSound, Holding

(***************************************************************************)
(* A connection that is taken up or given up has nothing of another in it. *)
(***************************************************************************)
LEMMA NewConnection ==
  ASSUME NEW v \in Vault \cup {NoVault}, NEW n \in Nat, v = NoVault \/ n > 0,
         conn' = Fresh(v, n), key' = NoVault
  PROVE  ConnSound' /\ conn'.vault = v /\ conn'.operator = 0
<1>1. conn'.vault = v /\ conn'.ca = NoDb /\ conn'.operator = 0 /\ conn'.session = n
      /\ conn' \in [vault : Vault \cup {NoVault}, ca : Database \cup {NoDb}, operator : Nat, session : Nat]
  BY DEF NoConn, Fresh
<1>2. QED
  BY <1>1 DEF ConnSound, Holding

(***************************************************************************)
(* Every step of the session keeps its invariant.                          *)
(***************************************************************************)
LEMMA SessionStep ==
  ASSUME SessionInv, SessionNext \/ UNCHANGED sessionVars
  PROVE  SessionInv'
<1>1. ConnSound /\ StoresSound /\ AskedSound /\ LockSound /\ SyncSound
  BY DEF SessionInv
<1>2. conn.vault \in Vault \cup {NoVault} /\ conn.operator \in Nat /\ conn.session \in Nat
      /\ (Connected => conn.vault \in Vault /\ conn.session > 0)
  BY <1>1 DEF ConnSound, Connected
<1>3. CASE UNCHANGED sessionVars
  <2>1. UNCHANGED <<conn, stored, locking, flow, asked, mirror, synced, jobs, key>>
    BY <1>3 DEF sessionVars
  <2>2. QED
    BY <1>1, <2>1 DEF SessionInv, ConnSound, StoresSound, AskedSound, LockSound, SyncSound, locking, Connected
<1>21. \A x : x \in HeldIn <=> x = held /\ x # NoVault
  BY DEF HeldIn
<1>19. Released \/ ReleaseFails => orphans' \subseteq amiss' /\ (held' # NoVault => held' \in amiss')
  <2>1. held # NoVault => held \in amiss \/ held = conn.vault
    BY <1>1 DEF LockSound
  <2>2. \A x : x \in orphans => x \in amiss
    BY <1>1 DEF LockSound
  <2>3. ASSUME Released
        PROVE  held' = NoVault /\ \A x : x \in orphans' => x \in amiss'
    BY <2>1, <2>2, <2>3, <1>21 DEF Released
  <2>4. ASSUME ReleaseFails
        PROVE  held' \in amiss' /\ \A x : x \in orphans' => x \in amiss'
    BY <2>2, <2>4, <1>21 DEF ReleaseFails
  <2>5. QED
    BY <2>3, <2>4
<1>4. ASSUME NEW v \in Vault, Connect(v)
      PROVE  SessionInv'
  <2>1. ReplaceConnection([NoConn EXCEPT !.vault = v, !.session = conn.session + 1])
        /\ UNCHANGED <<stored, held, orphans, flow, asked, mirror, synced, jobs>>
    BY <1>4 DEF Connect
  <2>2. conn' = Fresh(v, conn.session + 1) /\ key' = NoVault
        /\ UNCHANGED <<stored, held, orphans, flow, asked, mirror, synced, jobs>>
    BY <2>1 DEF ReplaceConnection, Fresh
  <2>8. amiss' = IF Connected THEN amiss \cup HeldIn ELSE amiss
    BY <1>4 DEF Connect
  <2>3. v \in Vault \cup {NoVault} /\ conn.session + 1 \in Nat /\ conn.session + 1 > 0
    BY <1>2
  <2>4. ConnSound' /\ conn'.vault = v /\ conn'.operator = 0
    BY <2>2, <2>3, NewConnection
  <2>5. StoresSound' /\ SyncSound'
    BY <1>1, <2>2 DEF StoresSound, SyncSound
  <2>6. AskedSound'
    BY <1>1, <2>2, <2>4 DEF AskedSound
  <2>7. LockSound'
    <3>1. /\ \A x : x \in orphans => x \in amiss
          /\ held # NoVault => held \in amiss \/ Connected
      BY <1>1 DEF LockSound
    <3>2. /\ \A x : x \in orphans' => x \in amiss'
          /\ held' # NoVault => held' \in amiss'
      BY <1>21, <2>2, <2>8, <3>1
    <3>3. QED
      BY <3>2 DEF LockSound
  <2>9. QED
    BY <2>4, <2>5, <2>6, <2>7 DEF SessionInv
<1>5. CASE Disconnect
  <2>1. [NoConn EXCEPT !.session = conn.session] = Fresh(NoVault, conn.session)
    <3>1. NoConn = [NoConn EXCEPT !.vault = NoVault]
      BY DEF NoConn
    <3>2. QED
      BY <3>1 DEF Fresh
  <2>2. conn' = Fresh(NoVault, conn.session) /\ key' = NoVault
        /\ UNCHANGED <<stored, flow, asked, mirror, synced, jobs>>
    BY <1>5, <2>1 DEF Disconnect, ReplaceConnection
  <2>3. ConnSound' /\ conn'.vault = NoVault /\ conn'.operator = 0
    <3>1. NoVault \in Vault \cup {NoVault}
      OBVIOUS
    <3>2. QED
      BY <1>2, <2>2, <3>1, NewConnection
  <2>4. LockSound'
    <3>1. orphans' \subseteq amiss' /\ (held' # NoVault => held' \in amiss')
      BY <1>1, <1>5, <1>19 DEF Disconnect
    <3>2. QED
      BY <3>1 DEF LockSound
  <2>5. StoresSound' /\ SyncSound'
    BY <1>1, <2>2 DEF StoresSound, SyncSound
  <2>6. AskedSound'
    BY <1>1, <2>2, <2>3 DEF AskedSound
  <2>7. QED
    BY <2>3, <2>4, <2>5, <2>6 DEF SessionInv
<1>6. ASSUME NEW f \in Flow, AcquireLock(f)
      PROVE  SessionInv'
  <2>1. UNCHANGED <<conn, stored, asked, mirror, synced, jobs, key>>
        /\ held' = conn.vault /\ Connected
        /\ orphans' = (orphans \cup HeldIn) \ {conn.vault} /\ amiss' = amiss \ {conn.vault}
        /\ flow' = [flow EXCEPT ![f] = "locked"]
    BY <1>6 DEF AcquireLock
  <2>2. ConnSound' /\ StoresSound' /\ SyncSound'
    BY <1>1, <2>1 DEF ConnSound, StoresSound, SyncSound
  <2>3. AskedSound'
    BY <1>1, <2>1 DEF AskedSound, Flow
  <2>4. orphans' \subseteq amiss'
    <3>1. /\ \A x : x \in orphans => x \in amiss
          /\ held # NoVault => held \in amiss \/ held = conn.vault
      BY <1>1 DEF LockSound
    <3>2. \A x : x \in orphans' => x \in amiss'
      BY <1>21, <2>1, <3>1
    <3>3. QED
      BY <3>2
  <2>5. flow'[f] = "locked"
    BY <1>1, <2>1 DEF AskedSound
  <2>6. LockSound'
    BY <2>1, <2>4, <2>5 DEF LockSound, locking, Connected
  <2>7. QED
    BY <2>2, <2>3, <2>6 DEF SessionInv
<1>7. ASSUME NEW d \in Clean, d.of = conn.vault, conn.vault \in Vault,
             UNCHANGED <<mirror, synced, jobs>>,
             stored' = stored \/ stored' = [stored EXCEPT ![conn.vault] = d]
      PROVE  StoresSound' /\ SyncSound'
  BY <1>1, <1>7 DEF StoresSound, SyncSound
<1>8. CASE Edit
  <2>1. UNCHANGED <<locking, asked, mirror, synced, jobs, key>>
        /\ flow' = [flow EXCEPT !["edit"] = "acted"] /\ flow["edit"] = "locked"
    BY <1>8 DEF Edit
  <2>2. flow'["edit"] = "acted" /\ flow'["brokers"] = flow["brokers"]
        /\ flow' \in [Flow -> {"idle", "locked", "asking", "acted", "released"}]
    BY <1>1, <2>1 DEF AskedSound, Flow
  <2>3. CASE Connected
    <3>1. Ca \in Clean /\ Ca.of = conn.vault
      BY <1>1, <2>3, CaIsOwn
    <3>2. PICK d : d = [Ca EXCEPT !.rows = 1 - @]
      OBVIOUS
    <3>3. d \in Clean /\ d.of = conn.vault
      BY <3>1, <3>2, Databases
    <3>4. stored' = [stored EXCEPT ![conn.vault] = d] /\ conn' = [conn EXCEPT !.ca = d]
      BY <1>8, <2>3, <3>2 DEF Edit
    <3>5. d \in Clean /\ conn.operator \in Nat
      BY <1>2, <2>3, <3>3
    <3>6. conn' = Holding(d, conn.operator)
      BY <1>1, <3>4, <3>5 DEF ConnSound, Holding
    <3>7. ConnSound' /\ conn'.vault = conn.vault /\ conn'.operator = conn.operator
      BY <1>1, <1>2, <2>1, <2>3, <3>3, <3>5, <3>6, WithDatabase
    <3>8. StoresSound' /\ SyncSound'
      BY <1>2, <1>7, <2>1, <2>3, <3>3, <3>4
    <3>9. AskedSound' /\ LockSound'
      BY <1>1, <2>1, <2>2, <3>6, <3>7 DEF AskedSound, LockSound, locking, Flow, Connected
    <3>10. QED
      BY <3>7, <3>8, <3>9 DEF SessionInv
  <2>4. CASE ~Connected
    <3>1. UNCHANGED <<conn, stored>>
      BY <1>8, <2>4 DEF Edit
    <3>2. ConnSound' /\ StoresSound' /\ SyncSound'
      BY <1>1, <2>1, <3>1 DEF ConnSound, StoresSound, SyncSound
    <3>3. AskedSound' /\ LockSound'
      BY <1>1, <2>1, <2>2, <2>4, <3>1 DEF AskedSound, LockSound, locking
    <3>4. QED
      BY <3>2, <3>3 DEF SessionInv
  <2>5. QED
    BY <2>3, <2>4
<1>9. CASE AskBrokers
  <2>1. UNCHANGED <<stored, locking, mirror, synced, jobs, key>> /\ flow["brokers"] = "locked"
    BY <1>9 DEF AskBrokers
  <2>2. StoresSound' /\ SyncSound'
    BY <1>1, <2>1 DEF StoresSound, SyncSound
  <2>3. CASE Connected
    <3>1. Ca \in Clean /\ Ca.of = conn.vault
      BY <1>1, <2>3, CaIsOwn
    <3>2. Ca \in Clean /\ conn.session \in Nat
      BY <1>2, <3>1
    <3>3. conn' = Holding(Ca, conn.session) /\ flow' = [flow EXCEPT !["brokers"] = "asking"]
          /\ asked' = [vault |-> conn.vault, operator |-> conn.session]
      BY <1>1, <1>9, <2>3, <3>2 DEF AskBrokers, WithCa, ConnSound, Holding
    <3>4. ConnSound' /\ conn'.vault = conn.vault
      BY <1>1, <1>2, <2>1, <2>3, <3>1, <3>2, <3>3, WithDatabase
    <3>5. flow'["brokers"] = "asking"
          /\ flow' \in [Flow -> {"idle", "locked", "asking", "acted", "released"}]
      BY <1>1, <3>3 DEF AskedSound, Flow
    <3>6. asked'.operator = conn.session /\ asked'.vault = conn.vault
      BY <3>3
    <3>7. AskedSound'
      BY <1>2, <2>3, <3>3, <3>4, <3>5, <3>6 DEF AskedSound
    <3>8. LockSound'
      BY <1>1, <2>1, <3>3, <3>4, <3>5 DEF LockSound, locking, Flow, Connected
    <3>9. QED
      BY <2>2, <3>4, <3>7, <3>8 DEF SessionInv
  <2>4. CASE ~Connected
    <3>1. UNCHANGED <<conn, asked>> /\ flow' = [flow EXCEPT !["brokers"] = "acted"]
      BY <1>9, <2>4 DEF AskBrokers
    <3>2. ConnSound' /\ AskedSound' /\ LockSound'
      BY <1>1, <2>1, <2>4, <3>1 DEF ConnSound, AskedSound, LockSound, locking, Flow
    <3>3. QED
      BY <2>2, <3>2 DEF SessionInv
  <2>5. QED
    BY <2>3, <2>4
<1>10. CASE RecordAnswers
  <2>1. UNCHANGED <<locking, mirror, synced, jobs, key>> /\ flow["brokers"] = "asking"
        /\ flow' = [flow EXCEPT !["brokers"] = "acted"]
    BY <1>10 DEF RecordAnswers
  <2>2. flow'["brokers"] = "acted"
        /\ flow' \in [Flow -> {"idle", "locked", "asking", "acted", "released"}]
    BY <1>1, <2>1 DEF AskedSound, Flow
  <2>3. AskedSound'
    BY <2>2 DEF AskedSound
  <2>4. CASE Connected
    <3>1. Ca \in Clean /\ Ca.of = conn.vault
      BY <1>1, <2>4, CaIsOwn
    <3>2. PICK d \in Clean : /\ d.of = conn.vault /\ conn' = [conn EXCEPT !.ca = d]
                             /\ stored' = stored \/ stored' = [stored EXCEPT ![conn.vault] = d]
      <4>1. CASE SameSession
        <5>1. asked.vault = conn.vault
          BY <1>1, <2>1, <4>1 DEF AskedSound, SameSession
        <5>2. PICK d : d = [Ca EXCEPT !.rows = 1 - @]
          OBVIOUS
        <5>3. d \in Clean /\ d.of = conn.vault
          BY <3>1, <5>2, Databases
        <5>4. [Ca EXCEPT !.rows = 1 - @, !.mixed = @ \/ asked.vault # conn.vault] = d
          BY <3>1, <5>1, <5>2 DEF Clean, Database
        <5>5. conn' = [conn EXCEPT !.ca = d] /\ stored' = [stored EXCEPT ![conn.vault] = d]
          BY <1>10, <4>1, <5>4 DEF RecordAnswers
        <5>6. QED
          BY <5>3, <5>5
      <4>2. CASE ~SameSession
        <5>1. conn' = [conn EXCEPT !.ca = Ca] /\ stored' = stored
          BY <1>10, <2>4, <4>2 DEF RecordAnswers, WithCa
        <5>2. QED
          BY <3>1, <5>1
      <4>3. QED
        BY <4>1, <4>2
    <3>3. d \in Clean /\ conn.operator \in Nat
      BY <1>2, <3>2
    <3>4. conn' = Holding(d, conn.operator)
      BY <1>1, <3>2, <3>3 DEF ConnSound, Holding
    <3>5. ConnSound' /\ conn'.vault = conn.vault
      BY <1>1, <1>2, <2>1, <2>4, <3>2, <3>3, <3>4, WithDatabase
    <3>6. StoresSound' /\ SyncSound'
      BY <1>2, <1>7, <2>1, <2>4, <3>2
    <3>7. LockSound'
      BY <1>1, <2>1, <2>2, <3>4, <3>5 DEF LockSound, locking, Flow, Connected
    <3>8. QED
      BY <2>3, <3>5, <3>6, <3>7 DEF SessionInv
  <2>5. CASE ~Connected
    <3>1. UNCHANGED <<conn, stored>>
      BY <1>10, <2>5 DEF RecordAnswers, SameSession
    <3>2. ConnSound' /\ StoresSound' /\ SyncSound' /\ LockSound'
      BY <1>1, <2>1, <2>5, <3>1 DEF ConnSound, StoresSound, SyncSound, LockSound, locking
    <3>3. QED
      BY <2>3, <3>2 DEF SessionInv
  <2>6. QED
    BY <2>4, <2>5
<1>11. ASSUME NEW f \in Flow, ReleaseLock(f)
       PROVE  SessionInv'
  <2>1. UNCHANGED <<conn, stored, asked, mirror, synced, jobs, key>>
    BY <1>11 DEF ReleaseLock
  <2>2. PICK l \in {"idle", "released"} : flow' = [flow EXCEPT ![f] = l]
    BY <1>11 DEF ReleaseLock
  <2>3. LockSound'
    <3>1. CASE Connected
      <4>1. orphans' \subseteq amiss' /\ (held' # NoVault => held' \in amiss')
        BY <1>11, <1>19, <3>1 DEF ReleaseLock
      <4>2. QED
        BY <4>1 DEF LockSound
    <3>2. CASE ~Connected
      <4>1. UNCHANGED <<held, orphans, amiss>>
        BY <1>11, <3>2 DEF ReleaseLock, locking
      <4>2. QED
        BY <1>1, <3>2, <4>1 DEF LockSound
    <3>3. QED
      BY <3>1, <3>2
  <2>4. AskedSound'
    BY <1>1, <2>1, <2>2 DEF AskedSound, Flow
  <2>5. ConnSound' /\ StoresSound' /\ SyncSound'
    BY <1>1, <2>1 DEF ConnSound, StoresSound, SyncSound
  <2>6. QED
    BY <2>3, <2>4, <2>5 DEF SessionInv
<1>12. ASSUME NEW d \in Clean, d.of = conn.vault, Connected, conn' = [conn EXCEPT !.ca = d],
              key' \in {key, conn.vault}, UNCHANGED <<locking, flow, asked>>
       PROVE  ConnSound' /\ AskedSound' /\ LockSound'
  <2>1. d \in Clean /\ conn.operator \in Nat
    BY <1>2, <1>12
  <2>2. conn' = Holding(d, conn.operator)
    BY <1>1, <1>12, <2>1 DEF ConnSound, Holding
  <2>3. ConnSound' /\ conn'.vault = conn.vault /\ conn'.operator = conn.operator
    BY <1>1, <1>2, <1>12, <2>1, <2>2, WithDatabase
  <2>4. QED
    BY <1>1, <1>12, <2>2, <2>3 DEF AskedSound, LockSound, locking, Connected
<1>13. ASSUME NEW f \in Flow, SyncPrivateStore(f)
       PROVE  SessionInv'
  <2>1. UNCHANGED <<stored, locking, asked, mirror, synced, key>> /\ flow[f] = "released"
        /\ flow' = [flow EXCEPT ![f] = "idle"]
    BY <1>13 DEF SyncPrivateStore
  <2>2. /\ flow' \in [Flow -> {"idle", "locked", "asking", "acted", "released"}]
        /\ flow'["brokers"] = "asking" => flow["brokers"] = "asking"
        /\ \A g \in Flow : flow[g] \in {"locked", "asking", "acted"} => flow'[g] = flow[g]
    BY <1>1, <2>1 DEF AskedSound, Flow
  <2>3. CASE Connected
    <3>1. Ca \in Clean /\ Ca.of = conn.vault /\ conn' = [conn EXCEPT !.ca = Ca]
      BY <1>1, <1>13, <2>3, CaIsOwn DEF SyncPrivateStore
    <3>2. Ca \in Clean /\ conn.operator \in Nat
      BY <1>2, <3>1
    <3>3. conn' = Holding(Ca, conn.operator)
      BY <1>1, <3>1, <3>2 DEF ConnSound, Holding
    <3>4. ConnSound' /\ conn'.vault = conn.vault /\ conn'.operator = conn.operator
      BY <1>1, <1>2, <2>1, <2>3, <3>1, <3>2, <3>3, WithDatabase
    <3>5. jobs' = jobs \/ jobs' = Append(jobs, Ca)
      BY <1>13 DEF SyncPrivateStore
    <3>6. jobs' \in Seq(Clean)
      BY <1>1, <3>1, <3>5 DEF StoresSound
    <3>7. StoresSound' /\ SyncSound'
      BY <1>1, <2>1, <3>6 DEF StoresSound, SyncSound
    <3>8. AskedSound' /\ LockSound'
      BY <1>1, <2>1, <2>2, <3>3, <3>4 DEF AskedSound, LockSound, locking, Connected
    <3>9. QED
      BY <3>4, <3>7, <3>8 DEF SessionInv
  <2>4. CASE ~Connected
    <3>1. UNCHANGED <<conn, jobs>>
      BY <1>13, <2>4 DEF SyncPrivateStore
    <3>2. ConnSound' /\ StoresSound' /\ SyncSound' /\ AskedSound' /\ LockSound'
      BY <1>1, <2>1, <2>2, <2>4, <3>1 DEF ConnSound, StoresSound, SyncSound, AskedSound, LockSound, locking
    <3>3. QED
      BY <3>2 DEF SessionInv
  <2>5. QED
    BY <2>3, <2>4
<1>14. ASSUME NEW i \in 1..Len(jobs), Upload(i)
       PROVE  SessionInv'
  <2>1. UNCHANGED <<conn, stored, locking, flow, asked, key>>
    BY <1>14 DEF Upload
  <2>2. ConnSound' /\ AskedSound' /\ LockSound'
    BY <1>1, <2>1 DEF ConnSound, AskedSound, LockSound, locking, Connected
  <2>3. jobs' \in Seq(Clean)
    <3>1. jobs \in Seq(Clean) /\ Len(jobs) \in Nat /\ \A k \in 1..Len(jobs) : jobs[k] \in Clean
      BY <1>1 DEF StoresSound
    <3>2. \A k \in 1..(i - 1) : jobs[k] \in Clean
      BY <3>1
    <3>3. \A k \in (i + 1)..Len(jobs) : jobs[k] \in Clean
      BY <3>1
    <3>4. SubSeq(jobs, 1, i - 1) \in Seq(Clean)
      BY <3>1, <3>2, SubSeqProperties
    <3>5. SubSeq(jobs, i + 1, Len(jobs)) \in Seq(Clean)
      BY <3>1, <3>3, SubSeqProperties
    <3>6. QED
      BY <1>14, <3>4, <3>5, ConcatProperties DEF Upload, Without
  <2>4. jobs[i] \in Clean
    BY <1>1 DEF StoresSound
  <2>5. PICK d : d = jobs[i]
    OBVIOUS
  <2>6. d \in Clean /\ d.of \in Vault /\ d # NoDb
    BY <2>4, <2>5, Databases
  <2>7. \/ mirror' = [mirror EXCEPT ![d.of] = d] /\ synced' = d
        \/ mirror' = [mirror EXCEPT ![d.of] = Unsure] /\ synced' = synced
        \/ UNCHANGED <<mirror, synced>>
    BY <1>14, <2>5 DEF Upload
  <2>8. StoresSound'
    <3>1. \A v \in Vault : mirror'[v] \in {mirror[v], d, Unsure} /\ mirror'[v].of \in {v, NoVault}
      BY <1>1, <2>6, <2>7, Databases DEF StoresSound
    <3>2. mirror' \in [Vault -> Clean \cup {NoDb, Unsure}]
      BY <1>1, <2>6, <2>7 DEF StoresSound
    <3>3. synced' \in Clean \cup {NoDb}
      BY <1>1, <2>6, <2>7 DEF StoresSound
    <3>4. QED
      BY <1>1, <2>1, <2>3, <3>1, <3>2, <3>3 DEF StoresSound
  <2>9. SyncSound'
    <3>1. synced # NoDb => synced.of \in Vault
      BY <1>1, Databases DEF StoresSound
    <3>2. QED
      BY <1>1, <2>6, <2>7, <3>1 DEF StoresSound, SyncSound
  <2>10. QED
    BY <2>2, <2>8, <2>9 DEF SessionInv
<1>15. CASE Backfill
  <2>1. UNCHANGED <<stored, locking, flow, asked, mirror, synced, jobs>> /\ Connected
        /\ key' = conn.vault
    BY <1>15 DEF Backfill
  <2>2. Ca \in Clean /\ Ca.of = conn.vault
    BY <1>1, <2>1, CaIsOwn
  <2>3. PICK d : d = [Ca EXCEPT !.rows = 1 - @]
    OBVIOUS
  <2>4. d \in Clean /\ d.of = conn.vault
    BY <2>2, <2>3, Databases
  <2>5. conn' = [conn EXCEPT !.ca = Ca] \/ conn' = [conn EXCEPT !.ca = d]
    BY <1>15, <2>3 DEF Backfill, WithCa
  <2>6. ConnSound' /\ AskedSound' /\ LockSound'
    BY <1>12, <2>1, <2>2, <2>4, <2>5
  <2>7. StoresSound' /\ SyncSound'
    BY <1>1, <2>1 DEF StoresSound, SyncSound
  <2>8. QED
    BY <2>6, <2>7 DEF SessionInv
<1>16. CASE Persist
  <2>1. UNCHANGED <<conn, locking, flow, asked, mirror, synced, jobs, key>>
    BY <1>16 DEF Persist
  <2>2. ConnSound' /\ AskedSound' /\ LockSound'
    BY <1>1, <2>1 DEF ConnSound, AskedSound, LockSound, locking, Connected
  <2>3. StoresSound' /\ SyncSound'
    <3>1. CASE conn.ca = NoDb
      BY <1>1, <1>16, <2>1, <3>1 DEF Persist, StoresSound, SyncSound
    <3>2. CASE conn.ca # NoDb
      <4>1. conn.ca \in Clean /\ conn.ca.of = conn.vault /\ conn.vault \in Vault
        BY <1>1, <3>2, Databases DEF ConnSound, Holding
      <4>2. stored' = [stored EXCEPT ![conn.vault] = conn.ca]
        BY <1>16, <3>2 DEF Persist
      <4>3. QED
        BY <1>7, <2>1, <4>1, <4>2
    <3>3. QED
      BY <3>1, <3>2
  <2>4. QED
    BY <2>2, <2>3 DEF SessionInv
<1>17. CASE ForgetPreloadedKey
  <2>1. UNCHANGED <<conn, stored, locking, flow, asked, mirror, synced, jobs>> /\ key' = NoVault
    BY <1>17 DEF ForgetPreloadedKey
  <2>2. QED
    BY <1>1, <2>1 DEF SessionInv, ConnSound, StoresSound, AskedSound, LockSound, SyncSound, locking, Connected
<1>18. CASE AcquireFails
  <2>1. UNCHANGED <<conn, stored, held, flow, asked, mirror, synced, jobs, key>>
        /\ orphans' = orphans \cup {conn.vault} /\ amiss' = amiss \cup {conn.vault}
    BY <1>18 DEF AcquireFails
  <2>2. QED
    BY <1>1, <2>1 DEF SessionInv, ConnSound, StoresSound, AskedSound, LockSound, SyncSound, Connected
<1>20. QED
  BY <1>3, <1>4, <1>5, <1>6, <1>8, <1>9, <1>10, <1>11, <1>13, <1>14, <1>15, <1>16, <1>17, <1>18
     DEF SessionNext

(***************************************************************************)
(* The invariant of the session holds throughout, in every area.           *)
(***************************************************************************)
LEMMA SessionAlways == Spec => []SessionInv
<1>1. Init => SessionInv
  <2> SUFFICES ASSUME SessionInit PROVE SessionInv
    BY DEF Init
  <2>1. ConnSound
    BY DEF SessionInit, ConnSound, NoConn
  <2>2. ASSUME NEW v \in Vault
        PROVE  [NoDb EXCEPT !.of = v] \in Clean /\ [NoDb EXCEPT !.of = v].of = v
    <3>1. PICK d : d = [NoDb EXCEPT !.of = v]
      OBVIOUS
    <3>2. d = [of |-> v, rows |-> 0, mixed |-> FALSE]
      BY <3>1 DEF NoDb
    <3>3. d.of = v /\ d.mixed = FALSE /\ d \in Database
      BY <3>2 DEF Database
    <3>4. QED
      BY <3>1, <3>3 DEF Clean
  <2>3. StoresSound
    <3>1. stored \in [Vault -> Clean] /\ \A v \in Vault : stored[v].of = v
      BY <2>2 DEF SessionInit
    <3>2. mirror \in [Vault -> Clean \cup {NoDb, Unsure}] /\ \A v \in Vault : mirror[v].of \in {v, NoVault}
      BY Databases DEF SessionInit
    <3>3. jobs \in Seq(Clean) /\ synced \in Clean \cup {NoDb}
      BY DEF SessionInit
    <3>4. QED
      BY <3>1, <3>2, <3>3 DEF StoresSound
  <2>4. AskedSound /\ LockSound /\ SyncSound
    BY DEF SessionInit, AskedSound, LockSound, SyncSound, Flow
  <2>5. QED
    BY <2>1, <2>3, <2>4 DEF SessionInv
<1>2. SessionInv /\ [Next]_<<vars, sessionVars, schemaVars, copyVars, watchVars>> => SessionInv'
  BY SessionSteps, SessionStep
<1>3. QED
  BY <1>1, <1>2, PTL DEF Spec

(***************************************************************************)
(* Whatever vaults the operator goes through, and whatever runs in the     *)
(* background meanwhile, no vault, private store or memory gets another    *)
(* vault's database, brokers or key.                                       *)
(***************************************************************************)
THEOREM VaultsStayApart == Spec => []OwnVault
<1>1. SessionInv => OwnVault
  <2> SUFFICES ASSUME SessionInv PROVE OwnVault
    OBVIOUS
  <2>1. \A d \in Clean : d.mixed = FALSE
    BY DEF Clean
  <2>2. \A v \in Vault : /\ stored[v].of = v /\ ~stored[v].mixed
                         /\ mirror[v].of \in {v, NoVault} /\ ~mirror[v].mixed
    BY <2>1, Databases DEF SessionInv, StoresSound
  <2>3. QED
    BY <2>1, <2>2 DEF SessionInv, ConnSound, OwnVault
<1>2. QED
  BY <1>1, SessionAlways, PTL

(***************************************************************************)
(* With no withLock under way, a lock item of the app is only where its    *)
(* deletion failed or connect went to another vault under it, whichever    *)
(* withLock or disconnect released the others.                             *)
(***************************************************************************)
THEOREM NoLockLeft == Spec => []LocksCleanedUp
<1>1. SessionInv => LocksCleanedUp
  <2> SUFFICES ASSUME SessionInv, \A f \in Flow : flow[f] \in {"idle", "released"},
                      NEW x \in orphans \cup HeldIn
               PROVE  x \in amiss
    BY DEF LocksCleanedUp
  <2>1. x \in orphans \/ (x = held /\ held # NoVault)
    BY DEF HeldIn
  <2>2. orphans \subseteq amiss /\ (held # NoVault => held \in amiss)
    BY DEF SessionInv, LockSound
  <2>3. QED
    BY <2>1, <2>2
<1>2. QED
  BY <1>1, SessionAlways, PTL

(***************************************************************************)
(* An upload that is skipped is of a database the private store has, or    *)
(* that a failed upload may have replaced.                                 *)
(***************************************************************************)
THEOREM SkipsRightly == Spec => SkippedIsUploaded
<1>1. SessionInv /\ [Next]_<<vars, sessionVars, schemaVars, copyVars, watchVars>> =>
         [\A f \in Flow : (flow[f] = "released" /\ flow'[f] = "idle" /\ Skips) =>
            mirror[conn.vault] \in {Ca, Unsure}]_sessionVars
  <2> SUFFICES ASSUME SessionInv, Skips PROVE mirror[conn.vault] \in {Ca, Unsure}
    OBVIOUS
  <2>1. Ca \in Clean /\ Ca.of = conn.vault /\ Ca = synced
    BY CaIsOwn DEF SessionInv, Skips
  <2>2. QED
    BY <2>1, Databases DEF SessionInv, SyncSound
<1>2. QED
  BY <1>1, SessionAlways, PTL DEF Spec, SkippedIsUploaded

-----------------------------------------------------------------------------
(* The local copies *)

(***************************************************************************)
(* A set of natural numbers has a least one, and one that is bounded has a *)
(* greatest one.                                                           *)
(***************************************************************************)
LEMMA LeastExists ==
  ASSUME NEW T, T \subseteq Nat, T # {}
  PROVE  \E x \in T : \A y \in T : x <= y
<1>1. PICK x \in T : \A y \in T : <<y, x>> \notin OpToRel(<, Nat)
  BY NatLessThanWellFounded, WFMin
<1>2. \A y \in T : ~(y < x)
  BY <1>1 DEF OpToRel
<1>3. QED
  BY <1>2

(***************************************************************************)
(* The greatest of a set of bounded numbers.                               *)
(***************************************************************************)
LEMMA GreatestExists ==
  ASSUME NEW n \in Nat, NEW T, T \subseteq 1..n, T # {}
  PROVE  \E x \in T : \A y \in T : y <= x
<1> DEFINE Left == {k \in Nat : n - k \in T}
<1>1. Left # {}
  <2>1. PICK x \in T : TRUE
    OBVIOUS
  <2>2. n - x \in Nat /\ n - (n - x) = x
    OBVIOUS
  <2>3. n - x \in Left
    BY <2>2
  <2>4. QED
    BY <2>3
<1>2. Left \subseteq Nat
  OBVIOUS
<1>3. PICK k \in Left : \A j \in Left : k <= j
  BY <1>1, <1>2, LeastExists
<1>4. k \in Nat /\ n - k \in T
  BY <1>3
<1>5. ASSUME NEW y \in T
      PROVE  y <= n - k
  <2>1. n - y \in Nat /\ n - (n - y) = y /\ y \in 1..n
    OBVIOUS
  <2>2. n - y \in Left
    BY <2>1
  <2>3. k <= n - y
    BY <1>3, <2>2
  <2>4. QED
    BY <1>4, <2>1, <2>3
<1>6. QED
  BY <1>4, <1>5

(***************************************************************************)
(* File f is the newest of those named after second s or an earlier one.   *)
(***************************************************************************)
NewestAt(f, s) == f <= s /\ \A k \in Second : f < k /\ k <= s => files[k] = NoCopy

SavedAfter(s) == {k \in Second : k > s /\ saves[k] # NoCopy}

(***************************************************************************)
(* Every file is of a second with a save; and as long as fewer than        *)
(* KeepCopies seconds with a save follow, the newest file at a second has  *)
(* what was saved last in it.                                              *)
(***************************************************************************)
CopiesTyped ==
    /\ clock \in Second
    /\ files \in [Second -> Dump \cup {NoCopy}] /\ saves \in [Second -> Dump \cup {NoCopy}]
    /\ \A k \in Second : files[k] # NoCopy => saves[k] # NoCopy
    /\ \A k \in Second : k > clock => saves[k] = NoCopy

NewestKept ==
    \A s \in Second : saves[s] # NoCopy /\ Cardinality(SavedAfter(s)) < KeepCopies =>
        \E f \in Second : files[f] = saves[s] /\ NewestAt(f, s)

CopiesInv == CopiesTyped /\ NewestKept

(***************************************************************************)
(* Among seconds, one set within another has no more of them.              *)
(***************************************************************************)
LEMMA FewerSeconds ==
  ASSUME NEW A, NEW B, A \subseteq B, B \subseteq Second
  PROVE  Cardinality(A) \in Nat /\ Cardinality(B) \in Nat /\ Cardinality(A) <= Cardinality(B)
<1>1. IsFiniteSet(Second)
  BY CopiesAssumption, FS_Interval DEF Second
<1>2. IsFiniteSet(A) /\ IsFiniteSet(B)
  BY <1>1, FS_Subset
<1>3. QED
  BY <1>2, FS_Subset, FS_CardinalityType

(***************************************************************************)
(* What is newest has nothing after it.                                    *)
(***************************************************************************)
LEMMA NewestIsLast ==
  ASSUME CopiesTyped, NEW c, Newest(files) = c, c # NoCopy
  PROVE  \E f \in Second : files[f] = c /\ \A k \in Second : k > f => files[k] = NoCopy
<1> DEFINE named == {s \in Second : files[s] # NoCopy}
<1>1. named # {}
  BY DEF Newest
<1>2. \E s \in named : \A k \in named : k <= s
  BY <1>1, CopiesAssumption, GreatestExists DEF Second
<1>3. PICK f : f = CHOOSE s \in named : \A k \in named : k <= s
  OBVIOUS
<1>4. f \in named /\ \A k \in named : k <= f
  BY <1>2, <1>3
<1>5. files[f] = c
  BY <1>1, <1>3 DEF Newest
<1>6. \A k \in Second : k > f => files[k] = NoCopy
  BY <1>4, CopiesAssumption DEF Second
<1>7. QED
  BY <1>4, <1>5, <1>6

(***************************************************************************)
(* A write keeps the invariant: a skipped copy is the newest, and a file   *)
(* is pruned only when KeepCopies later seconds have a save.               *)
(***************************************************************************)
LEMMA WriteKeeps ==
  ASSUME CopiesInv, NEW c \in Dump, Write(c)
  PROVE  CopiesInv'
<1>1. CopiesTyped /\ NewestKept /\ c # NoCopy
  BY CopiesAssumption DEF CopiesInv
<1>2. /\ clock' = clock /\ saves' = [saves EXCEPT ![clock] = c]
      /\ saves'[clock] = c /\ \A k \in Second \ {clock} : saves'[k] = saves[k]
  BY <1>1 DEF Write, CopiesTyped
<1>3. clock \in Second /\ \A s \in Second : s \in Nat
  BY <1>1, CopiesAssumption DEF CopiesTyped, Second
<1>4. \A s \in Second : SavedAfter(s) \subseteq SavedAfter(s)'
  BY <1>1, <1>2 DEF SavedAfter
<1>5. ASSUME NEW s \in Second, saves'[s] # NoCopy, Cardinality(SavedAfter(s)') < KeepCopies, s # clock
      PROVE  s < clock /\ \E f \in Second : files[f] = saves[s] /\ NewestAt(f, s)
  <2>1. saves[s] # NoCopy
    BY <1>2, <1>5
  <2>2. s < clock
    BY <1>1, <1>3, <1>5, <2>1 DEF CopiesTyped
  <2>3. SavedAfter(s)' \subseteq Second
    BY DEF SavedAfter
  <2>4. Cardinality(SavedAfter(s)) < KeepCopies
    BY <1>4, <1>5, <2>3, FewerSeconds, CopiesAssumption
  <2>5. QED
    BY <1>1, <2>1, <2>2, <2>4 DEF NewestKept
<1>6. CASE Unchanged(c)
  <2>1. files' = files
    BY <1>6 DEF Write
  <2>2. CopiesTyped'
    BY <1>1, <1>2, <1>3, <2>1 DEF CopiesTyped
  <2>3. PICK g \in Second : files[g] = c /\ \A k \in Second : k > g => files[k] = NoCopy
    BY <1>1, <1>6, NewestIsLast DEF Unchanged
  <2>4. g <= clock
    BY <1>1, <1>3, <2>3 DEF CopiesTyped
  <2>5. \A s \in Second : s = clock => files'[g] = saves'[s] /\ NewestAt(g, s)'
    BY <1>2, <1>3, <2>1, <2>3, <2>4 DEF NewestAt
  <2>6. ASSUME NEW s \in Second, saves'[s] # NoCopy, Cardinality(SavedAfter(s)') < KeepCopies
        PROVE  \E f \in Second : files'[f] = saves'[s] /\ NewestAt(f, s)'
    <3>1. CASE s = clock
      BY <2>3, <2>5, <3>1
    <3>2. CASE s # clock
      BY <1>2, <1>5, <2>1, <2>6, <3>2 DEF NewestAt
    <3>3. QED
      BY <3>1, <3>2
  <2>7. NewestKept'
    BY <2>6 DEF NewestKept
  <2>8. QED
    BY <2>2, <2>7 DEF CopiesInv
<1>7. CASE ~Unchanged(c)
  <2>1. PICK dir : dir = [files EXCEPT ![clock] = c]
    OBVIOUS
  <2>2. /\ dir \in [Second -> Dump \cup {NoCopy}] /\ dir[clock] = c
        /\ \A k \in Second \ {clock} : dir[k] = files[k]
    BY <1>1, <2>1 DEF CopiesTyped
  <2>3. \A k \in Second :
           files'[k] = IF Cardinality(Later(dir, k)) >= KeepCopies THEN NoCopy ELSE dir[k]
    BY <1>7, <2>1 DEF Write, Pruned
  <2>4. files' \in [Second -> Dump \cup {NoCopy}]
    BY <1>7, <2>1, <2>2 DEF Write, Pruned
  <2>5. CopiesTyped'
    <3>1. \A k \in Second : files'[k] # NoCopy => saves'[k] # NoCopy
      BY <1>1, <1>2, <2>2, <2>3 DEF CopiesTyped
    <3>2. saves' \in [Second -> Dump \cup {NoCopy}]
      BY <1>1, <1>2 DEF CopiesTyped
    <3>3. clock' \in Second /\ \A k \in Second : k > clock' => saves'[k] = NoCopy
      BY <1>1, <1>2, <1>3 DEF CopiesTyped
    <3>4. QED
      BY <2>4, <3>1, <3>2, <3>3 DEF CopiesTyped
  <2>6. ASSUME NEW s \in Second, NEW f \in Second, Cardinality(SavedAfter(s)') < KeepCopies,
               f <= s, dir[f] # NoCopy, \A k \in Second : f < k /\ k <= s => dir[k] = NoCopy
        PROVE  files'[f] = dir[f] /\ NewestAt(f, s)'
    <3>1. Later(dir, f) \subseteq SavedAfter(s)'
      <4>1. \A k \in Second : dir[k] # NoCopy => saves'[k] # NoCopy
        BY <1>1, <1>2, <2>2 DEF CopiesTyped
      <4>2. \A k \in Later(dir, f) : k \in Second /\ k > s /\ dir[k] # NoCopy
        BY <1>3, <2>6 DEF Later
      <4>3. QED
        BY <4>1, <4>2 DEF SavedAfter
    <3>2. Cardinality(Later(dir, f)) < KeepCopies
      <4>1. SavedAfter(s)' \subseteq Second
        BY DEF SavedAfter
      <4>2. QED
        BY <2>6, <3>1, <4>1, FewerSeconds, CopiesAssumption
    <3>3. files'[f] = dir[f]
      <4>1. Cardinality(Later(dir, f)) \in Nat
        BY FewerSeconds DEF Later
      <4>2. QED
        BY <2>3, <3>2, <4>1, CopiesAssumption
    <3>4. \A k \in Second : f < k /\ k <= s => files'[k] = NoCopy
      BY <2>3, <2>6
    <3>5. QED
      BY <2>6, <3>3, <3>4 DEF NewestAt
  <2>7. ASSUME NEW s \in Second, saves'[s] # NoCopy, Cardinality(SavedAfter(s)') < KeepCopies
        PROVE  \E f \in Second : files'[f] = saves'[s] /\ NewestAt(f, s)'
    <3>1. CASE s = clock
      <4>1. s <= s /\ dir[s] # NoCopy /\ \A k \in Second : s < k /\ k <= s => dir[k] = NoCopy
        BY <1>1, <1>3, <2>2, <3>1
      <4>2. files'[s] = dir[s] /\ NewestAt(s, s)'
        BY <2>6, <2>7, <4>1
      <4>3. QED
        BY <1>2, <2>2, <3>1, <4>2
    <3>2. CASE s # clock
      <4>1. s < clock /\ saves'[s] = saves[s]
        BY <1>2, <1>5, <2>7, <3>2
      <4>2. PICK f \in Second : files[f] = saves[s] /\ NewestAt(f, s)
        BY <1>5, <2>7, <3>2
      <4>3. f <= s /\ f # clock /\ dir[f] = saves[s]
            /\ \A k \in Second : f < k /\ k <= s => dir[k] = NoCopy
        BY <1>3, <2>2, <4>1, <4>2 DEF NewestAt
      <4>4. files'[f] = dir[f] /\ NewestAt(f, s)'
        BY <2>6, <2>7, <4>1, <4>3
      <4>5. QED
        BY <4>1, <4>3, <4>4
    <3>3. QED
      BY <3>1, <3>2
  <2>8. NewestKept'
    BY <2>7 DEF NewestKept
  <2>9. QED
    BY <2>5, <2>8 DEF CopiesInv
<1>8. QED
  BY <1>6, <1>7

(***************************************************************************)
(* What was saved last in each of the latest KeepCopies seconds with a     *)
(* save is in a copy, however saves fall into seconds, repeat each other   *)
(* and push the older copies out.                                          *)
(***************************************************************************)
THEOREM RecentCopiesStay == Spec => []RecentKept
<1>1. Init => CopiesInv
  <2> SUFFICES ASSUME CopiesInit PROVE CopiesInv
    BY DEF Init
  <2>1. QED
    BY CopiesAssumption DEF CopiesInit, CopiesInv, CopiesTyped, NewestKept, Second
<1>2. CopiesInv /\ [Next]_<<vars, sessionVars, schemaVars, copyVars, watchVars>> => CopiesInv'
  <2> SUFFICES ASSUME CopiesInv, [Next]_<<vars, sessionVars, schemaVars, copyVars, watchVars>>
               PROVE  CopiesInv'
    OBVIOUS
  <2>1. CASE UNCHANGED <<files, saves, clock>>
    BY <2>1 DEF CopiesInv, CopiesTyped, NewestKept, NewestAt, SavedAfter
  <2>2. CASE UNCHANGED copyVars
    BY <2>1, <2>2 DEF copyVars
  <2>3. CASE WriteUnreadable
    BY <2>1, <2>3 DEF WriteUnreadable
  <2>4. CASE Tick
    BY <2>4, CopiesAssumption DEF Tick, CopiesInv, CopiesTyped, NewestKept, NewestAt, SavedAfter, Second
  <2>5. ASSUME NEW c \in Dump, Write(c)
        PROVE  CopiesInv'
    BY <2>5, WriteKeeps
  <2>6. QED
    BY <2>2, <2>3, <2>4, <2>5 DEF Next, CopiesNext
<1>3. CopiesInv => RecentKept
  <2>1. \A s \in Second : SavedAfter(s) = {k \in Second : k > s /\ saves[k] # NoCopy}
    BY DEF SavedAfter
  <2>2. QED
    BY <2>1 DEF CopiesInv, NewestKept, RecentKept
<1>4. QED
  BY <1>1, <1>2, <1>3, PTL DEF Spec

-----------------------------------------------------------------------------
(* What is shown of the certificates *)

(***************************************************************************)
(* The rows, and the profiles: one is of a row, or of a name alone when an *)
(* older version made it.                                                  *)
(***************************************************************************)
BookRow == [cn : Cn, end : Nat, dated : BOOLEAN, ignored : BOOLEAN,
            status : {"Valid", "Revoked", "Expired"}, gone : BOOLEAN]

BookSound ==
    /\ book \in [Issue -> BookRow \cup {NoCert}]
    /\ day \in Nat /\ scanned \in Nat /\ scanned <= day /\ changed \in BOOLEAN
    /\ \A n \in Booked : book[n].status = "Expired" => Over(n)

ProfilesSound ==
    \A p \in profiles :
        /\ p.cn \in Cn /\ p.generated \in BOOLEAN
        /\ \/ p.serial = 0 /\ p.generated
           \/ p.serial \in Booked /\ book[p.serial].cn = p.cn

(***************************************************************************)
(* What the last scan found is so of the rows as they were on its day,     *)
(* until one of them changes.                                              *)
(***************************************************************************)
ClassTrue(n) ==
    /\ WasOver(n) => /\ book[n].status = "Expired"
                     /\ seen.class[n] = IF seen.current[book[n].cn] # 0 THEN "superseded" ELSE "expired"
    /\ ~WasOver(n) /\ IsRevoked(n) => book[n].status = "Revoked" /\ seen.class[n] = "revoked"
    /\ WasInForce(n) => /\ book[n].status = "Valid"
                        /\ seen.class[n] \in {"soon", "warning", "valid"}
                        /\ seen.class[n] = "soon" <=> scanned + Soon > book[n].end

SeenTrue ==
    /\ \A n \in Booked : ClassTrue(n) /\ (n \in seen.ignored <=> book[n].ignored)
    /\ \A c \in Cn : (seen.current[c] = 0 /\ Alive(c) = {}) \/ seen.current[c] \in Alive(c)

WatchInv ==
    /\ BookSound /\ ProfilesSound
    /\ ~changed => SeenTrue

(***************************************************************************)
(* A row is not the absence of one.                                        *)
(***************************************************************************)
LEMMA RowIsBooked ==
  ASSUME NEW r \in BookRow
  PROVE  r # NoCert
<1>1. "end" \in DOMAIN r
  BY DEF BookRow
<1>2. "end" \notin DOMAIN NoCert
  BY DEF NoCert
<1>3. QED
  BY <1>1, <1>2

(***************************************************************************)
(* A scan leaves rows that are what it found of them: the one being        *)
(* revoked is revoked, and none of the others changes sides.               *)
(***************************************************************************)
LEMMA ScanIsTrue ==
  ASSUME BookSound, NEW r \in Issue \cup {0},
         book' = ScannedRows(r), seen' = ScannedSets(r), day' = day, scanned' = day
  PROVE  /\ SeenTrue' /\ book' \in [Issue -> BookRow \cup {NoCert}] /\ Booked' = Booked
         /\ \A n \in Booked : /\ book'[n].cn = book[n].cn
                              /\ book'[n].status = "Expired" => Over(n)'
<1>1. \A n \in Booked : n \in Issue /\ book[n] \in BookRow
  BY DEF Booked, BookSound
<1>2. \A n \in Issue \ Booked : book'[n] = NoCert
  BY DEF ScannedRows
<1>3. ASSUME NEW n \in Booked
      PROVE  /\ book'[n] \in BookRow /\ book'[n].cn = book[n].cn /\ book'[n].end = book[n].end
             /\ book'[n].ignored = book[n].ignored
             /\ book'[n].dated = (book[n].dated \/ (n = r /\ InForce(n)))
             /\ book'[n].status = IF Over(n) THEN "Expired"
                                  ELSE IF IsRevoked(n) \/ n = r THEN "Revoked" ELSE book[n].status
  <2>1. book[n] \in BookRow /\ book'[n] = Rescanned(n, r)
    BY <1>1 DEF ScannedRows
  <2>2. (book[n].dated \/ (n = r /\ InForce(n))) \in BOOLEAN
    BY <2>1 DEF BookRow
  <2>3. QED
    BY <2>1, <2>2 DEF Rescanned, BookRow
<1>4. Booked' = Booked
  BY <1>1, <1>2, <1>3, RowIsBooked DEF Booked
<1>5. \A n \in Booked : /\ Over(n)' <=> Over(n)
                        /\ WasOver(n)' <=> Over(n)
                        /\ WasInForce(n)' <=> InForce(n) /\ n # r
                        /\ ~Over(n) => (IsRevoked(n)' <=> ~InForce(n) \/ n = r)
  <2> SUFFICES ASSUME NEW n \in Booked
               PROVE  /\ Over(n)' <=> Over(n)
                      /\ WasOver(n)' <=> Over(n)
                      /\ WasInForce(n)' <=> InForce(n) /\ n # r
                      /\ ~Over(n) => (IsRevoked(n)' <=> ~InForce(n) \/ n = r)
    OBVIOUS
  <2>1. (Over(n)' <=> Over(n)) /\ (WasOver(n)' <=> Over(n))
    BY <1>3 DEF Over, WasOver
  <2>2. ~Over(n) => (IsRevoked(n)' <=> ~InForce(n) \/ n = r)
    BY <1>3 DEF IsRevoked, InForce
  <2>3. WasInForce(n)' <=> ~WasOver(n)' /\ ~IsRevoked(n)'
    BY <1>4 DEF WasInForce
  <2>4. QED
    BY <2>1, <2>2, <2>3 DEF InForce
<1>6. \A c \in Cn : Alive(c)' = Candidates(c, r)
  BY <1>3, <1>4, <1>5 DEF Alive, Named, Candidates
<1>7. \A c \in Cn : seen'.current[c] = IF Candidates(c, r) = {} THEN 0 ELSE Max(Candidates(c, r))
  BY DEF ScannedSets, ValidCnToSerial
<1>8. \A c \in Cn : (seen'.current[c] = 0 /\ Alive(c)' = {}) \/ seen'.current[c] \in Alive(c)'
  <2> SUFFICES ASSUME NEW c \in Cn, Candidates(c, r) # {}
               PROVE  Max(Candidates(c, r)) \in Candidates(c, r)
    BY <1>6, <1>7
  <2>1. Candidates(c, r) \subseteq 1..MaxIssued
    BY DEF Candidates, Booked, Issue
  <2>2. \E x \in Candidates(c, r) : \A y \in Candidates(c, r) : y <= x
    BY <2>1, WatchAssumption, GreatestExists
  <2>3. \E x \in Candidates(c, r) : \A y \in Candidates(c, r) : x >= y
    BY <2>1, <2>2
  <2>4. QED
    BY <2>3 DEF Max
<1>9. ASSUME NEW n \in Booked
      PROVE  ClassTrue(n)' /\ (n \in seen'.ignored <=> book'[n].ignored)
  <2>1. seen'.class[n] = Class(n, seen'.current, r) /\ (n \in seen'.ignored <=> book[n].ignored)
    BY <1>1 DEF ScannedSets
  <2>2. book[n].status \in {"Valid", "Revoked", "Expired"} /\ book'[n].cn = book[n].cn
    BY <1>1, <1>3 DEF BookRow
  <2>3. CASE Over(n)
    <3>1. seen'.class[n] = IF seen'.current[book[n].cn] # 0 THEN "superseded" ELSE "expired"
      BY <2>1, <2>3 DEF Class
    <3>2. book'[n].status = "Expired" /\ WasOver(n)' /\ ~WasInForce(n)'
      BY <1>3, <1>5, <2>3 DEF InForce
    <3>3. QED
      BY <1>3, <2>1, <3>1, <3>2 DEF ClassTrue
  <2>4. CASE ~Over(n) /\ (~InForce(n) \/ n = r)
    <3>1. seen'.class[n] = "revoked"
      BY <2>1, <2>4 DEF Class, InForce
    <3>2. book'[n].status = "Revoked" /\ ~WasOver(n)' /\ ~WasInForce(n)'
      BY <1>3, <1>5, <2>4 DEF InForce
    <3>3. QED
      BY <1>3, <2>1, <3>1, <3>2 DEF ClassTrue
  <2>5. CASE ~Over(n) /\ InForce(n) /\ n # r
    <3>1. ~IsRevoked(n)
      BY <2>5 DEF InForce
    <3>2. seen'.class[n] = IF day + Soon > book[n].end THEN "soon"
                           ELSE IF day + Caution > book[n].end THEN "warning" ELSE "valid"
      BY <2>1, <2>5, <3>1 DEF Class
    <3>3. book'[n].status = "Valid"
      BY <1>3, <2>2, <2>5, <3>1 DEF BookSound, IsRevoked
    <3>4. ~WasOver(n)' /\ ~IsRevoked(n)'
      BY <1>5, <2>5
    <3>5. QED
      BY <1>3, <2>1, <3>2, <3>3, <3>4 DEF ClassTrue
  <2>6. QED
    BY <2>3, <2>4, <2>5
<1>10. \A n \in Booked : book'[n].status = "Expired" => Over(n)'
  <2> SUFFICES ASSUME NEW n \in Booked, book'[n].status = "Expired" PROVE Over(n)
    BY <1>5
  <2>1. QED
    BY <1>3 DEF BookSound
<1>11. book' \in [Issue -> BookRow \cup {NoCert}]
  BY <1>2, <1>3 DEF ScannedRows
<1>12. QED
  BY <1>3, <1>4, <1>8, <1>9, <1>10, <1>11 DEF SeenTrue

(***************************************************************************)
(* A row that is added or marked is a change that the next scan will see.  *)
(***************************************************************************)
LEMMA RowsChange ==
  ASSUME WatchInv, book' \in [Issue -> BookRow \cup {NoCert}],
         \A n \in Booked : /\ book'[n] \in BookRow /\ book'[n].cn = book[n].cn
                           /\ book'[n].end = book[n].end /\ book'[n].status = book[n].status,
         \A n \in Issue \ Booked : book'[n] # NoCert => book'[n].status = "Valid",
         changed' = TRUE, UNCHANGED <<profiles, seen, day, scanned>>
  PROVE  WatchInv'
<1>1. \A n \in Booked : n \in Booked'
  BY RowIsBooked DEF Booked
<1>2. \A n \in Booked' : book'[n].status = "Expired" => Over(n)'
  BY DEF WatchInv, BookSound, Booked, Over
<1>3. BookSound'
  BY <1>2 DEF WatchInv, BookSound
<1>4. ProfilesSound'
  BY <1>1 DEF WatchInv, ProfilesSound
<1>5. QED
  BY <1>3, <1>4 DEF WatchInv

(***************************************************************************)
(* Every step that touches the rows, the profiles or the scan keeps the    *)
(* invariant.                                                              *)
(***************************************************************************)
LEMMA WatchStep ==
  ASSUME WatchInv, WatchNext \/ UNCHANGED watchVars
  PROVE  WatchInv'
<1>1. BookSound /\ ProfilesSound
  BY DEF WatchInv
<1>2. \A n \in Booked : n \in Issue /\ n # 0 /\ book[n] \in BookRow
  BY <1>1 DEF BookSound, Booked, Issue
<1>3. ASSUME NEW c \in Cn, NEW replaced, IssueFor(c, replaced)
      PROVE  WatchInv'
  <2>1. PICK n \in Issue \ Booked, life \in Life :
           /\ book' = [k \in Issue |->
                 IF k = n THEN [cn |-> c, end |-> day + life, dated |-> FALSE, ignored |-> FALSE,
                                status |-> "Valid", gone |-> FALSE]
                 ELSE IF k \in replaced THEN [book[k] EXCEPT !.ignored = TRUE] ELSE book[k]]
           /\ changed' = TRUE /\ UNCHANGED <<profiles, seen, day, scanned>>
    BY <1>3 DEF IssueFor
  <2>2. PICK r : r = [cn |-> c, end |-> day + life, dated |-> FALSE, ignored |-> FALSE,
                      status |-> "Valid", gone |-> FALSE]
    OBVIOUS
  <2>3. r \in BookRow /\ r.status = "Valid"
    <3>1. day + life \in Nat
      BY <1>1, WatchAssumption DEF BookSound
    <3>2. QED
      BY <2>2, <3>1 DEF BookRow
  <2>4. ASSUME NEW k \in Booked
        PROVE  /\ book'[k] \in BookRow /\ book'[k].cn = book[k].cn
               /\ book'[k].end = book[k].end /\ book'[k].status = book[k].status
    <3>1. k \in Issue /\ k # n /\ book[k] \in BookRow
      BY <1>2, <2>4
    <3>2. book'[k] = [book[k] EXCEPT !.ignored = TRUE] \/ book'[k] = book[k]
      BY <2>1, <3>1
    <3>3. QED
      BY <3>1, <3>2 DEF BookRow
  <2>5. ASSUME NEW k \in Issue \ Booked
        PROVE  book'[k] \in BookRow \cup {NoCert} /\ (book'[k] # NoCert => book'[k].status = "Valid")
    <3>1. CASE k = n
      BY <2>1, <2>2, <2>3, <3>1
    <3>2. CASE k # n
      <4>1. book[k] = NoCert
        BY <2>5 DEF Booked
      <4>2. [NoCert EXCEPT !.ignored = TRUE] = NoCert
        BY DEF NoCert
      <4>3. QED
        BY <2>1, <2>5, <3>2, <4>1, <4>2
    <3>3. QED
      BY <3>1, <3>2
  <2>6. book' \in [Issue -> BookRow \cup {NoCert}]
    BY <2>1, <2>4, <2>5
  <2>7. QED
    BY <2>1, <2>4, <2>5, <2>6, RowsChange
<1>4. ASSUME NEW n \in Booked, NEW b \in BOOLEAN, Mark(n, b)
      PROVE  WatchInv'
  <2>1. book' = [book EXCEPT ![n].ignored = b] /\ changed' = TRUE
        /\ UNCHANGED <<profiles, seen, day, scanned>>
    BY <1>4 DEF Mark
  <2>2. PICK r : r = [book[n] EXCEPT !.ignored = b]
    OBVIOUS
  <2>3. r \in BookRow /\ r.cn = book[n].cn /\ r.end = book[n].end /\ r.status = book[n].status
    BY <1>2, <2>2 DEF BookRow
  <2>4. book' = [book EXCEPT ![n] = r]
    BY <2>1, <2>2
  <2>5. \A k \in Booked : /\ book'[k] \in BookRow /\ book'[k].cn = book[k].cn
                          /\ book'[k].end = book[k].end /\ book'[k].status = book[k].status
    BY <1>1, <1>2, <2>3, <2>4 DEF BookSound
  <2>6. \A k \in Issue \ Booked : book'[k] = NoCert
    BY <1>1, <1>2, <2>4 DEF BookSound, Booked
  <2>7. book' \in [Issue -> BookRow \cup {NoCert}]
    BY <1>1, <1>2, <2>3, <2>4 DEF BookSound
  <2>8. QED
    BY <2>1, <2>5, <2>6, <2>7, RowsChange
<1>5. ASSUME NEW r \in Issue \cup {0}, Scan(r), UNCHANGED <<profiles, day>>
      PROVE  WatchInv'
  <2>1. SeenTrue' /\ book' \in [Issue -> BookRow \cup {NoCert}] /\ Booked' = Booked
        /\ \A n \in Booked : /\ book'[n].cn = book[n].cn
                             /\ book'[n].status = "Expired" => Over(n)'
    BY <1>1, <1>5, ScanIsTrue DEF Scan
  <2>2. BookSound'
    <3>1. day \in Nat /\ day' = day /\ scanned' = day /\ changed' \in BOOLEAN
      BY <1>1, <1>5 DEF BookSound, Scan
    <3>2. \A n \in Booked' : book'[n].status = "Expired" => Over(n)'
      BY <2>1
    <3>3. book' \in [Issue -> BookRow \cup {NoCert}]
      BY <2>1
    <3>4. QED
      BY <3>1, <3>2, <3>3 DEF BookSound
  <2>3. ProfilesSound'
    BY <1>1, <1>5, <2>1 DEF ProfilesSound
  <2>4. QED
    BY <2>1, <2>2, <2>3 DEF WatchInv
<1>6. CASE UNCHANGED <<book, profiles, seen, changed, day, scanned>>
  BY <1>6 DEF WatchInv, BookSound, ProfilesSound, SeenTrue, ClassTrue, Alive, Named, Booked, Over,
     WasInForce, WasOver, IsRevoked
<1>7. ASSUME NEW r \in Issue \cup {0}, NEW force \in BOOLEAN, ProcessCaDatabase(r, force),
             UNCHANGED <<profiles, day>>
      PROVE  WatchInv'
  BY <1>5, <1>6, <1>7 DEF ProcessCaDatabase
<1>8. ASSUME NEW n \in Booked, DeleteOf(n)
      PROVE  WatchInv'
  <2>1. UNCHANGED <<profiles, day>> /\ seen' = ScannedSets(0) /\ scanned' = day
    BY <1>8 DEF DeleteOf
  <2>2. CASE ScannedRows(0)[n].status \in {"Revoked", "Expired"}
    <3>1. PICK rows : rows = ScannedRows(0)
      OBVIOUS
    <3>2. PICK sets : sets = ScannedSets(0)
      OBVIOUS
    <3>3. book' = [rows EXCEPT ![n].ignored = TRUE, ![n].gone = TRUE] /\ changed' = TRUE
      BY <1>8, <2>2, <3>1 DEF DeleteOf
    <3>4. ASSUME NEW k \in Issue
          PROVE  /\ k \in Booked => /\ rows[k] \in BookRow /\ rows[k].cn = book[k].cn
                                    /\ rows[k].end = book[k].end
                                    /\ rows[k].status = "Expired" => Over(k)
                 /\ k \notin Booked => rows[k] = NoCert
      <4>1. CASE k \notin Booked
        BY <3>1, <3>4, <4>1 DEF ScannedRows
      <4>2. CASE k \in Booked
        <5>1. book[k] \in BookRow /\ rows[k] = Rescanned(k, 0) /\ k # 0
          BY <1>2, <3>1, <3>4, <4>2 DEF ScannedRows
        <5>2. book[k].dated \in BOOLEAN /\ (book[k].dated \/ (k = 0 /\ InForce(k))) \in BOOLEAN
          BY <5>1 DEF BookRow
        <5>3. rows[k] \in BookRow /\ rows[k].cn = book[k].cn /\ rows[k].end = book[k].end
              /\ rows[k].status = IF Over(k) THEN "Expired"
                                  ELSE IF IsRevoked(k) \/ k = 0 THEN "Revoked" ELSE book[k].status
          BY <5>1, <5>2 DEF Rescanned, BookRow
        <5>4. rows[k].status = "Expired" => Over(k)
          BY <1>1, <4>2, <5>3 DEF BookSound
        <5>5. QED
          BY <4>2, <5>3, <5>4
      <4>3. QED
        BY <4>1, <4>2
    <3>5. PICK r : r = [rows[n] EXCEPT !.ignored = TRUE, !.gone = TRUE]
      OBVIOUS
    <3>6. n \in Issue /\ rows[n] \in BookRow
      BY <1>2, <3>4
    <3>7. r \in BookRow /\ r.cn = rows[n].cn /\ r.end = rows[n].end /\ r.status = rows[n].status
      BY <3>5, <3>6 DEF BookRow
    <3>8. rows \in [Issue -> BookRow \cup {NoCert}]
      BY <3>1, <3>4 DEF ScannedRows
    <3>9. book' = [rows EXCEPT ![n] = r]
      BY <3>3, <3>5, <3>6, <3>8
    <3>10. ASSUME NEW k \in Issue
           PROVE  /\ k \in Booked => /\ book'[k] \in BookRow /\ book'[k].cn = book[k].cn
                                     /\ book'[k].end = book[k].end
                                     /\ book'[k].status = "Expired" => Over(k)
                  /\ k \notin Booked => book'[k] = NoCert
      <4>1. book'[k] = IF k = n THEN r ELSE rows[k]
        BY <3>8, <3>9
      <4>2. QED
        BY <1>8, <3>4, <3>7, <4>1
    <3>11. Booked' = Booked
      BY <3>10, RowIsBooked DEF Booked
    <3>12. book' \in [Issue -> BookRow \cup {NoCert}]
      BY <3>6, <3>7, <3>8, <3>9
    <3>13. \A k \in Booked' : book'[k].status = "Expired" => Over(k)'
      BY <1>2, <2>1, <3>10, <3>11 DEF Over
    <3>14. BookSound'
      <4>1. day \in Nat /\ day' = day /\ scanned' = day /\ changed' = TRUE
        BY <1>1, <2>1, <3>3 DEF BookSound
      <4>2. QED
        BY <3>12, <3>13, <4>1 DEF BookSound
    <3>15. ProfilesSound'
      BY <1>1, <1>2, <2>1, <3>10, <3>11 DEF ProfilesSound
    <3>16. QED
      BY <3>3, <3>14, <3>15 DEF WatchInv
  <2>3. CASE ScannedRows(0)[n].status \notin {"Revoked", "Expired"}
    <3>1. book' = ScannedRows(0) /\ changed' = FALSE
      <4>1. book' = ScannedRows(0)
        BY <1>8, <2>3 DEF DeleteOf
      <4>2. changed' = (ScannedRows(0)[n].status \in {"Revoked", "Expired"})
        BY <1>8 DEF DeleteOf
      <4>3. (ScannedRows(0)[n].status \in {"Revoked", "Expired"}) = FALSE
        BY <2>3
      <4>4. changed' = FALSE
        BY <4>2, <4>3
      <4>5. QED
        BY <4>1, <4>4
    <3>2. Scan(0)
      BY <2>1, <3>1 DEF Scan
    <3>3. QED
      BY <1>5, <2>1, <3>2
  <2>4. QED
    BY <2>2, <2>3
<1>9. ASSUME NEW n \in Booked, NEW b \in BOOLEAN, ProfileFor(n, b)
      PROVE  WatchInv'
  <2>1. UNCHANGED <<book, seen, changed, day, scanned>>
    BY <1>9 DEF ProfileFor
  <2>2. PICK q : q = [serial |-> n, cn |-> book[n].cn, generated |-> b]
    OBVIOUS
  <2>3. profiles' \subseteq profiles \cup {q}
    BY <1>9, <2>2 DEF ProfileFor
  <2>4. q.cn \in Cn /\ q.generated \in BOOLEAN /\ q.serial = n /\ q.cn = book[n].cn
    BY <1>2, <2>2 DEF BookRow
  <2>5. ProfilesSound'
    BY <1>1, <1>9, <2>1, <2>3, <2>4 DEF ProfilesSound, Booked
  <2>6. BookSound' /\ (~changed' => SeenTrue')
    BY <2>1 DEF WatchInv, BookSound, SeenTrue, ClassTrue, Alive, Named, Booked, Over, WasInForce,
       WasOver, IsRevoked
  <2>7. QED
    BY <2>5, <2>6 DEF WatchInv
<1>10. CASE Reload
  <2>1. UNCHANGED <<book, profiles, day, scanned>> /\ changed' = TRUE
    BY <1>10 DEF Reload
  <2>2. BookSound' /\ ProfilesSound'
    BY <1>1, <2>1 DEF BookSound, ProfilesSound, Booked, Over
  <2>3. QED
    BY <2>1, <2>2 DEF WatchInv
<1>11. CASE NextDay
  <2>1. UNCHANGED <<book, profiles, seen, changed, scanned>> /\ day' = day + 1
    BY <1>11 DEF NextDay
  <2>2. Booked' = Booked /\ ProfilesSound'
    BY <1>1, <2>1 DEF ProfilesSound, Booked
  <2>3. \A n \in Booked : Over(n) => Over(n)'
    BY <1>1, <1>2, <2>1 DEF Over, BookSound, BookRow
  <2>4. BookSound'
    BY <1>1, <2>1, <2>2, <2>3 DEF BookSound
  <2>5. ~changed' => SeenTrue'
    BY <2>1 DEF WatchInv, SeenTrue, ClassTrue, Alive, Named, Booked, WasInForce, WasOver, IsRevoked
  <2>6. QED
    BY <2>2, <2>4, <2>5 DEF WatchInv
<1>12. ASSUME NEW n \in Booked, RenewOf(n) \/ RekeyOf(n)
       PROVE  WatchInv'
  <2>1. book[n].cn \in Cn
    BY <1>2 DEF BookRow
  <2>2. QED
    BY <1>3, <1>12, <2>1 DEF RenewOf, RekeyOf
<1>13. ASSUME NEW n \in Booked, RevokeOf(n)
       PROVE  WatchInv'
  <2>1. n \in Issue \cup {0} /\ FALSE \in BOOLEAN
    BY <1>2
  <2>2. QED
    BY <1>7, <1>13, <2>1 DEF RevokeOf
<1>14. CASE List \/ Dashboard
  <2>1. 0 \in Issue \cup {0}
    OBVIOUS
  <2>2. QED
    BY <1>7, <1>14, <2>1 DEF List, Dashboard
<1>15. QED
  BY <1>3, <1>4, <1>6, <1>8, <1>9, <1>10, <1>11, <1>12, <1>13, <1>14
     DEF WatchNext, CreateFor, watchVars

(***************************************************************************)
(* What the last scan found, while it is so, makes what is shown true.     *)
(***************************************************************************)
LEMMA SeenIsShown ==
  ASSUME BookSound, ProfilesSound, SeenTrue
  PROVE  (\A p \in profiles : Truthful(p)) /\ ListsTrue /\ \A c \in Cn : Noticed(c)
<1>1. \A n \in Booked : n \in Issue /\ n # 0 /\ book[n] \in BookRow /\ ClassTrue(n)
                        /\ (n \in seen.ignored <=> book[n].ignored)
  BY DEF BookSound, Booked, Issue, SeenTrue
<1>2. \A n \in Booked : book[n].cn \in Cn /\ book[n].end \in Nat
  BY <1>1 DEF BookRow
<1>3. \A c \in Cn : /\ seen.current[c] # 0 => seen.current[c] \in Alive(c)
                    /\ Alive(c) # {} => seen.current[c] # 0 /\ seen.current[c] \in Alive(c)
  BY <1>1 DEF SeenTrue, Alive, Named
<1>4. \A c \in Cn : \A n \in Alive(c) : n \in Booked /\ WasInForce(n) /\ book[n].cn = c /\ ~book[n].ignored
  BY DEF Alive, Named
<1>5. \A n \in Booked : WasInForce(n) <=> ~WasOver(n) /\ ~IsRevoked(n)
  BY DEF WasInForce
<1>6. \A n \in Booked :
         /\ seen.class[n] = "soon" => WasInForce(n)
         /\ seen.class[n] = "revoked" => IsRevoked(n)
         /\ seen.class[n] \in {"warning", "valid"} => WasInForce(n)
         /\ seen.class[n] = "expired" => WasOver(n) /\ seen.current[book[n].cn] = 0
         /\ seen.class[n] = "superseded" => WasOver(n) /\ seen.current[book[n].cn] # 0
         /\ seen.class[n] \in {"soon", "revoked", "warning", "valid", "expired", "superseded"}
  BY <1>1, <1>5 DEF ClassTrue
<1>7. ASSUME NEW p \in profiles
      PROVE  Truthful(p)
  <2>1. /\ p.cn \in Cn /\ p.generated \in BOOLEAN
        /\ \/ p.serial = 0 /\ p.generated
           \/ p.serial \in Booked /\ book[p.serial].cn = p.cn
    BY DEF ProfilesSound
  <2>2. PICK current : current = seen.current[p.cn]
    OBVIOUS
  <2>3. PICK class : class = seen.class[p.serial]
    OBVIOUS
  <2>4. PICK alive : alive = Alive(p.cn)
    OBVIOUS
  <2>5. (current = 0 /\ alive = {}) \/ (current # 0 /\ current \in alive)
    BY <1>3, <2>1, <2>2, <2>4
  <2>6. SUFFICES /\ ProfileStatus(p)[1] \in {"current", "expiring_soon"} =>
                       IF p.serial = 0 THEN alive # {} ELSE WasInForce(p.serial)
                 /\ ProfileStatus(p)[1] = "needs_regen" /\ alive \cup {n \in {p.serial} : p.generated} # {} =>
                       ProfileStatus(p)[2] \in alive
                 /\ ProfileStatus(p)[1] = "revoked" => IsRevoked(p.serial)
                 /\ ProfileStatus(p)[1] = "expired" => alive = {}
    BY <2>4 DEF Truthful
  <2>7. CASE ~p.generated
    <3>1. ProfileStatus(p) = <<"needs_regen", IF current # 0 THEN current ELSE p.serial>>
      BY <2>2, <2>7 DEF ProfileStatus
    <3>2. QED
      BY <2>5, <2>7, <3>1
  <2>8. CASE p.generated /\ p.serial = 0
    <3>1. ProfileStatus(p) =
             IF current = 0 THEN <<"expired", 0>>
             ELSE IF seen.class[current] = "soon" THEN <<"expiring_soon", 0>> ELSE <<"current", 0>>
      BY <2>2, <2>8 DEF ProfileStatus
    <3>2. QED
      BY <2>5, <2>8, <3>1
  <2>9. CASE p.generated /\ p.serial # 0
    <3>1. p.serial \in Booked /\ book[p.serial].cn = p.cn
      BY <2>1, <2>9
    <3>2. current = p.serial => WasInForce(p.serial)
      BY <1>4, <2>1, <2>4, <2>5, <3>1, <1>1
    <3>3. CASE class = "revoked"
      <4>1. ProfileStatus(p) = <<"revoked", 0>>
        BY <2>2, <2>3, <2>9, <3>3 DEF ProfileStatus
      <4>2. IsRevoked(p.serial)
        BY <1>6, <2>3, <3>1, <3>3
      <4>3. ProfileStatus(p)[1] = "revoked"
        BY <4>1
      <4>4. QED
        BY <4>2, <4>3
    <3>4. CASE class # "revoked" /\ current \notin {0, p.serial}
      <4>1. ProfileStatus(p) = <<"needs_regen", current>>
        BY <2>2, <2>3, <2>9, <3>4 DEF ProfileStatus
      <4>2. QED
        BY <2>5, <3>4, <4>1
    <3>5. CASE class # "revoked" /\ current \in {0, p.serial}
      <4>1. /\ class = "expired" => ProfileStatus(p) = <<"expired", 0>>
            /\ class = "soon" => ProfileStatus(p) = <<"expiring_soon", 0>>
            /\ class \notin {"expired", "soon"} => ProfileStatus(p) = <<"current", 0>>
        BY <2>2, <2>3, <2>9, <3>5 DEF ProfileStatus
      <4>2. CASE class = "expired"
        <5>1. ProfileStatus(p)[1] = "expired"
          BY <4>1, <4>2
        <5>2. current = 0
          <6>1. seen.current[book[p.serial].cn] = 0
            BY <1>6, <2>3, <3>1, <4>2
          <6>2. QED
            BY <2>2, <3>1, <6>1
        <5>3. QED
          BY <2>5, <5>1, <5>2
      <4>3. CASE class = "soon"
        <5>1. ProfileStatus(p)[1] = "expiring_soon"
          BY <4>1, <4>3
        <5>2. WasInForce(p.serial)
          BY <1>6, <2>3, <3>1, <4>3
        <5>3. QED
          BY <2>9, <5>1, <5>2
      <4>4. CASE class \notin {"expired", "soon"}
        <5>1. ProfileStatus(p)[1] = "current"
          BY <4>1, <4>4
        <5>2. class # "superseded"
          BY <1>5, <1>6, <2>2, <2>3, <3>1, <3>2, <3>5
        <5>3. WasInForce(p.serial)
          BY <1>6, <2>3, <3>1, <3>5, <4>4, <5>2
        <5>4. QED
          BY <2>9, <5>1, <5>3
      <4>5. QED
        BY <4>2, <4>3, <4>4
    <3>6. QED
      BY <3>3, <3>4, <3>5
  <2>10. QED
    BY <2>1, <2>7, <2>8, <2>9
<1>8. ListsTrue
  <2>1. \A n \in Listed("valid") : n \in Booked /\ book[n].status = "Valid"
    BY DEF Listed
  <2>2. \A n \in Listed("expiring") : n \in Booked /\ seen.class[n] = "soon"
    BY DEF Listed
  <2>3. \A n \in Listed("expired") : n \in Booked /\ book[n].status = "Expired"
    BY DEF Listed
  <2>4. \A n \in Booked : ~book[n].gone /\ book[n].status = "Revoked" => n \in Listed("revoked")
    BY DEF Listed
  <2>5. \A n \in Booked : book[n].status = "Valid" => WasInForce(n)
    BY <1>1, <1>5 DEF ClassTrue
  <2>6. VpnCerts \cup Listed("expiring") \subseteq {n \in Booked : WasInForce(n)}
    BY <1>6, <2>1, <2>2, <2>5 DEF VpnCerts
  <2>7. \A n \in Listed("expired") : SupersededBy(n) # 0 => WasInForce(SupersededBy(n))
    BY <1>2, <1>3, <1>4, <2>3 DEF SupersededBy
  <2>8. \A n \in Booked : IsRevoked(n) /\ ~WasOver(n) /\ ~book[n].gone => n \in Listed("revoked")
    BY <1>1, <2>4 DEF ClassTrue
  <2>9. QED
    BY <2>6, <2>7, <2>8 DEF ListsTrue
<1>9. ASSUME NEW c \in Cn
      PROVE  Noticed(c)
  <2>1. SUFFICES ASSUME NEW m \in Named(c), ~book[m].ignored, WasOver(m) \/ ~IsRevoked(m)
                 PROVE  (\E n \in Alive(c) : scanned + Soon <= book[n].end) \/ Named(c) \cap Alerts # {}
    BY DEF Noticed
  <2>2. \A n \in Named(c) : ~book[n].ignored /\ seen.class[n] \in {"expired", "soon"} => n \in Alerts
    BY <1>1 DEF Alerts, Named
  <2>3. m \in Booked /\ book[m].cn = c
    BY <2>1 DEF Named
  <2>4. CASE Alive(c) = {}
    <3>1. ~WasInForce(m)
      BY <2>1, <2>4 DEF Alive
    <3>2. WasOver(m) /\ seen.current[c] = 0
      BY <1>3, <1>4, <1>5, <2>1, <2>3, <2>4, <3>1
    <3>3. seen.class[m] = "expired"
      BY <1>1, <2>3, <3>2 DEF ClassTrue
    <3>4. QED
      BY <2>1, <2>2, <3>3
  <2>5. CASE Alive(c) # {}
    <3>1. PICK n \in Alive(c) : TRUE
      BY <2>5
    <3>2. n \in Booked /\ WasInForce(n) /\ n \in Named(c) /\ ~book[n].ignored
      BY <1>4, <3>1 DEF Alive
    <3>3. seen.class[n] = "soon" <=> scanned + Soon > book[n].end
      BY <1>1, <3>2 DEF ClassTrue
    <3>4. scanned + Soon <= book[n].end \/ scanned + Soon > book[n].end
      BY <1>2, <3>2, WatchAssumption DEF BookSound
    <3>5. QED
      BY <2>2, <3>1, <3>2, <3>3, <3>4
  <2>6. QED
    BY <2>4, <2>5
<1>10. QED
  BY <1>7, <1>8, <1>9

(***************************************************************************)
(* What the operator is shown of certificates and profiles is so on the    *)
(* day of the last scan, whichever scans process_ca_database skipped since *)
(* and whatever happened before, and no name ran out unseen then, for any  *)
(* names, lifetimes and days.                                              *)
(***************************************************************************)
THEOREM ShownAsItIs == Spec => []ShownTrue
<1>1. Init => WatchInv
  <2> SUFFICES ASSUME WatchInit PROVE WatchInv
    BY DEF Init
  <2>1. Booked = {}
    BY DEF WatchInit, Booked
  <2>2. BookSound
    <3>1. book = [n \in Issue |-> NoCert] /\ day = 0 /\ scanned = 0 /\ changed = TRUE
      BY DEF WatchInit
    <3>2. QED
      BY <2>1, <3>1 DEF BookSound
  <2>3. ProfilesSound
    <3>1. PICK legacy \in SUBSET Cn :
             profiles = {[serial |-> 0, cn |-> c, generated |-> TRUE] : c \in legacy}
      BY DEF WatchInit
    <3>2. \A p \in profiles : \E c \in Cn : p = [serial |-> 0, cn |-> c, generated |-> TRUE]
      BY <3>1
    <3>3. ASSUME NEW p \in profiles
          PROVE  p.cn \in Cn /\ p.serial = 0 /\ p.generated /\ p.generated \in BOOLEAN
      <4>1. PICK c \in Cn : p = [serial |-> 0, cn |-> c, generated |-> TRUE]
        BY <3>2
      <4>2. p.cn = c /\ p.serial = 0
        BY <4>1
      <4>3. p.generated = TRUE
        BY <4>1
      <4>4. TRUE \in BOOLEAN
        OBVIOUS
      <4>5. p.generated \in BOOLEAN /\ p.generated
        BY <4>3, <4>4, Zenon
      <4>6. QED
        BY <4>2, <4>5
    <3>4. QED
      BY <3>3 DEF ProfilesSound
  <2>4. QED
    BY <2>2, <2>3 DEF WatchInit, WatchInv
<1>2. WatchInv /\ [Next]_<<vars, sessionVars, schemaVars, copyVars, watchVars>> => WatchInv'
  <2> SUFFICES ASSUME WatchInv, [Next]_<<vars, sessionVars, schemaVars, copyVars, watchVars>>
               PROVE  WatchInv'
    OBVIOUS
  <2>1. WatchNext \/ UNCHANGED watchVars
    BY DEF Next
  <2>2. QED
    BY <2>1, WatchStep
<1>3. WatchInv => ShownTrue
  BY SeenIsShown DEF WatchInv, ShownTrue
<1>4. QED
  BY <1>1, <1>2, <1>3, PTL DEF Spec

-----------------------------------------------------------------------------
(* A database that cannot be read *)

LastCopy == vault.kept[Len(vault.kept)]

\* A CA's database has one next serial; one that is not behind what is saved has its rows.
Ledger(d, m) == m \in 1..(Cardinality(Name) + 1) /\ Serial(m) \in d /\ \A k : Serial(k) \in d => k = m
Led(d) == d = {} \/ \E m : Ledger(d, m)
Ahead(d) ==
    \E m, k : Ledger(vault.saved, m) /\ Ledger(d, k) /\ m <= k /\ vault.saved \ {Serial(m)} \subseteq d

\* While nothing failed, or what failed first left the database unreadable.
FirstFailure == faults = 0 \/ (faults = 1 /\ vault.bad /\ vault.saved # {})

\* Calls that neither write a database nor copy it.
Calm(c) ==
    \/ c = Rows({}, {})
    \/ c.do \in {"create", "put", "put_crl", "read", "refuse", "take", "list_notes", "write_file", "unreadable"}
CalmList(s) == \E S : s \in Seq(S) /\ \A c \in S : Calm(c)

(***************************************************************************)
(* What is left of a save: the copy is made of what is saved next.         *)
(***************************************************************************)
CopyAndSave == <<Softly(Call("keep", 0)), Save>>
Saving(s) == db # {} /\ (s = CopyAndSave \/ (s = <<Save>> /\ vault.kept # <<>> /\ LastCopy = db))
StoresRows(s) == \E new : (\A k : Serial(k) \notin new) /\ s = Stored({}, new)
Noting(s) == db # {} /\ StoresRows(s)

\* Of a database made, or put back, in a vault without one; of a copy put back over one.
Loads(s, d) == \E t : t \in {<<>>, Stored({}, {})} /\ s = <<Rows({}, d)>> \o t
Loading(s) == db = {} /\ vault.saved # {} /\ Loads(s, vault.saved)
Founds(s) ==
    \E rows, t : /\ Led(rows) /\ s = <<Call("new_db", rows)>> \o t
                 /\ CalmList(t) \/ (rows # {} /\ Loads(t, rows))
Making(s) == db = {} /\ vault.saved = {} /\ Founds(s)
Replaces(s) == \E copy, t : IsList(t) /\ s = <<Call("replace_db", copy)>> \o t
Replacing(s) == faults # 0 /\ Replaces(s)

\* Of a certificate: its serial, its item, then its row.
Signing(s) == \E c, t : Calm(c) /\ (CalmList(t) \/ StoresRows(t)) /\ s = <<c>> \o t
Spending(s) ==
    \E n, t : n \in Name /\ Serial(n) \in db /\ Signing(t) /\ s = <<Rows({Serial(n)}, {Serial(n + 1)})>> \o t

Work(s) == Noting(s) \/ Making(s) \/ Replacing(s)
Begun(s) == \E c, t : Calm(c) /\ Work(t) /\ s = <<c>> \o t
Due(s) == \E c, t : Calm(c) /\ Begun(t) /\ s = <<c>> \o t
LedgerToDo(s) == CalmList(s) \/ Saving(s) \/ Loading(s) \/ Work(s) \/ Spending(s) \/ Begun(s) \/ Due(s)

(***************************************************************************)
(* The database in memory is never behind the one saved, and once a write  *)
(* of that left it unreadable, neither is the newest copy.  Before it,     *)
(* there are no copies for an app that has no database.                    *)
(***************************************************************************)
LedgerState ==
    /\ Led(vault.saved) /\ Led(db) /\ Led(vault.file.rows) /\ Led(vault.draft.rows)
    /\ db # {} => Ahead(db)
    /\ vault.items[DbItem] = 0 => vault.saved = {}
    /\ faults = 0 => /\ ~vault.bad
                     /\ vault.saved = {} \/ (client = "app" /\ db = {}) => vault.kept = <<>>
    /\ faults # 0 => vault.kept # <<>> /\ Ahead(LastCopy)
LedgerInv == LedgerState /\ LedgerToDo(run.calls)

(***************************************************************************)
(* The next serial of such a database.                                     *)
(***************************************************************************)
LEMMA TheNext ==
  ASSUME NEW d, NEW m, Ledger(d, m)
  PROVE  NextSerial(d) = m /\ m \in Nat /\ d # {} /\ \A k : Ledger(d, k) => k = m
<1>1. m \in 1..(Cardinality(Name) + 1) /\ m \in Nat /\ \A k \in 1..(Cardinality(Name) + 1) : Serial(k) \in d <=> k = m
  BY Names DEF Ledger
<1>2. NextSerial(d) = m
  BY <1>1 DEF NextSerial
<1>3. QED
  BY <1>1, <1>2 DEF Ledger

(***************************************************************************)
(* Rows that are no serials leave it; the next one takes its place.        *)
(***************************************************************************)
LEMMA LedgerWrites ==
  ASSUME NEW d, NEW m, Ledger(d, m)
  PROVE  /\ \A new : (\A k : Serial(k) \notin new) => Ledger((d \ {}) \cup new, m)
         /\ m \in Name => Ledger((d \ {Serial(m)}) \cup {Serial(m + 1)}, m + 1)
<1>s. \A j, k : Serial(j) = Serial(k) => j = k
  BY DEF Serial
<1>1. \A new : (\A k : Serial(k) \notin new) => Ledger((d \ {}) \cup new, m)
  BY DEF Ledger
<1>2. ASSUME m \in Name PROVE Ledger((d \ {Serial(m)}) \cup {Serial(m + 1)}, m + 1)
  <2>1. m + 1 \in 1..(Cardinality(Name) + 1)
    BY <1>2, Names
  <2>2. QED
    BY <1>s, <2>1 DEF Ledger
<1>3. QED
  BY <1>1, <1>2

(***************************************************************************)
(* Calm calls joined, and taken one by one.                                *)
(***************************************************************************)
LEMMA CalmLists ==
  /\ CalmList(<<>>) /\ \A s : CalmList(s) => IsList(s)
  /\ \A a : Calm(a) => CalmList(<<a>>)
  /\ \A s : CalmList(s) /\ s # <<>> => Calm(Head(s)) /\ CalmList(Tail(s))
  /\ \A a, s : Calm(a) /\ CalmList(s) => CalmList(<<a>> \o s)
<1>1. CalmList(<<>>)
  <2>1. PICK S : S = {}
    OBVIOUS
  <2>2. <<>> \in Seq(S) /\ \A c \in S : Calm(c)
    BY <2>1
  <2>3. QED
    BY <2>2 DEF CalmList
<1>2. ASSUME NEW a, Calm(a) PROVE CalmList(<<a>>)
  <2>1. PICK S : S = {a}
    OBVIOUS
  <2>2. <<a>> \in Seq(S) /\ \A c \in S : Calm(c)
    BY <1>2, <2>1
  <2>3. QED
    BY <2>2 DEF CalmList
<1>3. ASSUME NEW s, CalmList(s), s # <<>> PROVE Calm(Head(s)) /\ CalmList(Tail(s))
  <2>1. PICK S : s \in Seq(S) /\ \A c \in S : Calm(c)
    BY <1>3 DEF CalmList
  <2>2. Head(s) \in S /\ Tail(s) \in Seq(S)
    BY <1>3, <2>1, HeadTailProperties
  <2>3. QED
    BY <2>1, <2>2 DEF CalmList
<1>4. \A s : CalmList(s) => IsList(s)
  BY DEF CalmList, IsList
<1>5. ASSUME NEW a, NEW s, Calm(a), CalmList(s) PROVE CalmList(<<a>> \o s)
  <2>1. PICK S : s \in Seq(S) /\ \A c \in S : Calm(c)
    BY <1>5 DEF CalmList
  <2>2. PICK T : T = S \cup {a}
    OBVIOUS
  <2>3. s \in Seq(T) /\ <<a>> \in Seq(T) /\ \A c \in T : Calm(c)
    BY <1>5, <2>1, <2>2, SeqMonotonic
  <2>4. <<a>> \o s \in Seq(T)
    BY <2>3, ConcatProperties
  <2>5. QED
    BY <2>3, <2>4 DEF CalmList
<1>6. QED
  BY <1>1, <1>2, <1>3, <1>4, <1>5

(***************************************************************************)
(* The lists that are left of each of the others, call by call.            *)
(***************************************************************************)
LEMMA LedgerHeads ==
  /\ IsList(CopyAndSave) /\ Head(CopyAndSave) = Softly(Call("keep", 0)) /\ Tail(CopyAndSave) = <<Save>>
  /\ Head(<<Save>>) = Save /\ Tail(<<Save>>) = <<>> /\ IsList(<<Save>>)
  /\ \A new : IsList(Stored({}, new)) /\ Head(Stored({}, new)) = Rows({}, new)
              /\ Tail(Stored({}, new)) = CopyAndSave /\ Stored({}, new) = <<Rows({}, new)>> \o CopyAndSave
  /\ \A s, d : Loads(s, d) => /\ IsList(s) /\ Head(s) = Rows({}, d)
                              /\ Tail(s) = <<>> \/ Tail(s) = Stored({}, {})
<1>1. IsList(CopyAndSave) /\ Head(CopyAndSave) = Softly(Call("keep", 0)) /\ Tail(CopyAndSave) = <<Save>>
  BY ShortLists, Firsts DEF CopyAndSave
<1>2. Head(<<Save>>) = Save /\ Tail(<<Save>>) = <<>> /\ IsList(<<Save>>)
  BY ShortLists, Firsts
<1>3. ASSUME NEW new
      PROVE  /\ IsList(Stored({}, new)) /\ Head(Stored({}, new)) = Rows({}, new)
             /\ Tail(Stored({}, new)) = CopyAndSave /\ Stored({}, new) = <<Rows({}, new)>> \o CopyAndSave
  <2>1. PICK a, b, c : a = Rows({}, new) /\ b = Softly(Call("keep", 0)) /\ c = Save
    OBVIOUS
  <2>2. Stored({}, new) = <<a, b, c>> /\ CopyAndSave = <<b, c>>
    BY <2>1 DEF Stored, CopyAndSave
  <2>3. IsList(<<a, b, c>>) /\ Head(<<a, b, c>>) = a /\ Tail(<<a, b, c>>) = <<b, c>> /\ <<a, b, c>> = <<a>> \o <<b, c>>
    BY SMTT(60), ShortLists, Firsts
  <2>4. QED
    BY <2>1, <2>2, <2>3
<1>4. ASSUME NEW s, NEW d, Loads(s, d)
      PROVE  /\ IsList(s) /\ Head(s) = Rows({}, d)
             /\ Tail(s) = <<>> \/ Tail(s) = Stored({}, {})
  <2>1. PICK t : t \in {<<>>, Stored({}, {})} /\ s = <<Rows({}, d)>> \o t
    BY <1>4 DEF Loads
  <2>2. IsList(t)
    BY <1>3, <2>1, ShortLists
  <2>3. QED
    BY <2>1, <2>2, Consed
<1>5. QED
  BY <1>1, <1>2, <1>3, <1>4

(***************************************************************************)
(* What is done at every step of a command of this area.                   *)
(***************************************************************************)
LedgerStep(c) ==
    /\ LedgerInv /\ Formed /\ Counted /\ FirstFailure /\ FirstFailure' /\ area = "ca" /\ IsList(vault.kept)
    /\ client # "none" /\ client' = client
    /\ run.calls # <<>> /\ c = Head(run.calls) /\ (Done(c) \/ Lost(c))

(***************************************************************************)
(* The call has its effect, or is refused, or it is the first failure and  *)
(* leaves the database unreadable.                                         *)
(***************************************************************************)
LEMMA LedgerSteps ==
  ASSUME NEW c, LedgerStep(c)
  PROVE  \/ /\ Done(c) /\ faults' = faults
            /\ faults # 0 => c.do \notin {"store", "new_db", "replace_db"}
         \/ /\ ~Possible(c) /\ UNCHANGED <<vault, db, faults>>
            /\ run'.calls = IF c.on = "stop" THEN <<>> ELSE Tail(run.calls)
         \/ /\ c.do \in {"store", "new_db", "replace_db"} /\ vault' = Damaged /\ db' = Written(c)
            /\ faults = 0 /\ faults' = 1 /\ vault.saved # {}
            /\ run'.calls = IF c.on = "stop" THEN <<>> ELSE Tail(run.calls)
<1> USE DEF LedgerStep
<1>d. Damaged.saved = vault.saved /\ Damaged.bad = TRUE
  BY DEF Damaged, Formed, VaultFields
<1>1. CASE Done(c)
  <2>1. ASSUME faults # 0, c.do \in {"store", "new_db", "replace_db"} PROVE FALSE
    <3>1. vault' = VaultAfter(c) /\ faults' = faults
      BY <1>1 DEF Done
    <3>2. vault'.bad = FALSE
      BY <2>1, <3>1, CallsLeave DEF SavedIs
    <3>3. QED
      BY <2>1, <3>1, <3>2 DEF FirstFailure
  <2>2. QED
    BY <1>1, <2>1 DEF Done
<1>2. CASE Lost(c) /\ ~Possible(c) /\ UNCHANGED <<vault, db, faults>>
  BY <1>2 DEF Lost
<1>3. CASE Lost(c) /\ faults' = faults + 1 /\ db' = Written(c)
           /\ \/ vault' = vault
              \/ Possible(c) /\ vault' = VaultAfter(c)
              \/ area = "ca" /\ c.do \in {"store", "new_db", "replace_db"} /\ vault' = Damaged
  <2>1. faults \in {0, 1}
    BY DEF FirstFailure
  <2>2. faults = 0 /\ faults' = 1 /\ vault'.bad /\ vault'.saved # {}
    BY <1>3, <2>1 DEF FirstFailure
  <2>3. ~vault.bad
    BY <2>2 DEF LedgerInv, LedgerState
  <2>4. VaultAfter(c).bad \in {vault.bad, FALSE}
    BY BadKept
  <2>5. vault' # vault /\ vault' # VaultAfter(c)
    BY <2>2, <2>3, <2>4
  <2>6. QED
    BY <1>3, <1>d, <2>2, <2>5 DEF Lost
<1>4. QED
  BY <1>1, <1>2, <1>3 DEF Lost

(***************************************************************************)
(* Copies are made by "keep" only, and it does nothing else.               *)
(***************************************************************************)
LEMMA CopiesChange ==
  ASSUME Formed, NEW c, NEW v, v = VaultAfter(c)
  PROVE  /\ c.do # "keep" => v.kept = vault.kept
         /\ c.do = "keep" => /\ v.kept = Keep(vault.kept, db) /\ v.saved = vault.saved /\ v.bad = vault.bad
                             /\ v.items = vault.items /\ v.file = vault.file /\ v.draft = vault.draft
<1>f. vault = [f \in VaultFields |-> vault[f]]
  BY DEF Formed
<1>k. \/ c.do = "keep"
      \/ VaultAfter(c) = [vault EXCEPT !.items[c.of] = More(@)] \/ VaultAfter(c) = [vault EXCEPT !.items[c.of] = 1]
      \/ VaultAfter(c) = [vault EXCEPT !.items[c.of] = 0] \/ (\E d : VaultAfter(c) = Saved(d))
      \/ VaultAfter(c) = [vault EXCEPT !.draft = Take(@, c.of)] \/ VaultAfter(c) = [vault EXCEPT !.file = vault.draft, !.draft = NoFile]
      \/ VaultAfter(c) = [vault EXCEPT !.items[<<"CRL", 0>>] = 1, !.crl = c.of]
      \/ VaultAfter(c) = [vault EXCEPT !.public = @ \cup {c.of}] \/ VaultAfter(c) = [vault EXCEPT !.copy = @ \cup vault.fields]
      \/ VaultAfter(c) = [vault EXCEPT !.notes = @ \cup vault.copy, !.copy = {}] \/ VaultAfter(c) = [vault EXCEPT !.fields = {}]
      \/ VaultAfter(c) = vault
  BY ZenonT(60), CallsDo
<1>l. \/ c.do = "keep"
      \/ v = [vault EXCEPT !.items[c.of] = More(@)] \/ v = [vault EXCEPT !.items[c.of] = 1]
      \/ v = [vault EXCEPT !.items[c.of] = 0] \/ (\E d : v = Saved(d))
      \/ v = [vault EXCEPT !.draft = Take(@, c.of)] \/ v = [vault EXCEPT !.file = vault.draft, !.draft = NoFile]
      \/ v = [vault EXCEPT !.items[<<"CRL", 0>>] = 1, !.crl = c.of]
      \/ v = [vault EXCEPT !.public = @ \cup {c.of}] \/ v = [vault EXCEPT !.copy = @ \cup vault.fields]
      \/ v = [vault EXCEPT !.notes = @ \cup vault.copy, !.copy = {}] \/ v = [vault EXCEPT !.fields = {}]
      \/ v = vault
  BY <1>k
<1> USE <1>f DEF VaultFields
<1>1. CASE c.do = "keep"
  <2>1. v = [vault EXCEPT !.kept = Keep(@, db)]
    BY <1>1, CallsDo
  <2>2. QED
    BY <1>1, <2>1
<1>2. CASE c.do # "keep"
  <2>1. ASSUME v = [vault EXCEPT !.items[c.of] = More(@)] \/ v = [vault EXCEPT !.items[c.of] = 1]
               \/ v = [vault EXCEPT !.items[c.of] = 0]
        PROVE  v.kept = vault.kept
    BY <2>1
  <2>2. ASSUME NEW d, v = Saved(d) PROVE v.kept = vault.kept
    BY <2>2 DEF Saved
  <2>3. ASSUME v = [vault EXCEPT !.draft = Take(@, c.of)] \/ v = [vault EXCEPT !.file = vault.draft, !.draft = NoFile]
               \/ v = [vault EXCEPT !.items[<<"CRL", 0>>] = 1, !.crl = c.of]
        PROVE  v.kept = vault.kept
    BY <2>3
  <2>4. ASSUME v = [vault EXCEPT !.public = @ \cup {c.of}] \/ v = [vault EXCEPT !.copy = @ \cup vault.fields]
               \/ v = [vault EXCEPT !.notes = @ \cup vault.copy, !.copy = {}] \/ v = [vault EXCEPT !.fields = {}]
        PROVE  v.kept = vault.kept
    BY <2>4
  <2>6. v.kept = vault.kept
    BY <1>2, <1>l, <2>1, <2>2, <2>3, <2>4
  <2>7. QED
    BY <1>2, <2>6
<1>3. QED
  BY <1>1, <1>2

(***************************************************************************)
(* The files and the item of the database, after a call of this area.      *)
(***************************************************************************)
LEMMA FilesChange ==
  ASSUME Formed, Counted, Led(vault.saved), Led(vault.file.rows), Led(vault.draft.rows), NEW c,
         c.do \notin {"archive", "archive_if_there"}, NEW v, v = VaultAfter(c)
  PROVE  /\ Led(v.file.rows) /\ Led(v.draft.rows)
         /\ v.items[DbItem] = 0 => vault.items[DbItem] = 0 /\ c.do \notin {"store", "new_db", "replace_db"}
<1>1. v.file = vault.file \/ v.file = vault.draft
  BY PartsChanged
<1>2. v.draft = vault.draft \/ v.draft = Take(vault.draft, c.of) \/ v.draft = NoFile
  BY PartsChanged
<1>3. Take(vault.draft, c.of).rows \in {{}, vault.saved, vault.draft.rows} /\ NoFile.rows = {}
  BY DEF Take, NoFile
<1>4. Led(v.file.rows) /\ Led(v.draft.rows)
  BY <1>1, <1>2, <1>3 DEF Led
<1>5. \/ v.items = vault.items
      \/ v.items = [vault.items EXCEPT ![c.of] = More(@)]
      \/ v.items = [vault.items EXCEPT ![c.of] = 1]
      \/ v.items = [vault.items EXCEPT ![DbItem] = 1]
      \/ v.items = [vault.items EXCEPT ![CrlItem] = 1]
  BY PartsChanged
<1>6. vault.items \in [Title -> 0..2] /\ DbItem \in Title /\ More(vault.items[DbItem]) # 0
  BY Titles DEF Counted, More
<1>7. v.items[DbItem] = 0 => vault.items[DbItem] = 0
  BY <1>5, <1>6
<1>8. c.do \in {"store", "new_db", "replace_db"} => v.items = [vault.items EXCEPT ![DbItem] = 1]
  <2>1. \A d : Saved(d).items = [vault.items EXCEPT ![DbItem] = 1]
    BY DEF Saved, Formed, VaultFields
  <2>2. c.do \in {"store", "new_db", "replace_db"} => \E d : v = Saved(d)
    BY CallsDo
  <2>3. QED
    BY <2>1, <2>2
<1>9. QED
  BY <1>4, <1>6, <1>7, <1>8

(***************************************************************************)
(* A calm call leaves the databases and the copies alone.                  *)
(***************************************************************************)
LEMMA CalmEffect ==
  ASSUME NEW c, LedgerStep(c), Calm(c)
  PROVE  /\ UNCHANGED <<db, faults, client>> /\ vault'.saved = vault.saved
         /\ run'.calls = Tail(run.calls) \/ run'.calls = <<>>
         /\ (LedgerToDo(run.calls))' => LedgerInv'
<1> USE DEF LedgerStep
<1>1. c.do \notin {"store", "new_db", "replace_db", "keep", "archive", "archive_if_there", "publish"}
      /\ (c.do = "rows" => c.of.old = {} /\ c.of.new = {})
  BY DEF Calm, Rows, Call
<1>2. Written(c) = db /\ DbAfter(c) = db
  BY <1>1 DEF Written, DbAfter
<1>3. \/ Done(c) /\ faults' = faults
      \/ ~Possible(c) /\ UNCHANGED <<vault, db, faults>>
  BY <1>1, LedgerSteps
<1>4. UNCHANGED <<db, faults, client>>
  BY <1>2, <1>3 DEF Done
<1>5. /\ vault'.saved = vault.saved /\ vault'.kept = vault.kept /\ Led(vault'.file.rows) /\ Led(vault'.draft.rows)
      /\ vault'.items[DbItem] = 0 => vault.items[DbItem] = 0
      /\ vault.bad = FALSE => vault'.bad = FALSE
  <2>1. CASE Done(c)
    <3>1. vault' = VaultAfter(c)
      BY <2>1 DEF Done
    <3>2. VaultAfter(c).saved = vault.saved
      BY <1>1, PartsChanged
    <3>3. vault.bad = FALSE => VaultAfter(c).bad = FALSE
      BY BadKept
    <3>4. QED
      BY <1>1, <3>1, <3>2, <3>3, CopiesChange, FilesChange DEF LedgerInv, LedgerState
  <2>2. CASE vault' = vault
    BY <2>2 DEF LedgerInv, LedgerState
  <2>3. QED
    BY <1>3, <2>1, <2>2
<1>6. run'.calls = Tail(run.calls) \/ run'.calls = <<>>
  BY DEF Done, Lost
<1>7. ASSUME (LedgerToDo(run.calls))' PROVE LedgerInv'
  <2>1. \A d : Led(d)' <=> Led(d)
    BY DEF Led, Ledger
  <2>2. PICK s, k : s = vault.saved /\ k = vault.kept
    OBVIOUS
  <2>3. vault'.saved = s /\ vault'.kept = k
    BY <1>5, <2>2
  <2>4. PICK d : d = db /\ d = db'
    BY <1>4
  <2>5. (db # {} => Ahead(db))'
    BY <1>4, <1>5 DEF LedgerInv, LedgerState, Ahead, Ledger
  <2>6. (faults # 0 => vault.kept # <<>> /\ Ahead(LastCopy))'
    BY <1>4, <1>5 DEF LedgerInv, LedgerState, Ahead, Ledger, LastCopy
  <2>7. (faults = 0 => /\ ~vault.bad
                       /\ vault.saved = {} \/ (client = "app" /\ db = {}) => vault.kept = <<>>)'
    <3>1. faults = 0 => vault.bad = FALSE
      BY DEF LedgerInv, LedgerState
    <3>2. QED
      BY <1>4, <1>5, <3>1 DEF LedgerInv, LedgerState
  <2>8. (Led(vault.saved) /\ Led(db) /\ Led(vault.file.rows) /\ Led(vault.draft.rows))'
    BY <1>4, <1>5 DEF LedgerInv, LedgerState, Led, Ledger
  <2>9. QED
    BY <1>5, <1>7, <2>5, <2>6, <2>7, <2>8 DEF LedgerInv, LedgerState
<1>8. QED
  BY <1>4, <1>5, <1>6, <1>7

(***************************************************************************)
(* Nothing changes between the calls.                                      *)
(***************************************************************************)
LEMMA LedgerRests ==
  ASSUME LedgerState, UNCHANGED <<vault, db, client, faults>>
  PROVE  LedgerState'
BY DEF LedgerState, Led, Ledger, Ahead, LastCopy

(***************************************************************************)
(* Nothing is left to do.                                                  *)
(***************************************************************************)
LEMMA NothingLeft ==
  ASSUME run'.calls = <<>>
  PROVE  (LedgerToDo(run.calls))'
<1>1. CalmList(<<>>)
  BY CalmLists
<1>2. (CalmList(run.calls))'
  BY <1>1 DEF CalmList
<1>3. QED
  BY <1>2 DEF LedgerToDo

(***************************************************************************)
(* Rows are written in memory, which cannot fail.                          *)
(***************************************************************************)
LEMMA RowsEffect ==
  ASSUME NEW c, LedgerStep(c), c.do = "rows"
  PROVE  /\ UNCHANGED <<vault, client, faults>> /\ db' = (db \ c.of.old) \cup c.of.new
         /\ run'.calls = Tail(run.calls)
         /\ Led(db') /\ db' # {} /\ Ahead(db') /\ (LedgerToDo(run.calls))' => LedgerInv'
<1> USE DEF LedgerStep
<1>1. Possible(c)
  BY DEF Possible
<1>2. Done(c) /\ faults' = faults
  BY <1>1, LedgerSteps
<1>3. VaultAfter(c) = vault
  BY CallsDo
<1>4. DbAfter(c) = (db \ c.of.old) \cup c.of.new
  BY DEF DbAfter, Written
<1>5. UNCHANGED <<vault, client, faults>> /\ db' = (db \ c.of.old) \cup c.of.new /\ run'.calls = Tail(run.calls)
  BY <1>2, <1>3, <1>4 DEF Done
<1>6. ASSUME Led(db'), db' # {}, Ahead(db'), (LedgerToDo(run.calls))' PROVE LedgerInv'
  <2>1. (Led(db) /\ (db # {} => Ahead(db)))'
    BY <1>5, <1>6 DEF Led, Ledger, Ahead
  <2>2. QED
    BY ZenonT(60), <1>5, <1>6, <2>1 DEF LedgerInv, LedgerState, Led, Ledger, Ahead, LastCopy
<1>7. QED
  BY <1>5, <1>6

(***************************************************************************)
(* A database in memory is of a ledger that is not behind the saved one's. *)
(***************************************************************************)
LEMMA LedgersOf ==
  ASSUME LedgerState, db # {}
  PROVE  /\ vault.saved # {}
         /\ \E m, k : /\ Ledger(vault.saved, m) /\ Ledger(db, k) /\ m \in Nat /\ k \in Nat /\ m <= k
                      /\ vault.saved \ {Serial(m)} \subseteq db
<1>1. PICK m, k : Ledger(vault.saved, m) /\ Ledger(db, k) /\ m <= k /\ vault.saved \ {Serial(m)} \subseteq db
  BY DEF LedgerState, Ahead
<1>2. m \in Nat /\ k \in Nat /\ vault.saved # {}
  BY <1>1, TheNext
<1>3. QED
  BY <1>1, <1>2

(***************************************************************************)
(* The rows to save are written in memory first.                           *)
(***************************************************************************)
LEMMA NotingStep ==
  ASSUME NEW c, LedgerStep(c), Noting(run.calls)
  PROVE  LedgerInv'
<1>1. PICK new : (\A k : Serial(k) \notin new) /\ run.calls = Stored({}, new) /\ db # {}
  BY DEF Noting, StoresRows
<1>2. c = Rows({}, new) /\ Tail(run.calls) = CopyAndSave
  BY <1>1, LedgerHeads DEF LedgerStep
<1>3. c.do = "rows" /\ c.of.old = {} /\ c.of.new = new
  BY <1>2 DEF Rows, Call
<1>4. db' = (db \ {}) \cup new /\ run'.calls = CopyAndSave
  BY <1>2, <1>3, RowsEffect
<1>5. PICK m, k : /\ Ledger(vault.saved, m) /\ Ledger(db, k) /\ m <= k
                  /\ vault.saved \ {Serial(m)} \subseteq db
  BY <1>1, LedgersOf DEF LedgerStep, LedgerInv
<1>6. PICK d : d = (db \ {}) \cup new
  OBVIOUS
<1>7. Ledger(d, k) /\ db \subseteq d
  BY <1>1, <1>5, <1>6, LedgerWrites
<1>8. Led(d) /\ d # {} /\ Ahead(d)
  BY <1>5, <1>7, TheNext DEF Led, Ahead
<1>9. (LedgerToDo(run.calls))'
  BY <1>4, <1>6, <1>8 DEF LedgerToDo, Saving, CopyAndSave
<1>10. QED
  BY <1>3, <1>4, <1>6, <1>8, <1>9, RowsEffect

(***************************************************************************)
(* The rows of a database that was made are loaded.                        *)
(***************************************************************************)
LEMMA LoadingStep ==
  ASSUME NEW c, LedgerStep(c), Loading(run.calls)
  PROVE  LedgerInv'
<1>1. db = {} /\ vault.saved # {} /\ Loads(run.calls, vault.saved)
  BY DEF Loading
<1>2. c = Rows({}, vault.saved) /\ (Tail(run.calls) = <<>> \/ Tail(run.calls) = Stored({}, {}))
  BY <1>1, LedgerHeads DEF LedgerStep
<1>3. c.do = "rows" /\ c.of.old = {} /\ c.of.new = vault.saved
  BY <1>2 DEF Rows, Call
<1>4. db' = vault.saved /\ run'.calls = Tail(run.calls)
  BY <1>1, <1>3, RowsEffect
<1>5. PICK m : Ledger(vault.saved, m)
  BY <1>1 DEF LedgerStep, LedgerInv, LedgerState, Led
<1>6. PICK d : d = vault.saved
  OBVIOUS
<1>7. m <= m
  BY <1>5, TheNext
<1>8. Led(d) /\ d # {} /\ Ahead(d)
  BY <1>1, <1>5, <1>6, <1>7 DEF Led, Ahead
<1>9. (LedgerToDo(run.calls))'
  <2>1. CASE Tail(run.calls) = <<>>
    BY <1>4, <2>1, NothingLeft
  <2>2. CASE Tail(run.calls) = Stored({}, {})
    <3>1. StoresRows(Stored({}, {}))
      <4>1. \A k : Serial(k) \notin {}
        OBVIOUS
      <4>2. QED
        BY <4>1 DEF StoresRows
    <3>2. PICK s : s = Stored({}, {})
      OBVIOUS
    <3>3. run'.calls = s /\ (StoresRows(s))'
      BY <1>4, <2>2, <3>1, <3>2 DEF StoresRows
    <3>4. (Noting(run.calls))'
      BY <1>1, <1>4, <3>3 DEF Noting
    <3>5. QED
      BY <3>4 DEF LedgerToDo, Work
  <2>3. QED
    BY <1>2, <2>1, <2>2
<1>10. QED
  BY <1>3, <1>4, <1>6, <1>8, <1>9, RowsEffect

(***************************************************************************)
(* A serial is spent in memory before there is anything of it.             *)
(***************************************************************************)
LEMMA SpendingStep ==
  ASSUME NEW c, LedgerStep(c), Spending(run.calls)
  PROVE  LedgerInv'
<1>1. PICK n, t : n \in Name /\ Serial(n) \in db /\ Signing(t) /\ run.calls = <<Rows({Serial(n)}, {Serial(n + 1)})>> \o t
  BY DEF Spending
<1>2. PICK e, u : Calm(e) /\ (CalmList(u) \/ StoresRows(u)) /\ t = <<e>> \o u
  BY <1>1 DEF Signing
<1>3. IsList(u) /\ IsList(t)
  <2>1. IsList(u)
    BY <1>2, CalmLists, LedgerHeads DEF StoresRows
  <2>2. QED
    BY <1>2, <2>1, Consed
<1>4. c = Rows({Serial(n)}, {Serial(n + 1)}) /\ Tail(run.calls) = t
  BY <1>1, <1>3, Consed DEF LedgerStep
<1>5. c.do = "rows" /\ c.of.old = {Serial(n)} /\ c.of.new = {Serial(n + 1)}
  BY <1>4 DEF Rows, Call
<1>6. db' = (db \ {Serial(n)}) \cup {Serial(n + 1)} /\ run'.calls = t
  BY <1>4, <1>5, RowsEffect
<1>7. PICK m, k : /\ Ledger(vault.saved, m) /\ Ledger(db, k) /\ m <= k /\ m \in Nat /\ k \in Nat
                  /\ vault.saved \ {Serial(m)} \subseteq db
  BY <1>1, LedgersOf DEF LedgerStep, LedgerInv
<1>8. k = n
  BY <1>1, <1>7 DEF Ledger
<1>9. PICK d : d = (db \ {Serial(n)}) \cup {Serial(n + 1)}
  OBVIOUS
<1>10. Ledger(d, n + 1) /\ m <= n + 1
  <2>1. Ledger(db, n) /\ m <= n + 1
    BY <1>7, <1>8
  <2>2. Ledger((db \ {Serial(n)}) \cup {Serial(n + 1)}, n + 1)
    BY <1>1, <2>1, LedgerWrites
  <2>3. QED
    BY <1>9, <2>1, <2>2
<1>11. vault.saved \ {Serial(m)} \subseteq d
  <2>1. ASSUME NEW r \in vault.saved, r # Serial(m) PROVE r \in d
    <3>1. r \in db
      BY <1>7, <2>1
    <3>2. r # Serial(n)
      BY <1>7, <2>1 DEF Ledger
    <3>3. QED
      BY <1>9, <3>1, <3>2
  <2>2. QED
    BY <2>1
<1>12. Led(d) /\ d # {} /\ Ahead(d)
  BY <1>7, <1>10, <1>11, TheNext DEF Led, Ahead
<1>13. (LedgerToDo(run.calls))'
  <2>1. CASE CalmList(u)
    <3>1. CalmList(t)
      BY <1>2, <2>1, CalmLists
    <3>2. (CalmList(run.calls))'
      BY <1>6, <3>1 DEF CalmList
    <3>3. QED
      BY <3>2 DEF LedgerToDo
  <2>2. CASE StoresRows(u)
    <3>1. (Noting(u))'
      BY <1>6, <1>9, <1>12, <2>2 DEF Noting, StoresRows
    <3>2. (Begun(t))'
      BY <1>2, <3>1 DEF Begun, Work
    <3>3. QED
      BY <1>6, <3>2 DEF LedgerToDo, Begun
  <2>3. QED
    BY <1>2, <2>1, <2>2
<1>14. QED
  BY <1>5, <1>6, <1>9, <1>12, <1>13, RowsEffect

(***************************************************************************)
(* A local copy is the newest once it is made.                             *)
(***************************************************************************)
LEMMA KeptLast ==
  ASSUME NEW kept, IsList(kept), NEW d
  PROVE  Keep(kept, d) # <<>> /\ Keep(kept, d)[Len(Keep(kept, d))] = d
<1>1. PICK S : kept \in Seq(S)
  BY DEF IsList
<1>2. PICK T : T = S \cup {d}
  OBVIOUS
<1>3. kept \in Seq(T) /\ d \in T
  BY <1>1, <1>2, SeqMonotonic
<1>4. PICK all : all = Append(kept, d)
  OBVIOUS
<1>5. PICK m : m = Len(kept)
  OBVIOUS
<1>6. all \in Seq(T) /\ Len(all) = m + 1 /\ all[m + 1] = d /\ m \in Nat
  BY <1>3, <1>4, <1>5, AppendProperties, LenProperties
<1>7. CASE kept # <<>> /\ kept[Len(kept)] = d
  BY <1>7 DEF Keep
<1>8. CASE ~(kept # <<>> /\ kept[Len(kept)] = d)
  <2>1. PICK a : a = IF Len(all) > KeepLocal THEN 2 ELSE 1
    OBVIOUS
  <2>2. Keep(kept, d) = SubSeq(all, a, m + 1)
    BY <1>4, <1>6, <1>8, <2>1 DEF Keep
  <2>3. a \in 1..(m + 1)
    BY <1>6, <2>1 DEF KeepLocal
  <2>4. /\ Len(SubSeq(all, a, m + 1)) = m + 2 - a
        /\ \A i \in 1..(m + 2 - a) : SubSeq(all, a, m + 1)[i] = all[a + i - 1]
    BY <1>6, <2>3
  <2>5. m + 2 - a \in 1..(m + 2 - a) /\ a + (m + 2 - a) - 1 = m + 1
    BY <1>6, <2>3
  <2>6. SubSeq(all, a, m + 1)[m + 2 - a] = d
    BY <1>6, <2>4, <2>5
  <2>7. SubSeq(all, a, m + 1) # <<>>
    <3>1. Len(<<>>) = 0
      OBVIOUS
    <3>2. PICK w : w = SubSeq(all, a, m + 1)
      OBVIOUS
    <3>3. Len(w) # 0
      BY SMTT(60), <1>6, <2>3, <2>4, <3>2
    <3>4. w # <<>>
      BY <3>1, <3>3
    <3>5. QED
      BY <3>2, <3>4
  <2>8. QED
    BY <2>2, <2>4, <2>6, <2>7
<1>9. QED
  BY <1>7, <1>8

(***************************************************************************)
(* The copy is made, then the database is stored: whole, or in a way that  *)
(* leaves it unreadable.                                                   *)
(***************************************************************************)
LEMMA SavingStep ==
  ASSUME NEW c, LedgerStep(c), Saving(run.calls)
  PROVE  LedgerInv'
<1> USE DEF LedgerStep
<1>1. LedgerState /\ db # {}
  BY DEF Saving, LedgerInv
<1>2. PICK m, k : /\ Ledger(vault.saved, m) /\ Ledger(db, k) /\ m <= k /\ m \in Nat /\ k \in Nat
                  /\ vault.saved \ {Serial(m)} \subseteq db
  BY <1>1, LedgersOf
<1>3. vault.saved # {} /\ Led(db)
  BY <1>2, TheNext DEF Led
<1>4. CASE run.calls = CopyAndSave
  <2>1. c.do = "keep" /\ c.on = "go" /\ Tail(run.calls) = <<Save>>
    BY <1>4, LedgerHeads DEF Softly, Call
  <2>2. Possible(c)
    BY <2>1 DEF Possible
  <2>3. Done(c) /\ faults' = faults
    BY <2>1, <2>2, LedgerSteps
  <2>4. DbAfter(c) = db
    BY <2>1 DEF DbAfter, Written
  <2>5. db' = db /\ vault' = VaultAfter(c) /\ run'.calls = <<Save>>
    BY <2>1, <2>3, <2>4 DEF Done
  <2>6. /\ vault'.kept = Keep(vault.kept, db) /\ vault'.saved = vault.saved /\ vault'.bad = vault.bad
        /\ vault'.items = vault.items /\ vault'.file = vault.file /\ vault'.draft = vault.draft
    BY <2>1, <2>5, CopiesChange
  <2>7. vault'.kept # <<>> /\ LastCopy' = db
    BY <2>6, KeptLast DEF LastCopy
  <2>8. (LedgerToDo(run.calls))'
    BY <1>1, <2>5, <2>7 DEF LedgerToDo, Saving
  <2>9. (Ahead(db))' /\ (Ahead(LastCopy))'
    BY <1>2, <2>5, <2>6, <2>7 DEF Ahead, Ledger
  <2>10. (faults = 0 => /\ ~vault.bad
                        /\ vault.saved = {} \/ (client = "app" /\ db = {}) => vault.kept = <<>>)'
    BY <1>1, <1>3, <2>3, <2>5, <2>6 DEF LedgerState
  <2>11. (Led(vault.saved) /\ Led(db) /\ Led(vault.file.rows) /\ Led(vault.draft.rows))'
    BY <1>1, <2>5, <2>6 DEF LedgerState, Led, Ledger
  <2>12. (vault.items[DbItem] = 0 => vault.saved = {})'
    BY <1>1, <2>6 DEF LedgerState
  <2>13. QED
    BY <2>7, <2>8, <2>9, <2>10, <2>11, <2>12 DEF LedgerInv, LedgerState
<1>5. CASE run.calls = <<Save>> /\ vault.kept # <<>> /\ LastCopy = db
  <2>1. c = Save /\ Tail(run.calls) = <<>>
    BY <1>5, LedgerHeads
  <2>2. c.do = "store" /\ c.of.old = {} /\ c.of.new = {}
    BY <2>1 DEF Save, Store, Call
  <2>3. Written(c) = db /\ DbAfter(c) = db
    BY <2>2 DEF Written, DbAfter
  <2>4. run'.calls = <<>>
    BY <2>1 DEF Done, Lost
  <2>5. (LedgerToDo(run.calls))'
    BY <2>4, NothingLeft
  <2>6. CASE Done(c) /\ faults' = faults
    <3>1. db' = db /\ vault' = VaultAfter(c)
      BY <2>3, <2>6 DEF Done
    <3>2. faults = 0
      BY <2>2, <2>6, <3>1, CallsLeave DEF SavedIs, FirstFailure
    <3>3. vault'.saved = db /\ vault'.bad = FALSE /\ vault'.items[DbItem] = 1
      <4>1. SavedIs(db)
        BY <2>2, <2>3, <3>1, CallsLeave
      <4>2. QED
        BY <4>1, Titles DEF SavedIs, Counted
    <3>4. vault'.kept = vault.kept /\ Led(vault'.file.rows) /\ Led(vault'.draft.rows)
      BY <1>1, <2>2, <3>1, CopiesChange, FilesChange DEF LedgerState
    <3>5. k <= k /\ Ledger(db, k)
      BY <1>2
    <3>6. (Ahead(db))'
      BY <3>1, <3>3, <3>5 DEF Ahead, Ledger
    <3>7. (Led(vault.saved) /\ Led(db) /\ Led(vault.file.rows) /\ Led(vault.draft.rows))'
      BY <1>3, <3>1, <3>3, <3>4 DEF Led, Ledger
    <3>8. QED
      BY <1>1, <2>5, <2>6, <3>1, <3>2, <3>3, <3>6, <3>7 DEF LedgerInv, LedgerState
  <2>7. CASE UNCHANGED <<vault, db, faults>>
    BY <1>1, <2>5, <2>7, LedgerRests DEF LedgerInv
  <2>8. CASE vault' = Damaged /\ db' = Written(c) /\ faults' = 1
    <3>1. /\ vault'.saved = vault.saved /\ vault'.kept = vault.kept /\ vault'.file = vault.file
          /\ vault'.draft = vault.draft /\ vault'.items[DbItem] = 1
      BY <2>8, Titles DEF Damaged, Formed, VaultFields, Counted
    <3>2. db' = db /\ LastCopy' = db
      BY <1>5, <2>3, <2>8, <3>1 DEF LastCopy
    <3>3. (Ahead(db))' /\ (Ahead(LastCopy))'
      BY <1>2, <3>1, <3>2 DEF Ahead, Ledger
    <3>4. (Led(vault.saved) /\ Led(db) /\ Led(vault.file.rows) /\ Led(vault.draft.rows))'
      BY <1>1, <3>1, <3>2 DEF LedgerState, Led, Ledger
    <3>5. QED
      BY <1>5, <2>5, <2>8, <3>1, <3>2, <3>3, <3>4 DEF LedgerInv, LedgerState
  <2>9. QED
    BY <2>6, <2>7, <2>8, LedgerSteps
<1>6. QED
  BY <1>4, <1>5 DEF Saving

(***************************************************************************)
(* A database is made where there is none, or a restore puts it back.      *)
(***************************************************************************)
LEMMA MakingStep ==
  ASSUME NEW c, LedgerStep(c), Making(run.calls)
  PROVE  LedgerInv'
<1> USE DEF LedgerStep
<1>1. PICK rows, t : /\ db = {} /\ vault.saved = {} /\ Led(rows) /\ run.calls = <<Call("new_db", rows)>> \o t
                     /\ CalmList(t) \/ (rows # {} /\ Loads(t, rows))
  BY DEF Making, Founds
<1>2. IsList(t)
  BY <1>1, CalmLists, LedgerHeads
<1>3. c = Call("new_db", rows) /\ Tail(run.calls) = t
  BY <1>1, <1>2, Consed
<1>4. c.do = "new_db" /\ c.of = rows /\ c.on = "stop"
  BY <1>3 DEF Call
<1>5. LedgerState
  BY DEF LedgerInv
<1>6. CASE Done(c) /\ faults' = faults
  <2>1. db' = db /\ vault' = VaultAfter(c) /\ run'.calls = t
    BY <1>3, <1>4, <1>6 DEF Done, DbAfter, Written
  <2>2. faults = 0
    BY <1>4, <1>6, <2>1, CallsLeave DEF SavedIs, FirstFailure
  <2>3. vault'.saved = rows /\ vault'.bad = FALSE /\ vault'.items[DbItem] = 1
    <3>1. SavedIs(rows)
      BY <1>4, <2>1, CallsLeave
    <3>2. QED
      BY <3>1, Titles DEF SavedIs, Counted
  <2>4. vault'.kept = <<>> /\ Led(vault'.file.rows) /\ Led(vault'.draft.rows)
    BY <1>1, <1>4, <1>5, <2>1, <2>2, CopiesChange, FilesChange DEF LedgerState
  <2>5. (Led(vault.saved) /\ Led(db) /\ Led(vault.file.rows) /\ Led(vault.draft.rows))'
    BY <1>1, <2>1, <2>3, <2>4 DEF Led, Ledger
  <2>6. (LedgerToDo(run.calls))'
    <3>1. CASE CalmList(t)
      <4>1. (CalmList(run.calls))'
        BY <2>1, <3>1 DEF CalmList
      <4>2. QED
        BY <4>1 DEF LedgerToDo
    <3>2. CASE rows # {} /\ Loads(t, rows)
      <4>1. (Loading(run.calls))'
        BY <1>1, <2>1, <2>3, <3>2 DEF Loading, Loads
      <4>2. QED
        BY <4>1 DEF LedgerToDo
    <3>3. QED
      BY <1>1, <3>1, <3>2
  <2>7. QED
    BY <1>1, <1>6, <2>1, <2>2, <2>3, <2>4, <2>5, <2>6 DEF LedgerInv, LedgerState
<1>7. CASE UNCHANGED <<vault, db, faults>> /\ run'.calls = <<>>
  BY <1>5, <1>7, LedgerRests, NothingLeft DEF LedgerInv
<1>8. QED
  BY <1>1, <1>4, <1>6, <1>7, LedgerSteps

(***************************************************************************)
(* A copy is put back over a database that cannot be read, and that can    *)
(* be read from then on.                                                   *)
(***************************************************************************)
LEMMA ReplacingStep ==
  ASSUME NEW c, LedgerStep(c), Replacing(run.calls)
  PROVE  LedgerInv'
<1> USE DEF LedgerStep
<1>1. PICK copy, t : faults # 0 /\ IsList(t) /\ run.calls = <<Call("replace_db", copy)>> \o t
  BY DEF Replacing, Replaces
<1>2. c = Call("replace_db", copy)
  BY <1>1, Consed
<1>3. c.do = "replace_db" /\ c.on = "stop"
  BY <1>2 DEF Call
<1>4. UNCHANGED <<vault, db, faults>> /\ run'.calls = <<>>
  BY <1>1, <1>3, LedgerSteps
<1>5. QED
  BY <1>4, LedgerRests, NothingLeft DEF LedgerInv

(***************************************************************************)
(* A calm call before what is left.                                        *)
(***************************************************************************)
LEMMA CalmStep ==
  ASSUME NEW c, LedgerStep(c), run.calls # <<>>, CalmList(run.calls) \/ Begun(run.calls) \/ Due(run.calls)
  PROVE  LedgerInv'
<1> USE DEF LedgerStep
<1>1. ASSUME Calm(c)
      PROVE  \A t : (Work(t) => (Work(t))') /\ (Begun(t) => (Begun(t))')
  <2>1. UNCHANGED <<db, faults>> /\ vault'.saved = vault.saved
    BY <1>1, CalmEffect
  <2>2. \A d : Led(d)' <=> Led(d)
    BY DEF Led, Ledger
  <2>3. \A t : Work(t) => (Work(t))'
    BY <2>1, <2>2 DEF Work, Noting, Making, Founds, Replacing, Replaces
  <2>4. QED
    BY <2>3 DEF Begun
<1>2. CASE CalmList(run.calls)
  <2>1. Calm(c) /\ CalmList(Tail(run.calls)) /\ CalmList(<<>>)
    BY <1>2, CalmLists
  <2>2. PICK t : t = run'.calls /\ CalmList(t)
    BY <2>1, CalmEffect
  <2>3. (CalmList(run.calls))'
    BY <2>2 DEF CalmList
  <2>4. QED
    BY <2>1, <2>3, CalmEffect DEF LedgerToDo
<1>3. CASE Begun(run.calls)
  <2>1. PICK e, t : Calm(e) /\ Work(t) /\ run.calls = <<e>> \o t
    BY <1>3 DEF Begun
  <2>2. IsList(t)
    <3>1. Noting(t) => IsList(t)
      BY LedgerHeads DEF Noting, StoresRows
    <3>2. Making(t) => IsList(t)
      BY CalmLists, LedgerHeads, Consed DEF Making, Founds
    <3>3. Replacing(t) => IsList(t)
      BY Consed DEF Replacing, Replaces
    <3>4. QED
      BY <2>1, <3>1, <3>2, <3>3 DEF Work
  <2>3. c = e /\ Tail(run.calls) = t
    BY <2>1, <2>2, Consed
  <2>4. run'.calls = t \/ run'.calls = <<>>
    BY <2>1, <2>3, CalmEffect
  <2>5. (Work(t))'
    BY <1>1, <2>1, <2>3
  <2>6. (LedgerToDo(run.calls))'
    BY <2>4, <2>5, NothingLeft DEF LedgerToDo, Work, Noting, Making, Founds, Replacing, Replaces
  <2>7. QED
    BY <2>1, <2>3, <2>6, CalmEffect
<1>4. CASE Due(run.calls)
  <2>1. PICK e, t : Calm(e) /\ Begun(t) /\ run.calls = <<e>> \o t
    BY <1>4 DEF Due
  <2>2. PICK f, u : Calm(f) /\ Work(u) /\ t = <<f>> \o u
    BY <2>1 DEF Begun
  <2>3. IsList(u)
    <3>1. Noting(u) => IsList(u)
      BY LedgerHeads DEF Noting, StoresRows
    <3>2. Making(u) => IsList(u)
      BY CalmLists, LedgerHeads, Consed DEF Making, Founds
    <3>3. Replacing(u) => IsList(u)
      BY Consed DEF Replacing, Replaces
    <3>4. QED
      BY <2>2, <3>1, <3>2, <3>3 DEF Work
  <2>4. IsList(t)
    BY <2>2, <2>3, Consed
  <2>5. c = e /\ Tail(run.calls) = t
    BY <2>1, <2>4, Consed
  <2>6. run'.calls = t \/ run'.calls = <<>>
    BY <2>1, <2>5, CalmEffect
  <2>7. (Begun(t))'
    BY <1>1, <2>1, <2>5
  <2>8. (LedgerToDo(run.calls))'
    BY <2>6, <2>7, NothingLeft DEF LedgerToDo, Begun
  <2>9. QED
    BY <2>1, <2>5, <2>8, CalmEffect
<1>5. QED
  BY <1>2, <1>3, <1>4

(***************************************************************************)
(* Every call of this area, until something else fails.                    *)
(***************************************************************************)
LEMMA LedgerCallStep ==
  ASSUME NEW c, LedgerStep(c)
  PROVE  LedgerInv'
BY NotingStep, LoadingStep, SpendingStep, SavingStep, MakingStep, ReplacingStep, CalmStep
   DEF LedgerStep, LedgerInv, LedgerToDo, Work

(***************************************************************************)
(* The database, as a command or a client finds it.                        *)
(***************************************************************************)
LEMMA LedgerStart ==
  ASSUME LedgerState, FirstFailure, UNCHANGED <<vault, faults>>, client = "none" => db = {},
         \/ db' = db /\ (client' = client \/ client = "app")
         \/ db' = Retrieved
         \/ db' = {} /\ client' # "app"
  PROVE  LedgerState'
<1>1. Retrieved \in {{}, vault.saved} /\ (faults = 0 => Retrieved = vault.saved)
  BY DEF Retrieved, LedgerState
<1>2. Led(vault.saved) /\ Led(db)
  BY DEF LedgerState
<1>3. Led(db') /\ (db' # {} => Ahead(db'))
  <2>1. CASE db' = db
    BY <2>1 DEF LedgerState
  <2>2. CASE db' = {}
    BY <2>2 DEF Led
  <2>3. CASE db' = vault.saved /\ db' # {}
    <3>1. PICK m : Ledger(vault.saved, m)
      BY <1>2, <2>3 DEF Led
    <3>2. m <= m /\ Ledger(db', m)
      BY <2>3, <3>1, TheNext
    <3>3. QED
      BY <2>3, <3>1, <3>2 DEF Led, Ahead
  <2>4. QED
    BY <1>1, <2>1, <2>2, <2>3
<1>4. PICK d : d = db'
  OBVIOUS
<1>5. (Led(db) /\ (db # {} => Ahead(db)))'
  BY <1>3 DEF Led, Ahead, Ledger
<1>6. (faults = 0 => (vault.saved = {} \/ (client = "app" /\ db = {}) => vault.kept = <<>>))'
  BY <1>1 DEF LedgerState
<1>7. (faults # 0 => vault.kept # <<>> /\ Ahead(LastCopy))'
  BY DEF LedgerState, Ahead, Ledger, LastCopy
<1>8. QED
  BY <1>5, <1>6, <1>7 DEF LedgerState, Led, Ledger

(***************************************************************************)
(* Of the titles of a backup, only the database's is not put back by a     *)
(* calm call.                                                              *)
(***************************************************************************)
LEMMA CalmBackups ==
  /\ CalmList(BackupCalls)
  /\ \E t : /\ CalmList(t)
            /\ [i \in 1..Len(Ordered) |-> PutBack(Ordered[i])]
                 = <<PutBack(CaItem)>> \o (<<PutBack(DbItem)>> \o t)
  /\ Calm(PutBack(CaItem)) /\ (DbItem \notin vault.file.titles => Calm(PutBack(DbItem)))
<1>1. CalmList(BackupCalls)
  <2>1. PICK taken : taken = [i \in 2..Len(Ordered) |-> Silently(Call("take", Ordered[i]))]
    OBVIOUS
  <2>2. PICK a, b, e : a = <<Call("take", CaItem), taken[2], taken[3], Call("list_notes", 0)>>
                       /\ b = [n \in 1..Cardinality(Name) |-> taken[n + 3]] /\ e = <<Call("write_file", 0)>>
    OBVIOUS
  <2>3. BackupCalls = (a \o b) \o e
    BY <2>1, <2>2 DEF BackupCalls
  <2>4. PICK S : S = {Call("take", CaItem), Call("list_notes", 0), Call("write_file", 0)} \cup {taken[i] : i \in 2..Len(Ordered)}
    OBVIOUS
  <2>5. \A i \in 2..Len(Ordered) : taken[i].do = "take"
    BY <2>1 DEF Silently, Call
  <2>6. \A x \in S : Calm(x)
    BY <2>4, <2>5 DEF Calm, Call
  <2>7. 2 \in 2..Len(Ordered) /\ 3 \in 2..Len(Ordered) /\ \A n \in 1..Cardinality(Name) : n + 3 \in 2..Len(Ordered)
    BY OrderedTitles, Names
  <2>8. a \in Seq(S) /\ e \in Seq(S)
    BY <2>2, <2>4, <2>7
  <2>9. b \in Seq(S)
    <3>1. b \in [1..Cardinality(Name) -> S]
      BY <2>2, <2>4, <2>7
    <3>2. QED
      BY <3>1, Names, SeqDef
  <2>10. (a \o b) \o e \in Seq(S)
    BY <2>8, <2>9, ConcatProperties
  <2>11. QED
    BY <2>3, <2>6, <2>10 DEF CalmList
<1>2. \A t : t # DbItem => Calm(PutBack(t))
  BY DEF PutBack, InFile, Calm, Create, Rows, Call
<1>3. CaItem # DbItem /\ CrlItem # DbItem /\ \A n : CrtItem(n) # DbItem
  BY DEF CaItem, DbItem, CrlItem, CrtItem
<1>4. PICK all : all = [i \in 1..Len(Ordered) |-> PutBack(Ordered[i])]
  OBVIOUS
<1>5. PICK S : S = {all[i] : i \in 1..Len(Ordered)}
  OBVIOUS
<1>6. Len(Ordered) \in Nat /\ Len(Ordered) >= 3
  BY OrderedTitles, Names
<1>7. all \in Seq(S) /\ Len(all) = Len(Ordered)
  <2>1. all \in [1..Len(Ordered) -> S]
    BY <1>4, <1>5
  <2>2. all \in Seq(S)
    BY <2>1, <1>6, SeqDef
  <2>3. QED
    BY <2>1, <2>2, <1>6, LenProperties
<1>8. all[1] = PutBack(CaItem) /\ all[2] = PutBack(DbItem)
  BY <1>4, <1>6, OrderedTitles
<1>9. \A i \in 3..Len(Ordered) : Calm(all[i])
  <2>1. ASSUME NEW i \in 3..Len(Ordered) PROVE Ordered[i] # DbItem
    <3>1. CASE i = 3
      BY <3>1, <1>3, OrderedTitles
    <3>2. CASE i # 3
      <4>1. i \in 4..Len(Ordered)
        BY <2>1, <3>2, <1>6
      <4>2. i - 3 \in Name /\ (i - 3) + 3 = i
        BY <4>1, <1>6, OrderedTitles
      <4>3. Ordered[i] = CrtItem(i - 3)
        BY <4>2, OrderedTitles
      <4>4. QED
        BY <1>3, <4>3
    <3>3. QED
      BY <3>1, <3>2
  <2>2. QED
    BY <1>2, <1>4, <1>6, <2>1
<1>10. PICK r : r = Tail(all)
  OBVIOUS
<1>11. r \in Seq(S) /\ Len(r) = Len(Ordered) - 1 /\ \A i \in 1..Len(r) : r[i] = all[i + 1]
  <2>1. all # <<>>
    BY <1>6, <1>7, EmptySeq
  <2>2. QED
    BY <1>7, <1>10, <2>1, HeadTailProperties
<1>12. PICK t : t = Tail(r)
  OBVIOUS
<1>13. t \in Seq(S) /\ Len(t) = Len(Ordered) - 2 /\ \A i \in 1..Len(t) : t[i] = r[i + 1]
  <2>1. r # <<>>
    BY <1>6, <1>11, EmptySeq
  <2>2. PICK m : m = Len(r)
    OBVIOUS
  <2>3. m = Len(Ordered) - 1 /\ t \in Seq(S) /\ Len(t) = m - 1 /\ \A i \in 1..Len(t) : t[i] = r[i + 1]
    BY <1>11, <1>12, <2>1, <2>2, HeadTailProperties
  <2>4. QED
    BY <1>6, <2>3
<1>14. \A i \in 1..Len(t) : Calm(t[i])
  <2>1. ASSUME NEW i \in 1..Len(t) PROVE t[i] = all[i + 2] /\ i + 2 \in 3..Len(Ordered)
    <3>1. i + 1 \in 1..Len(r) /\ (i + 1) + 1 = i + 2
      BY <1>6, <1>11, <1>13
    <3>2. QED
      BY <1>6, <1>11, <1>13, <3>1
  <2>2. QED
    BY <1>9, <2>1
<1>15. CalmList(t)
  <2>1. PICK T : T = {t[i] : i \in 1..Len(t)}
    OBVIOUS
  <2>2. t \in Seq(T)
    <3>1. Len(t) \in Nat /\ t \in [1..Len(t) -> S]
      BY <1>6, <1>13, LenProperties
    <3>2. t \in [1..Len(t) -> T]
      BY <2>1, <3>1
    <3>3. QED
      BY <3>1, <3>2, SeqDef
  <2>3. \A c \in T : Calm(c)
    BY <1>14, <2>1
  <2>4. QED
    BY <2>2, <2>3 DEF CalmList
<1>16. r = <<PutBack(DbItem)>> \o t
  <2>1. r # <<>> /\ r[1] = PutBack(DbItem)
    BY <1>6, <1>8, <1>11, EmptySeq
  <2>2. PICK a : a = PutBack(DbItem)
    OBVIOUS
  <2>3. <<a>> \o t = r
    <3>1. PICK T : T = S \cup {a}
      OBVIOUS
    <3>2. <<a>> \in Seq(T) /\ t \in Seq(T) /\ r \in Seq(T) /\ Len(<<a>>) = 1 /\ <<a>>[1] = a
      BY <1>11, <1>13, <3>1, SeqMonotonic
    <3>3. PICK q : q = <<a>> \o t
      OBVIOUS
    <3>4. /\ q \in Seq(T) /\ Len(q) = Len(<<a>>) + Len(t)
          /\ \A i \in 1..(Len(<<a>>) + Len(t)) : q[i] = IF i <= Len(<<a>>) THEN <<a>>[i] ELSE t[i - Len(<<a>>)]
      BY <3>2, <3>3, ConcatProperties
    <3>5. Len(q) = Len(r) /\ \A i \in 1..Len(r) : q[i] = IF i <= 1 THEN a ELSE t[i - 1]
      BY <1>6, <1>11, <1>13, <3>2, <3>4
    <3>6. \A i \in 1..Len(r) : q[i] = r[i]
      <4>1. ASSUME NEW i \in 1..Len(r), i > 1 PROVE t[i - 1] = r[i]
        <5>1. i - 1 \in 1..Len(t) /\ (i - 1) + 1 = i
          BY <1>6, <1>11, <1>13, <4>1
        <5>2. QED
          BY <1>13, <5>1
      <4>2. QED
        BY <1>6, <1>11, <2>1, <2>2, <3>5, <4>1
    <3>7. QED
      BY <3>2, <3>3, <3>4, <3>5, <3>6, SeqEqual
  <2>4. QED
    BY <2>2, <2>3
<1>17. all = <<PutBack(CaItem)>> \o r
  <2>2. PICK a : a = PutBack(CaItem)
    OBVIOUS
  <2>3. <<a>> \o r = all
    <3>1. PICK T : T = S \cup {a}
      OBVIOUS
    <3>2. <<a>> \in Seq(T) /\ r \in Seq(T) /\ all \in Seq(T) /\ Len(<<a>>) = 1 /\ <<a>>[1] = a
      BY <1>7, <1>11, <3>1, SeqMonotonic
    <3>3. PICK q : q = <<a>> \o r
      OBVIOUS
    <3>4. /\ q \in Seq(T) /\ Len(q) = Len(<<a>>) + Len(r)
          /\ \A i \in 1..(Len(<<a>>) + Len(r)) : q[i] = IF i <= Len(<<a>>) THEN <<a>>[i] ELSE r[i - Len(<<a>>)]
      BY <3>2, <3>3, ConcatProperties
    <3>5. Len(q) = Len(all) /\ \A i \in 1..Len(all) : q[i] = IF i <= 1 THEN a ELSE r[i - 1]
      BY <1>6, <1>7, <1>11, <3>2, <3>4
    <3>6. \A i \in 1..Len(all) : q[i] = all[i]
      <4>1. ASSUME NEW i \in 1..Len(all), i > 1 PROVE r[i - 1] = all[i]
        <5>1. i - 1 \in 1..Len(r) /\ (i - 1) + 1 = i
          BY <1>6, <1>7, <1>11, <4>1
        <5>2. QED
          BY <1>11, <5>1
      <4>2. QED
        BY <1>6, <1>7, <1>8, <2>2, <3>5, <4>1
    <3>7. QED
      BY <3>2, <3>3, <3>4, <3>5, <3>6, SeqEqual
  <2>4. QED
    BY <2>2, <2>3
<1>18. [i \in 1..Len(Ordered) |-> PutBack(Ordered[i])] = <<PutBack(CaItem)>> \o (<<PutBack(DbItem)>> \o t)
  BY <1>4, <1>16, <1>17
<1>19. Calm(PutBack(CaItem)) /\ (DbItem \notin vault.file.titles => Calm(PutBack(DbItem)))
  <2>1. DbItem \notin vault.file.titles => PutBack(DbItem) = Rows({}, {})
    BY DEF PutBack, InFile
  <2>2. QED
    BY <1>2, <1>3, <2>1 DEF Calm
<1>20. QED
  BY <1>1, <1>15, <1>18, <1>19

(***************************************************************************)
(* A list of four calls, one by one.                                       *)
(***************************************************************************)
LEMMA FourCalls ==
  ASSUME NEW a, NEW b, NEW c, NEW e
  PROVE  <<a, b, c, e>> = <<a>> \o (<<b>> \o (<<c>> \o <<e>>))
<1>1. PICK S : S = {a, b, c, e}
  OBVIOUS
<1>2. <<a, b, c, e>> \in Seq(S) /\ <<a>> \in Seq(S) /\ <<b, c, e>> \in Seq(S)
  BY <1>1
<1>3. PICK all : all = <<a>> \o <<b, c, e>>
  OBVIOUS
<1>4. all \in Seq(S) /\ Len(all) = 4 /\ all[1] = a /\ all[2] = b /\ all[3] = c /\ all[4] = e
  <2>1. Len(<<a>>) = 1 /\ <<a>>[1] = a
        /\ Len(<<b, c, e>>) = 3 /\ <<b, c, e>>[1] = b /\ <<b, c, e>>[2] = c /\ <<b, c, e>>[3] = e
    OBVIOUS
  <2>2. all \in Seq(S) /\ Len(all) = Len(<<a>>) + Len(<<b, c, e>>)
        /\ \A i \in 1..(Len(<<a>>) + Len(<<b, c, e>>)) :
              all[i] = IF i <= Len(<<a>>) THEN <<a>>[i] ELSE <<b, c, e>>[i - Len(<<a>>)]
    BY <1>2, <1>3, ConcatProperties
  <2>3. QED
    BY <2>1, <2>2
<1>5. Len(<<a, b, c, e>>) = 4 /\ \A i \in 1..4 : all[i] = <<a, b, c, e>>[i]
  BY <1>4
<1>6. all = <<a, b, c, e>>
  BY <1>2, <1>4, <1>5, SeqEqual
<1>7. <<b, c, e>> = <<b>> \o <<c, e>> /\ <<c, e>> = <<c>> \o <<e>>
  BY ShortLists
<1>8. QED
  BY <1>3, <1>6, <1>7

(***************************************************************************)
(* The serials a rebuild goes by are serials, the CA's among them, and the *)
(* next one it saves is a serial or the one after them all.                *)
(***************************************************************************)
LEMMA SerialsFollow ==
  ASSUME NEW given \in {0} \cup Name
  PROVE  NextAfter(given) \in 1..(Cardinality(Name) + 1) /\ CaSerial + 1 \in 1..(Cardinality(Name) + 1)
<1>n. PICK N \in Nat : N = Cardinality(Name) /\ Name = 1..N
  BY Names
<1>1. Serials \subseteq 1..N /\ CaSerial \in Serials
  BY <1>n, CaAssumption DEF Serials, InVault
<1>2. \E x \in Serials : \A y \in Serials : y <= x
  BY <1>1, GreatestExists
<1>3. MaxSerial \in Serials
  BY <1>2 DEF MaxSerial
<1>4. PICK m : m = MaxSerial
  OBVIOUS
<1>5. m \in 1..N
  BY <1>1, <1>3, <1>4
<1>6. NextAfter(given) \in {given, m + 1} /\ (NextAfter(given) = given => m < given)
  <2>1. NextAfter(given) = IF m < given THEN given ELSE m + 1
    BY <1>4 DEF NextAfter
  <2>2. given \in Nat
    BY <1>n
  <2>3. QED
    BY <1>5, <2>1, <2>2
<1>7. NextAfter(given) \in 1..(N + 1)
  <2>1. m + 1 \in 1..(N + 1)
    BY <1>5
  <2>2. CASE NextAfter(given) = given
    <3>1. m < given
      BY <1>6, <2>2
    <3>2. given = 0 \/ given \in 1..N
      BY <1>n
    <3>3. given # 0
      BY <1>5, <3>1
    <3>4. given \in 1..(N + 1)
      BY <1>n, <3>2, <3>3
    <3>5. QED
      BY <2>2, <3>4
  <2>3. QED
    BY <1>6, <2>1, <2>2
<1>8. CaSerial + 1 \in 1..(N + 1)
  <2>1. CaSerial \in 1..N /\ CaSerial = 1
    BY <1>n, CaAssumption DEF CaSerial
  <2>2. QED
    BY <2>1
<1>9. QED
  BY <1>7, <1>8, <1>n

(***************************************************************************)
(* What a command may start with on database d: calm calls, a serial spent,*)
(* or up to two calm calls and then writing.                               *)
(***************************************************************************)
Works(s, d) ==
    \/ d # {} /\ StoresRows(s)
    \/ d = {} /\ vault.saved = {} /\ Founds(s)
    \/ faults # 0 /\ Replaces(s)
Opens(s, d) ==
    \/ CalmList(s)
    \/ \E n, t : n \in Name /\ Serial(n) \in d /\ Signing(t) /\ s = <<Rows({Serial(n)}, {Serial(n + 1)})>> \o t
    \/ Works(s, d)
    \/ \E b, t : Calm(b) /\ Works(t, d) /\ s = <<b>> \o t
    \/ \E b, c, t : Calm(b) /\ Calm(c) /\ Works(t, d) /\ s = <<b>> \o (<<c>> \o t)

(***************************************************************************)
(* Such a list is one LedgerInv allows once the command has started.       *)
(***************************************************************************)
LEMMA LedgerOpens ==
  ASSUME NEW s, NEW d, Opens(s, d), UNCHANGED <<vault, faults>>, db' = d, run'.calls = s
  PROVE  (LedgerToDo(run.calls))'
<1>1. CASE CalmList(s)
  BY <1>1 DEF LedgerToDo
<1>2. CASE \E n, t : n \in Name /\ Serial(n) \in d /\ Signing(t) /\ s = <<Rows({Serial(n)}, {Serial(n + 1)})>> \o t
  BY <1>2 DEF LedgerToDo, Spending
<1>3. \A t : Works(t, d) => (Work(t))'
  BY DEF Works, Work, Noting, Making, Replacing
<1>4. \A b, t : Calm(b) /\ Works(t, d) => (Begun(<<b>> \o t))'
  BY <1>3 DEF Begun
<1>5. CASE Works(s, d)
  <2>1. (Work(s))'
    BY <1>3, <1>5
  <2>2. QED
    BY <2>1 DEF LedgerToDo, Work, Noting, Making, Replacing
<1>6. ASSUME NEW b, NEW t, Calm(b), Works(t, d), s = <<b>> \o t PROVE (LedgerToDo(run.calls))'
  <2>1. (Begun(s))'
    BY <1>4, <1>6
  <2>2. QED
    BY <2>1 DEF LedgerToDo, Begun
<1>7. ASSUME NEW b, NEW c, NEW t, Calm(b), Calm(c), Works(t, d), s = <<b>> \o (<<c>> \o t)
      PROVE (LedgerToDo(run.calls))'
  <2>1. PICK u : u = <<c>> \o t
    OBVIOUS
  <2>2. (Begun(u))'
    BY <1>4, <1>7, <2>1
  <2>3. (Due(s))'
    BY <1>7, <2>1, <2>2 DEF Due
  <2>4. QED
    BY <2>3 DEF LedgerToDo, Due
<1>8. QED
  BY <1>1, <1>2, <1>5, <1>6, <1>7 DEF Opens

(***************************************************************************)
(* The CA's commands on the database they find: what makes one anew does   *)
(* so in a vault without it.                                               *)
(***************************************************************************)
LEMMA CaOpens ==
  ASSUME LedgerState, Counted, CaFirst, NEW d, Led(d), vault.saved = {} => d = {}
  PROVE  /\ \A next \in 1..(Cardinality(Name) + 1) : Opens(FirstCalls(next), d)
         /\ \A given \in {0} \cup Name : Opens(RebuildCalls(given), d)
         /\ d # {} /\ CanIssue(d) => Opens(SignCalls(d), d)
         /\ d # {} => /\ \A calls \in ConfigCalls : Opens(calls, d)
                      /\ Opens(ResignCalls, d) /\ Opens(<<Call("put_crl", {})>> \o Stored({}, {}), d)
         /\ Opens(BackupCalls, d) /\ Opens(RestoreCalls, d)
         /\ \A copy : faults # 0 =>
               Opens(<<Read(CaItem), Call("unreadable", 0), Call("replace_db", copy), Rows({}, copy)>>, d)
<1>r. Opens(<<Refuse>>, d)
  <2>1. Calm(Refuse)
    BY DEF Calm, Refuse, Call
  <2>2. QED
    BY <2>1, CalmLists DEF Opens
<1>c. \A t : Calm(Create(t)) /\ Calm(Read(t)) /\ Calm(Put(t)) /\ Calm(Call("put_crl", {})) /\ Calm(Call("unreadable", 0))
  BY DEF Calm, Create, Read, Put, Call
<1>n. \A n, s, k : Serial(k) # Cert(n, s) /\ (Serial(k) = Serial(n) => k = n)
  BY DEF Serial, Cert
<1>j. /\ \A a, s, t : IsList(s) /\ IsList(t) => (<<a>> \o s) \o t = <<a>> \o (s \o t)
      /\ \A a : <<a>> = <<a>> \o <<>>
  <2>1. IsList(<<>>)
    BY ShortLists
  <2>2. QED
    BY <2>1, Consed
<1>1. ASSUME NEW next \in 1..(Cardinality(Name) + 1) PROVE Opens(FirstCalls(next), d)
  <2>1. CASE vault.items[CaItem] # 0
    BY <2>1, <1>r DEF FirstCalls
  <2>2. CASE vault.items[CaItem] = 0
    <3>1. vault.saved = {} /\ d = {}
      BY <2>2 DEF CaFirst
    <3>2. PICK rows, a, b, c : /\ rows = NewRows(next)
                               /\ a = Create(CaItem) /\ b = Call("new_db", rows) /\ c = Rows({}, rows)
      OBVIOUS
    <3>3. Ledger(rows, next)
      BY <1>n, <3>2 DEF NewRows, Ledger
    <3>4. Led(rows) /\ rows # {}
      BY <3>3, TheNext DEF Led
    <3>5. <<a, b, c>> = <<a>> \o <<b, c>> /\ <<b, c>> = <<b>> \o <<c>> /\ <<c>> = <<c>> \o <<>>
      <4>1. <<a, b, c>> = <<a>> \o <<b, c>> /\ <<b, c>> = <<b>> \o <<c>>
        BY ShortLists
      <4>2. QED
        BY <1>j, <4>1
    <3>6. Loads(<<c>>, rows)
      BY <3>2, <3>5 DEF Loads
    <3>7. Founds(<<b, c>>)
      BY <3>2, <3>4, <3>5, <3>6 DEF Founds
    <3>8. Calm(a)
      BY <1>c, <3>2
    <3>9. Opens(<<a, b, c>>, d)
      BY <3>1, <3>5, <3>7, <3>8 DEF Opens, Works
    <3>10. QED
      BY <2>2, <3>2, <3>9 DEF FirstCalls
  <2>3. QED
    BY <2>1, <2>2
<1>2. ASSUME NEW given \in {0} \cup Name PROVE Opens(RebuildCalls(given), d)
  <2>1. PICK rows, next : next = NextAfter(given) /\ rows = {Cert(n, "Valid") : n \in Serials} \cup {Serial(next)}
    OBVIOUS
  <2>2. PICK b, c, t : b = Call("new_db", rows) /\ c = Rows({}, rows) /\ t = Stored({}, {})
    OBVIOUS
  <2>3. RebuildCalls(given) = <<Refuse>>
        \/ (RebuildCalls(given) = <<b, c>> \o t /\ vault.items[DbItem] = 0)
    BY <2>1, <2>2 DEF RebuildCalls
  <2>4. CASE RebuildCalls(given) = <<b, c>> \o t /\ vault.items[DbItem] = 0
    <3>1. vault.saved = {} /\ d = {}
      BY <2>4 DEF LedgerState
    <3>2. Ledger(rows, next)
      BY <1>n, <2>1, SerialsFollow DEF Ledger
    <3>3. Led(rows) /\ rows # {}
      BY <3>2, TheNext DEF Led
    <3>4. IsList(<<c>>) /\ IsList(t) /\ <<b, c>> = <<b>> \o <<c>>
      BY <2>2, ShortLists, LedgerHeads
    <3>5. <<b, c>> \o t = <<b>> \o (<<c>> \o t)
      BY <1>j, <3>4
    <3>6. Loads(<<c>> \o t, rows)
      BY <2>2 DEF Loads
    <3>7. Founds(<<b, c>> \o t)
      BY <2>2, <3>3, <3>5, <3>6 DEF Founds
    <3>8. QED
      BY <2>4, <3>1, <3>7 DEF Opens, Works
  <2>5. QED
    BY <1>r, <2>3, <2>4
<1>3. ASSUME d # {}, CanIssue(d) PROVE Opens(SignCalls(d), d)
  <2>1. PICK n : n = NextSerial(d)
    OBVIOUS
  <2>2. n \in Name /\ Serial(n) \in d
    <3>1. PICK m : Ledger(d, m)
      BY <1>3 DEF Led
    <3>2. n = m /\ Serial(m) \in d
      BY <2>1, <3>1, TheNext DEF Ledger
    <3>3. QED
      BY <1>3, <2>1, <3>2 DEF CanIssue
  <2>3. PICK a, b, t : /\ a = Rows({Serial(n)}, {Serial(n + 1)}) /\ b = Create(CrtItem(n))
                       /\ t = IF n \in Known(d) THEN <<Refuse>> ELSE Stored({}, {Cert(n, "Valid")})
    OBVIOUS
  <2>4. CalmList(t) \/ StoresRows(t)
    <3>1. CalmList(<<Refuse>>)
      <4>1. Calm(Refuse)
        BY DEF Calm, Refuse, Call
      <4>2. QED
        BY <4>1, CalmLists
    <3>2. StoresRows(Stored({}, {Cert(n, "Valid")}))
      <4>1. PICK new : new = {Cert(n, "Valid")}
        OBVIOUS
      <4>2. \A k : Serial(k) \notin new
        BY <1>n, <4>1
      <4>3. QED
        BY <4>1, <4>2 DEF StoresRows
    <3>3. QED
      BY <2>3, <3>1, <3>2
  <2>5. IsList(t) /\ IsList(<<b>>) /\ <<a, b>> = <<a>> \o <<b>>
    BY <2>3, <2>4, ShortLists, LedgerHeads
  <2>6. SignCalls(d) = <<a, b>> \o t
    BY <2>1, <2>3 DEF SignCalls, IssueCalls
  <2>7. SignCalls(d) = <<a>> \o (<<b>> \o t)
    BY <1>j, <2>5, <2>6
  <2>8. Signing(<<b>> \o t)
    BY <1>c, <2>3, <2>4 DEF Signing
  <2>9. QED
    BY <2>2, <2>3, <2>7, <2>8 DEF Opens
<1>s. d # {} => \A new : (\A k : Serial(k) \notin new) => Works(Stored({}, new), d)
  BY DEF Works, StoresRows
<1>4. ASSUME d # {}, NEW calls \in ConfigCalls PROVE Opens(calls, d)
  <2>1. PICK new : new = {ConfigRow}
    OBVIOUS
  <2>2. \A k : Serial(k) \notin new
    BY <2>1 DEF Serial, ConfigRow
  <2>3. calls = <<Refuse>> \/ calls = Stored({}, new)
    BY <1>4, <2>1 DEF ConfigCalls
  <2>4. QED
    BY <1>4, <1>r, <1>s, <2>2, <2>3 DEF Opens
<1>5. ASSUME d # {} PROVE Opens(ResignCalls, d) /\ Opens(<<Call("put_crl", {})>> \o Stored({}, {}), d)
  <2>1. PICK a, b, t : a = Read(CaItem) /\ b = Put(CaItem) /\ t = Stored({}, {})
    OBVIOUS
  <2>2. Works(t, d)
    BY <1>5, <1>s, <2>1
  <2>3. IsList(t) /\ IsList(<<b>>) /\ <<a, b>> = <<a>> \o <<b>>
    BY <2>1, ShortLists, LedgerHeads
  <2>4. <<a, b>> \o t = <<a>> \o (<<b>> \o t)
    BY <1>j, <2>3
  <2>5. Opens(<<a, b>> \o t, d)
    BY <1>c, <2>1, <2>2, <2>4 DEF Opens
  <2>6. Opens(<<Call("put_crl", {})>> \o t, d)
    BY <1>c, <2>2 DEF Opens
  <2>7. QED
    BY <2>1, <2>5, <2>6 DEF ResignCalls
<1>6. Opens(BackupCalls, d)
  BY CalmBackups DEF Opens
<1>7. Opens(RestoreCalls, d)
  <2>1. CASE vault.items[CaItem] # 0
    BY <2>1, <1>r DEF RestoreCalls
  <2>2. CASE vault.items[CaItem] = 0
    <3>1. PICK t : CalmList(t) /\ RestoreCalls = <<PutBack(CaItem)>> \o (<<PutBack(DbItem)>> \o t)
      BY <2>2, CalmBackups DEF RestoreCalls
    <3>2. PICK a, b : a = PutBack(CaItem) /\ b = PutBack(DbItem)
      OBVIOUS
    <3>3. Calm(a)
      BY <3>2, CalmBackups
    <3>4. CASE DbItem \in vault.file.titles
      <4>1. b = Call("new_db", vault.file.rows) /\ Led(vault.file.rows)
        BY <3>2, <3>4 DEF PutBack, InFile, LedgerState
      <4>2. Founds(<<b>> \o t)
        BY <3>1, <4>1 DEF Founds
      <4>3. vault.saved = {} /\ d = {}
        BY <2>2 DEF CaFirst
      <4>4. QED
        BY <3>1, <3>2, <3>3, <4>2, <4>3 DEF Opens, Works
    <3>5. CASE DbItem \notin vault.file.titles
      <4>1. Calm(b)
        BY <3>2, <3>5, CalmBackups
      <4>2. CalmList(<<a>> \o (<<b>> \o t))
        BY <3>1, <3>3, <4>1, CalmLists
      <4>3. QED
        BY <3>1, <3>2, <4>2 DEF Opens
    <3>6. QED
      BY <3>4, <3>5
  <2>3. QED
    BY <2>1, <2>2
<1>8. ASSUME NEW copy, faults # 0
      PROVE  Opens(<<Read(CaItem), Call("unreadable", 0), Call("replace_db", copy), Rows({}, copy)>>, d)
  <2>1. PICK a, b, c, e : a = Read(CaItem) /\ b = Call("unreadable", 0) /\ c = Call("replace_db", copy) /\ e = Rows({}, copy)
    OBVIOUS
  <2>2. PICK t : t = <<e>>
    OBVIOUS
  <2>3. Replaces(<<c>> \o t)
    BY <2>1, <2>2, ShortLists DEF Replaces
  <2>4. <<a, b, c, e>> = <<a>> \o (<<b>> \o (<<c>> \o t))
    BY <2>2, FourCalls
  <2>5. Opens(<<a, b, c, e>>, d)
    BY <1>8, <1>c, <2>1, <2>3, <2>4 DEF Opens, Works
  <2>6. QED
    BY <2>1, <2>5
<1>9. QED
  BY <1>1, <1>2, <1>3, <1>4, <1>5, <1>6, <1>7, <1>8

(***************************************************************************)
(* A command of the CA starts.                                             *)
(***************************************************************************)
LEMMA LedgerBegins ==
  ASSUME LedgerState, FirstFailure, CaFirst, Counted, Formed, NEW cmd, NEW calls, NEW d,
         \/ InApp(cmd, calls) /\ d = db
         \/ InCli(cmd, calls, <<>>) /\ d = Retrieved,
         Opens(calls, d)
  PROVE  LedgerInv'
<1>1. /\ UNCHANGED <<vault, faults>> /\ run'.calls = calls /\ db' = d
      /\ d = Retrieved \/ (d = db /\ client' = client)
  BY AppStarts, CliStarts DEF Starts, InApp
<1>2. LedgerState'
  BY <1>1, LedgerStart DEF CaFirst
<1>3. (LedgerToDo(run.calls))'
  BY <1>1, LedgerOpens
<1>4. QED
  BY <1>2, <1>3 DEF LedgerInv

(***************************************************************************)
(* The database that is found, of which all of LedgerInv is known.         *)
(***************************************************************************)
LEMMA FoundLedger ==
  ASSUME LedgerState, FirstFailure, CaFirst
  PROVE  /\ Led(db) /\ (vault.saved = {} => db = {})
         /\ Led(Retrieved) /\ (vault.saved = {} => Retrieved = {})
         /\ Retrieved # {} => Retrieved = vault.saved
<1>1. Retrieved \in {{}, vault.saved}
  BY DEF Retrieved
<1>2. db # {} => vault.saved # {}
  BY LedgersOf
<1>3. QED
  BY <1>1, <1>2 DEF LedgerState, Led

(***************************************************************************)
(* Every command of the CA that starts, and what happens without a client. *)
(***************************************************************************)
LEMMA LedgerMove ==
  ASSUME LedgerInv, FirstFailure, FirstFailure', CaFirst, Counted, Formed, IsList(vault.kept), CaNext
  PROVE  LedgerInv'
<1> USE DEF LedgerInv
<1>d. /\ Led(db) /\ (vault.saved = {} => db = {})
      /\ Led(Retrieved) /\ (vault.saved = {} => Retrieved = {})
      /\ Retrieved # {} => Retrieved = vault.saved
  BY FoundLedger
<1>o. ASSUME NEW d, d = db \/ d = Retrieved
      PROVE  /\ \A next \in 1..(Cardinality(Name) + 1) : Opens(FirstCalls(next), d)
             /\ \A given \in {0} \cup Name : Opens(RebuildCalls(given), d)
             /\ d # {} /\ CanIssue(d) => Opens(SignCalls(d), d)
             /\ d # {} => /\ \A calls \in ConfigCalls : Opens(calls, d)
                          /\ Opens(ResignCalls, d) /\ Opens(<<Call("put_crl", {})>> \o Stored({}, {}), d)
             /\ Opens(BackupCalls, d) /\ Opens(RestoreCalls, d)
             /\ \A copy : faults # 0 =>
                   Opens(<<Read(CaItem), Call("unreadable", 0), Call("replace_db", copy), Rows({}, copy)>>, d)
  <2>1. Led(d) /\ (vault.saved = {} => d = {})
    BY <1>d, <1>o
  <2>2. QED
    BY <2>1, CaOpens
<1>b. ASSUME NEW cmd, NEW calls, NEW d, Opens(calls, d),
             \/ InApp(cmd, calls) /\ d = db
             \/ InCli(cmd, calls, <<>>) /\ d = Retrieved
      PROVE  LedgerInv'
  BY <1>b, LedgerBegins
<1>s. CaSerial + 1 \in 1..(Cardinality(Name) + 1) /\ \A next \in ImportSerial : next \in 1..(Cardinality(Name) + 1)
  BY SerialsFollow, CaAssumption
<1>1. ASSUME InitCa \/ CliInit \/ \E next \in ImportSerial : CliImport(next) PROVE LedgerInv'
  <2>1. PICK next \in 1..(Cardinality(Name) + 1), cmd \in {"init_ca", "ca init", "ca import"} :
          InApp(cmd, FirstCalls(next)) \/ InCli(cmd, FirstCalls(next), <<>>)
    BY <1>1, <1>s DEF InitCa, CliInit, CliImport
  <2>2. Opens(FirstCalls(next), db) /\ Opens(FirstCalls(next), Retrieved)
    BY <1>o
  <2>3. QED
    BY <1>b, <2>1, <2>2
<1>2. ASSUME Sign \/ CliSign PROVE LedgerInv'
  <2>1. CASE Sign
    <3>1. Opens(SignCalls(db), db) /\ InApp("create_cert", SignCalls(db))
      BY <1>o, <2>1 DEF Sign, Loaded
    <3>2. QED
      BY <1>b, <3>1
  <2>2. CASE CliSign
    <3>1. Opens(SignCalls(Retrieved), Retrieved) /\ InCli("cert create", SignCalls(Retrieved), <<>>)
      BY <1>o, <2>2 DEF CliSign
    <3>2. QED
      BY <1>b, <3>1
  <2>3. QED
    BY <1>2, <2>1, <2>2
<1>3. ASSUME UpdateConfig \/ CliConfigSet PROVE LedgerInv'
  <2>1. PICK calls \in ConfigCalls : \/ db # {} /\ InApp("update_ca_config", calls)
                                     \/ Retrieved # {} /\ InCli("config-set", calls, <<>>)
    BY <1>3 DEF UpdateConfig, CliConfigSet, Loaded
  <2>2. (db # {} => Opens(calls, db)) /\ (Retrieved # {} => Opens(calls, Retrieved))
    BY <1>o
  <2>3. QED
    BY <1>b, <2>1, <2>2
<1>4. ASSUME ResignCa \/ CliResign \/ MakeCrl PROVE LedgerInv'
  <2>1. PICK calls : calls = ResignCalls
    OBVIOUS
  <2>2. PICK crl : crl = <<Call("put_crl", {})>> \o Stored({}, {})
    OBVIOUS
  <2>3. \/ db # {} /\ InApp("resign_ca", calls)
        \/ Retrieved # {} /\ InCli("ca resign", calls, <<>>)
        \/ db # {} /\ InApp("generate_crl", crl)
    BY <1>4, <2>1, <2>2 DEF ResignCa, CliResign, MakeCrl, Loaded
  <2>4. (db # {} => Opens(calls, db) /\ Opens(crl, db)) /\ (Retrieved # {} => Opens(calls, Retrieved))
    BY <1>o, <2>1, <2>2
  <2>5. QED
    BY <1>b, <2>3, <2>4
<1>5. ASSUME BackUpVault \/ CliBackUpVault \/ RestoreVault \/ CliRestoreVault PROVE LedgerInv'
  <2>1. PICK calls \in {BackupCalls, RestoreCalls}, cmd \in {"vault_backup", "vault backup", "vault_restore", "vault restore"} :
          InApp(cmd, calls) \/ InCli(cmd, calls, <<>>)
    BY <1>5 DEF BackUpVault, CliBackUpVault, RestoreVault, CliRestoreVault
  <2>2. Opens(calls, db) /\ Opens(calls, Retrieved)
    BY <1>o
  <2>3. QED
    BY <1>b, <2>1, <2>2
<1>6. ASSUME NEW given \in {0} \cup Name, CliRebuild(given) PROVE LedgerInv'
  <2>1. Opens(RebuildCalls(given), Retrieved)
    BY <1>o
  <2>2. QED
    BY <1>6, <1>b, <2>1 DEF CliRebuild
<1>7. ASSUME NEW i \in 1..Len(vault.kept), RestoreLocalBackup(vault.kept[i]) PROVE LedgerInv'
  <2>1. PICK copy : copy = vault.kept[i]
    OBVIOUS
  <2>2. /\ db = {} /\ client = "app"
        /\ InApp("restore_local_backup", <<Read(CaItem), Call("unreadable", 0), Call("replace_db", copy), Rows({}, copy)>>)
    BY <1>7, <2>1 DEF RestoreLocalBackup, Restorable, Loaded, InApp
  <2>3. vault.kept # <<>>
    BY <1>7
  <2>4. faults # 0
    BY <2>2, <2>3 DEF LedgerState
  <2>5. Opens(<<Read(CaItem), Call("unreadable", 0), Call("replace_db", copy), Rows({}, copy)>>, db)
    BY <1>o, <2>4
  <2>6. QED
    BY <1>b, <2>2, <2>5
<1>8. ASSUME LoadCa PROVE LedgerInv'
  <2>1. UNCHANGED <<vault, faults, run, client>> /\ client = "app" /\ db' = Retrieved /\ run = Idle
    BY <1>8 DEF LoadCa
  <2>2. LedgerState'
    BY <2>1, LedgerStart
  <2>3. run'.calls = <<>>
    BY <2>1 DEF Idle
  <2>4. QED
    BY <2>2, <2>3, NothingLeft
<1>9. ASSUME DatabaseRemoved PROVE LedgerInv'
  <2>1. vault.bad /\ vault' = [vault EXCEPT !.items[DbItem] = 0, !.saved = {}, !.bad = FALSE] /\ UNCHANGED faults
    BY <1>9 DEF DatabaseRemoved
  <2>2. vault'.bad = FALSE
    BY <2>1 DEF Formed, VaultFields
  <2>3. faults = 0 /\ ~vault.bad
    BY <2>1, <2>2 DEF FirstFailure, LedgerState
  <2>4. QED
    BY <2>1, <2>3
<1>10. ASSUME CreateVault PROVE LedgerInv'
  <2>1. /\ client = "none" /\ vault' = [Empty EXCEPT !.file = vault.file]
        /\ UNCHANGED <<area, db, client, run, past, faults>>
    BY <1>10 DEF CreateVault
  <2>2. /\ vault'.saved = {} /\ vault'.bad = FALSE /\ vault'.kept = <<>> /\ vault'.draft.rows = {}
        /\ vault'.file = vault.file
    BY <2>1 DEF Empty, NoFile
  <2>3. faults' = 0
    BY <2>2 DEF FirstFailure
  <2>4. db' = {} /\ run' = Idle
    BY <2>1 DEF CaFirst, Formed
  <2>5. run'.calls = <<>>
    BY <2>4 DEF Idle
  <2>6. Led({}) /\ Led(vault'.file.rows)
    BY <2>2 DEF Led, LedgerState
  <2>7. LedgerState'
    BY <2>2, <2>3, <2>4, <2>6 DEF LedgerState, Led, Ledger
  <2>8. QED
    BY <2>5, <2>7, NothingLeft
<1>11. QED
  BY <1>1, <1>2, <1>3, <1>4, <1>5, <1>6, <1>7, <1>8, <1>9, <1>10 DEF CaNext

DamageInv ==
    /\ RowsInv /\ faults \in Nat
    /\ IF area = "ca" THEN FirstFailure => LedgerInv ELSE vault.bad = FALSE

(***************************************************************************)
(* It holds at first, in a vault without a database.                       *)
(***************************************************************************)
LEMMA DamageStart == Init => DamageInv
<1> SUFFICES ASSUME Init PROVE DamageInv
  OBVIOUS
<1>1. PICK F : vault = [Empty EXCEPT !.fields = F, !.items[OpenVpn] = IF F = {} THEN 0 ELSE 1,
                                     !.saved = IF area \in {"cert", "marks"} THEN {Serial(1)} ELSE {}]
  BY DEF Init
<1>2. /\ vault.bad = FALSE /\ vault.kept = <<>> /\ vault.file.rows = {} /\ vault.draft.rows = {}
      /\ area = "ca" => vault.saved = {}
  BY <1>1 DEF Empty, NoFile
<1>3. db = {} /\ run.calls = <<>> /\ faults = 0
  BY DEF Init, Idle
<1>4. area = "ca" => LedgerInv
  <2>1. LedgerToDo(run.calls)
    BY <1>3, CalmLists DEF LedgerToDo
  <2>2. QED
    BY <1>2, <1>3, <2>1 DEF LedgerInv, LedgerState, Led
<1>5. QED
  BY <1>2, <1>3, <1>4, RowsStart DEF DamageInv

(***************************************************************************)
(* A call that is done leaves the database readable, or as it was.         *)
(***************************************************************************)
LEMMA StaysBad ==
  ASSUME Formed, Counted, NEW c, vault' = VaultAfter(c)
  PROVE  (vault'.bad = vault.bad /\ vault'.saved = vault.saved) \/ vault'.bad = FALSE
<1>1. VaultAfter(c).bad \in {vault.bad, FALSE}
  BY BadKept
<1>2. CASE c.do \in {"store", "new_db", "replace_db"}
  BY <1>2, CallsLeave DEF SavedIs
<1>3. CASE c.do \notin {"store", "new_db", "replace_db"}
  <2>1. PICK v : v = VaultAfter(c)
    OBVIOUS
  <2>2. \/ v.saved = vault.saved
        \/ c.do = "store" /\ v.saved = Written(c)
        \/ c.do \in {"new_db", "replace_db"} /\ v.saved = c.of
    BY <2>1, PartsChanged
  <2>3. QED
    BY <1>1, <1>3, <2>1, <2>2
<1>4. QED
  BY <1>2, <1>3

(***************************************************************************)
(* Every failure after the first is one too many, and only this area's     *)
(* failures leave the database unreadable.                                 *)
(***************************************************************************)
LEMMA FailuresCount ==
  ASSUME Formed, Counted, faults \in Nat, CommandNext
  PROVE  /\ faults' \in Nat /\ (FirstFailure' => FirstFailure)
         /\ area # "ca" /\ vault.bad = FALSE => vault'.bad = FALSE
<1>1. ASSUME Succeeds \/ Refused \/ Fails
      PROVE  /\ faults' \in Nat /\ (FirstFailure' => FirstFailure)
             /\ area # "ca" /\ vault.bad = FALSE => vault'.bad = FALSE
  <2>1. PICK c : Done(c) \/ Lost(c)
    BY <1>1, CallSteps
  <2>2. \/ faults' = faults /\ (vault' = VaultAfter(c) \/ vault' = vault)
        \/ faults' = faults + 1 /\ (vault' = vault \/ vault' = VaultAfter(c) \/ area = "ca")
    BY <2>1 DEF Done, Lost
  <2>3. vault' = VaultAfter(c) => (vault'.bad = vault.bad /\ vault'.saved = vault.saved) \/ vault'.bad = FALSE
    BY StaysBad
  <2>4. CASE faults' = faults /\ (vault' = VaultAfter(c) \/ vault' = vault)
    BY <2>3, <2>4 DEF FirstFailure
  <2>5. CASE faults' = faults + 1 /\ (vault' = vault \/ vault' = VaultAfter(c) \/ area = "ca")
    <3>1. faults' \in Nat /\ faults' # 0 /\ (faults' = 1 => faults = 0)
      BY <2>5
    <3>2. FirstFailure' => FirstFailure
      BY <3>1 DEF FirstFailure
    <3>3. QED
      BY <2>3, <2>5, <3>1, <3>2
  <2>6. QED
    BY <2>2, <2>4, <2>5
<1>2. ASSUME Ends \/ OpenApp \/ CloseApp \/ Crash
      PROVE  /\ faults' \in Nat /\ (FirstFailure' => FirstFailure)
             /\ area # "ca" /\ vault.bad = FALSE => vault'.bad = FALSE
  <2>1. vault' = vault /\ faults' \in {faults, faults + 1}
    BY <1>2, RestSteps DEF Rests
  <2>2. faults' \in Nat /\ (faults' = 0 => faults = 0) /\ (faults' = 1 => faults \in {0, 1})
    BY <2>1
  <2>3. QED
    BY <2>1, <2>2 DEF FirstFailure
<1>3. ASSUME StartsInApp \/ StartsInCli \/ StartsList \/ NextOfList PROVE UNCHANGED <<vault, faults>>
  BY <1>3 DEF StartsInApp, StartsInCli, StartsList, NextOfList, InApp, InCli, BulkInApp, NextItem
<1>4. ASSUME Elsewhere
      PROVE  /\ UNCHANGED faults
             /\ (vault'.bad = vault.bad /\ vault'.saved = vault.saved) \/ vault'.bad = FALSE
  <2>1. ASSUME NEW c \in Name, DeletedElsewhere(c) \/ OlderClientAdds(c) \/ Expire(c)
        PROVE  UNCHANGED faults /\ vault'.bad = vault.bad /\ vault'.saved = vault.saved
    BY <2>1 DEF DeletedElsewhere, OlderClientAdds, Expire, Formed, VaultFields
  <2>2. ASSUME DatabaseRemoved \/ CreateVault
        PROVE  UNCHANGED faults /\ vault'.bad = FALSE
    BY <2>2 DEF DatabaseRemoved, CreateVault, Formed, VaultFields, Empty
  <2>3. LoadCa => UNCHANGED <<vault, faults>>
    BY DEF LoadCa
  <2>4. QED
    BY <1>4, <2>1, <2>2, <2>3 DEF Elsewhere
<1>5. QED
  BY <1>1, <1>2, <1>3, <1>4, StepKinds DEF FirstFailure

(***************************************************************************)
(* Every command keeps DamageInv.                                          *)
(***************************************************************************)
LEMMA DamageCommand ==
  ASSUME DamageInv, CommandNext, RowsInv'
  PROVE  DamageInv'
<1>1. area' = area
  BY AreaStays
<1>2. CASE area = "csr"
  <2>1. Formed /\ Counted
    BY <1>2 DEF DamageInv, RowsInv, CallsInv, CsrInv, CsrSound
  <2>2. QED
    BY <1>1, <1>2, <2>1, FailuresCount DEF DamageInv
<1>3. CASE area # "csr"
  <2>1. Formed /\ Counted /\ OwnState
    BY <1>3 DEF DamageInv, RowsInv, CallsInv, OwnInv, OwnState
  <2>2. CASE area # "ca"
    BY <1>1, <2>1, <2>2, FailuresCount DEF DamageInv
  <2>3. CASE area = "ca"
    <3>1. CaFirst /\ IsList(vault.kept)
      BY <2>1, <2>3 DEF DamageInv, RowsInv, CallsInv, OwnState, OwnCopies, IsList
    <3>2. faults' \in Nat /\ (FirstFailure' => FirstFailure)
      BY <2>1, FailuresCount DEF DamageInv
    <3>3. ASSUME FirstFailure' PROVE LedgerInv'
      <4>1. FirstFailure /\ LedgerInv
        BY <2>3, <3>2, <3>3 DEF DamageInv
      <4>2. CASE CaNext
        BY <2>1, <3>1, <3>3, <4>1, <4>2, LedgerMove
      <4>3. CASE Succeeds \/ Refused \/ Fails
        <5>1. PICK c : /\ run.calls # <<>> /\ client # "none" /\ client' = client
                       /\ c = Head(run.calls) /\ (Done(c) \/ Lost(c))
          BY <2>1, <4>3, CallSteps
        <5>2. LedgerStep(c)
          BY <2>1, <2>3, <3>1, <3>3, <4>1, <5>1 DEF LedgerStep
        <5>3. QED
          BY <5>2, LedgerCallStep
      <4>4. CASE Ends \/ OpenApp \/ CloseApp \/ Crash
        <5>1. /\ vault' = vault /\ run' = Idle /\ faults' \in {faults, faults + 1}
              /\ \/ db' = db /\ client' = client
                 \/ db' = {} /\ client' = "none"
                 \/ db' = Retrieved /\ client' = "app"
          BY <2>1, <4>4, RestSteps DEF Rests
        <5>2. faults' = faults
          <6>1. ASSUME faults' = faults + 1 PROVE FALSE
            <7>1. faults = 0 /\ vault'.bad
              BY <3>3, <6>1 DEF DamageInv, FirstFailure
            <7>2. QED
              BY <4>1, <5>1, <7>1 DEF LedgerInv, LedgerState
          <6>2. QED
            BY <5>1, <6>1
        <5>3. LedgerState'
          BY <3>1, <4>1, <5>1, <5>2, LedgerStart DEF LedgerInv, CaFirst
        <5>4. run'.calls = <<>>
          BY <5>1 DEF Idle
        <5>5. QED
          BY <5>3, <5>4, NothingLeft DEF LedgerInv
      <4>5. QED
        BY <2>3, <4>2, <4>3, <4>4 DEF CommandNext, CsrNext, DkimNext, OpenVpnNext, ProfileNext, CertNext, MarkNext
    <3>4. QED
      BY <1>1, <2>3, <3>2, <3>3 DEF DamageInv
  <2>4. QED
    BY <2>2, <2>3
<1>4. QED
  BY <1>2, <1>3

(***************************************************************************)
(* It always holds.                                                        *)
(***************************************************************************)
LEMMA DamageAlways == Spec => []DamageInv
<1>1. ASSUME DamageInv, [Next]_<<vars, sessionVars, schemaVars, copyVars, watchVars>>
      PROVE  DamageInv'
  <2>1. RowsInv'
    BY <1>1, RowsStep DEF DamageInv
  <2>2. CASE UNCHANGED vars
    <3>1. UNCHANGED <<area, vault, db, client, run, past, faults>>
      BY <2>2 DEF vars
    <3>2. LedgerState => LedgerState'
      BY <3>1, LedgerRests
    <3>3. LedgerToDo(run.calls) => (LedgerToDo(run.calls))'
      <4>1. PICK calls : calls = run.calls /\ calls = run'.calls
        BY <3>1
      <4>2. LedgerToDo(calls) => (LedgerToDo(calls))'
        <5>1. \A t : Work(t) => (Work(t))'
          BY <3>1 DEF Work, Noting, Making, Replacing
        <5>2. \A t : Begun(t) => (Begun(t))'
          BY <5>1 DEF Begun
        <5>3. Due(calls) => (Due(calls))'
          BY <5>2 DEF Due
        <5>4. (Saving(calls) => (Saving(calls))') /\ (Loading(calls) => (Loading(calls))')
          BY <3>1 DEF Saving, LastCopy, Loading
        <5>5. (CalmList(calls) <=> (CalmList(calls))') /\ (Spending(calls) <=> (Spending(calls))')
          BY <3>1 DEF CalmList, Spending
        <5>6. QED
          BY <5>1, <5>2, <5>3, <5>4, <5>5 DEF LedgerToDo
      <4>3. QED
        BY <4>1, <4>2
    <3>4. QED
      BY <1>1, <2>1, <3>1, <3>2, <3>3 DEF DamageInv, LedgerInv, FirstFailure
  <2>3. CASE CommandNext
    BY <1>1, <2>1, <2>3, DamageCommand
  <2>4. QED
    BY <1>1, <2>2, <2>3 DEF Next, vars
<1>2. QED
  BY <1>1, DamageStart, PTL DEF Spec

(***************************************************************************)
(* When the first write that fails leaves CA_Database unreadable, the      *)
(* newest local copy has all that the last good one had, and is not behind *)
(* it: store_ca_database makes the copy first, of a database in memory     *)
(* that is never behind the one saved.                                     *)
(***************************************************************************)
THEOREM DamageStaysRecoverable == Spec => []DamageRecoverable
<1>1. DamageInv => DamageRecoverable
  <2> SUFFICES ASSUME DamageInv, faults <= 1, vault.bad, vault.saved # {}
               PROVE  /\ vault.kept # <<>>
                      /\ vault.saved \ {Serial(NextSerial(vault.saved))} \subseteq LastCopy
                      /\ NextSerial(vault.saved) <= NextSerial(LastCopy)
    BY DEF DamageRecoverable, LastCopy
  <2>1. faults \in {0, 1}
    BY DEF DamageInv
  <2>2. FirstFailure /\ area = "ca"
    BY <2>1 DEF DamageInv, FirstFailure
  <2>3. LedgerState
    BY <2>2 DEF DamageInv, LedgerInv
  <2>4. vault.kept # <<>> /\ Ahead(LastCopy)
    BY <2>1, <2>3 DEF LedgerState
  <2>5. PICK m, k : /\ Ledger(vault.saved, m) /\ Ledger(LastCopy, k) /\ m <= k
                    /\ vault.saved \ {Serial(m)} \subseteq LastCopy
    BY <2>4 DEF Ahead
  <2>6. NextSerial(vault.saved) = m /\ NextSerial(LastCopy) = k
    BY <2>5, TheNext
  <2>7. QED
    BY <2>4, <2>5, <2>6
<1>2. QED
  BY <1>1, DamageAlways, PTL

-----------------------------------------------------------------------------
(* Backups and restores *)

CaTitles == {CaItem, DbItem, CrlItem} \cup {CrtItem(n) : n \in Name}
Restores == {"vault_restore", "vault restore"}

\* What is left of a restore when the first k titles are done.
Left(k) == [i \in 1..(Len(Ordered) - k) |-> PutBack(Ordered[k + i])]
PutsBack(s, k) ==
    /\ s = Left(k)
    /\ \A j \in 1..Len(Ordered) : vault.items[Ordered[j]] = IF j <= k /\ InFile(Ordered[j]) THEN 1 ELSE 0
    /\ \A t \in Title \ CaTitles : vault.items[t] = 0
    /\ vault.saved = IF k >= 2 THEN vault.file.rows ELSE {}

PuttingBack(s) == vault.file # NoFile /\ \E k \in 0..Len(Ordered) : PutsBack(s, k)

\* The titles of a backup are the CA's, and the rows those of its database.
Fit(f) == f.titles \subseteq CaTitles /\ (DbItem \notin f.titles => f.rows = {})
TakesOwn(s) == \E S : s \in Seq(S) /\ \A c \in S : c.do = "take" => c.of \in CaTitles

(***************************************************************************)
(* A vault without a CA is empty; a restore that had no error has put back *)
(* what it came to, and nothing else.                                      *)
(***************************************************************************)
RestoreState ==
    /\ vault.items[CaItem] = 0 => \A t \in Title : vault.items[t] = 0
    /\ Fit(vault.file) /\ Fit(vault.draft) /\ TakesOwn(run.calls)
RestoreRun ==
    run.cmd \in Restores /\ run.ok
        => run.calls = <<Refuse>> \/ PuttingBack(run.calls)
RestoreInv == RestoreState /\ RestoreRun

(***************************************************************************)
(* Each of the CA's titles has one place in the order.                     *)
(***************************************************************************)
LEMMA OrderedOnce ==
  /\ Len(Ordered) \in Nat /\ Len(Ordered) >= 3
  /\ \A i \in 1..Len(Ordered) : Ordered[i] \in CaTitles
  /\ \A t \in CaTitles : \E i \in 1..Len(Ordered) : Ordered[i] = t
  /\ \A i, j \in 1..Len(Ordered) : Ordered[i] = Ordered[j] => i = j
  /\ CaTitles \subseteq Title
<1>1. Len(Ordered) \in Nat /\ Len(Ordered) >= 3
  BY OrderedTitles, Names
<1>2. \A i \in 1..Len(Ordered) : \/ i = 1 /\ Ordered[i] = CaItem
                                 \/ i = 2 /\ Ordered[i] = DbItem
                                 \/ i = 3 /\ Ordered[i] = CrlItem
                                 \/ \E n \in Name : i = n + 3 /\ Ordered[i] = CrtItem(n)
  <2>1. ASSUME NEW i \in 1..Len(Ordered), i \notin {1, 2, 3} PROVE \E n \in Name : i = n + 3 /\ Ordered[i] = CrtItem(n)
    <3>1. i \in 4..Len(Ordered)
      BY <1>1, <2>1
    <3>2. i - 3 \in Name /\ (i - 3) + 3 = i
      BY <3>1, <1>1, OrderedTitles
    <3>3. QED
      BY <3>2, OrderedTitles
  <2>2. QED
    BY <2>1, OrderedTitles
<1>3. CaItem # DbItem /\ CaItem # CrlItem /\ DbItem # CrlItem /\ \A n : CrtItem(n) \notin {CaItem, DbItem, CrlItem}
  BY DEF CaItem, DbItem, CrlItem, CrtItem
<1>4. \A n, k : CrtItem(n) = CrtItem(k) => n = k
  BY DEF CrtItem
<1>5. \A i, j \in 1..Len(Ordered) : Ordered[i] = Ordered[j] => i = j
  BY <1>2, <1>3, <1>4
<1>6. \A i \in 1..Len(Ordered) : Ordered[i] \in CaTitles
  BY <1>2 DEF CaTitles
<1>7. ASSUME NEW t \in CaTitles PROVE \E i \in 1..Len(Ordered) : Ordered[i] = t
  <2>1. CASE t \in {CaItem, DbItem, CrlItem}
    <3>1. 1 \in 1..Len(Ordered) /\ 2 \in 1..Len(Ordered) /\ 3 \in 1..Len(Ordered)
      BY <1>1
    <3>2. QED
      BY <2>1, <3>1, OrderedTitles
  <2>2. CASE \E n \in Name : t = CrtItem(n)
    <3>1. PICK n \in Name : t = CrtItem(n)
      BY <2>2
    <3>2. n + 3 \in 1..Len(Ordered) /\ Ordered[n + 3] = t
      BY <1>1, <3>1, OrderedTitles
    <3>3. QED
      BY <3>2
  <2>3. QED
    BY <2>1, <2>2 DEF CaTitles
<1>8. CaTitles \subseteq Title
  BY Titles DEF CaTitles
<1>9. QED
  BY <1>1, <1>5, <1>6, <1>7, <1>8

(***************************************************************************)
(* A list of what a function gives, taken one by one.                      *)
(***************************************************************************)
LEMMA LeftLists ==
  ASSUME NEW k \in 0..Len(Ordered)
  PROVE  /\ IsList(Left(k)) /\ (Left(k) = <<>> <=> k = Len(Ordered))
         /\ k # Len(Ordered) => Head(Left(k)) = PutBack(Ordered[k + 1]) /\ Tail(Left(k)) = Left(k + 1)
<1>1. PICK n \in Nat : n = Len(Ordered) - k
  BY OrderedOnce
<1>2. PICK s : s = Left(k)
  OBVIOUS
<1>3. PICK S : S = {s[i] : i \in 1..n}
  OBVIOUS
<1>4. s \in [1..n -> S] /\ \A i \in 1..n : s[i] = PutBack(Ordered[k + i])
  BY <1>1, <1>2, <1>3 DEF Left
<1>5. s \in Seq(S) /\ Len(s) = n
  <2>1. s \in Seq(S)
    BY <1>4, SeqDef
  <2>2. QED
    BY <1>4, <2>1, LenProperties
<1>6. s = <<>> <=> k = Len(Ordered)
  BY <1>1, <1>5, EmptySeq, OrderedOnce
<1>7. ASSUME k # Len(Ordered) PROVE Head(s) = PutBack(Ordered[k + 1]) /\ Tail(s) = Left(k + 1)
  <2>1. s # <<>>
    BY <1>6, <1>7
  <2>2. Head(s) = s[1] /\ n >= 1
    BY <1>1, <1>5, <1>7, <2>1, OrderedOnce
  <2>3. PICK r : r = Tail(s)
    OBVIOUS
  <2>4. r \in Seq(S) /\ Len(r) = n - 1 /\ \A i \in 1..Len(r) : r[i] = s[i + 1]
    BY <1>5, <2>1, <2>3, HeadTailProperties
  <2>5. PICK u : u = Left(k + 1)
    OBVIOUS
  <2>6. Len(Ordered) - (k + 1) = n - 1
    BY <1>1, OrderedOnce
  <2>7. u = [i \in 1..(n - 1) |-> PutBack(Ordered[(k + 1) + i])]
    BY <2>5, <2>6 DEF Left
  <2>8. r \in [1..(n - 1) -> S]
    BY <2>4, LenProperties
  <2>9. ASSUME NEW i \in 1..(n - 1) PROVE r[i] = u[i]
    <3>1. i + 1 \in 1..n /\ k + (i + 1) = (k + 1) + i /\ i \in 1..Len(r)
      BY <1>1, <2>4, OrderedOnce
    <3>2. QED
      BY <1>4, <2>4, <2>7, <3>1
  <2>10. r = u
    BY <2>7, <2>8, <2>9
  <2>11. QED
    BY <1>1, <1>4, <2>2, <2>3, <2>5, <2>10
<1>8. QED
  BY <1>2, <1>5, <1>6, <1>7 DEF IsList

\* Nothing but the items, the database or the backups differ.
Others(v) == v.saved = vault.saved /\ v.file = vault.file /\ v.draft = vault.draft

\* What a call of the area makes of them.
Effects(c, v) ==
    /\ c.do = "create" => v.items = [vault.items EXCEPT ![c.of] = More(@)] /\ Others(v)
    /\ c.do = "put" => v.items = [vault.items EXCEPT ![c.of] = 1] /\ Others(v)
    /\ c.do = "put_crl" => v.items = [vault.items EXCEPT ![CrlItem] = 1] /\ Others(v)
    /\ c.do = "new_db" => /\ v.items = [vault.items EXCEPT ![DbItem] = 1]
                          /\ v.saved = c.of /\ v.file = vault.file /\ v.draft = vault.draft
    /\ c.do = "store" => /\ v.items = [vault.items EXCEPT ![DbItem] = 1]
                         /\ v.saved = Written(c) /\ v.file = vault.file /\ v.draft = vault.draft
    /\ c.do = "keep" => v.items = vault.items /\ Others(v)
    /\ c.do = "take" => /\ v.items = vault.items /\ v.saved = vault.saved
                        /\ v.file = vault.file /\ v.draft = Take(vault.draft, c.of)
    /\ c.do = "write_file" => /\ v.items = vault.items /\ v.saved = vault.saved
                              /\ v.file = vault.draft /\ v.draft = NoFile
    /\ c.do \in {"rows", "read", "refuse", "list_notes", "unreadable"} => v = vault

(***************************************************************************)
(* What each call of the area leaves of the items, the database and the    *)
(* backups.                                                                *)
(***************************************************************************)
LEMMA CallEffects ==
  ASSUME Formed, NEW c, NEW v, v = VaultAfter(c)
  PROVE  Effects(c, v)
<1>c. LET w == VaultAfter(c)
      IN  /\ c.do = "create" => w = [vault EXCEPT !.items[c.of] = More(@)]
          /\ c.do = "put" => w = [vault EXCEPT !.items[c.of] = 1]
          /\ c.do = "put_crl" => w = [vault EXCEPT !.items[<<"CRL", 0>>] = 1, !.crl = c.of]
          /\ c.do = "new_db" => w = Saved(c.of)
          /\ c.do = "store" => w = Saved(Written(c))
          /\ c.do = "keep" => w = [vault EXCEPT !.kept = Keep(@, db)]
          /\ c.do = "take" => w = [vault EXCEPT !.draft = Take(@, c.of)]
          /\ c.do = "write_file" => w = [vault EXCEPT !.file = vault.draft, !.draft = NoFile]
          /\ c.do \in {"rows", "read", "refuse", "list_notes", "unreadable"} => w = vault
  BY CallsDo
<1>f. vault = [f \in VaultFields |-> vault[f]]
  BY DEF Formed
<1> USE <1>f DEF VaultFields, Others
<1>s. \A d : /\ Saved(d).items = [vault.items EXCEPT ![DbItem] = 1] /\ Saved(d).saved = d
             /\ Saved(d).file = vault.file /\ Saved(d).draft = vault.draft
  BY DEF Saved
<1>1. c.do = "create" => v.items = [vault.items EXCEPT ![c.of] = More(@)] /\ Others(v)
  BY <1>c
<1>2. c.do = "put" => v.items = [vault.items EXCEPT ![c.of] = 1] /\ Others(v)
  BY <1>c
<1>3. c.do = "put_crl" => v.items = [vault.items EXCEPT ![CrlItem] = 1] /\ Others(v)
  BY <1>c DEF CrlItem
<1>4. c.do = "keep" => v.items = vault.items /\ Others(v)
  BY <1>c
<1>5. c.do = "take" => /\ v.items = vault.items /\ v.saved = vault.saved
                       /\ v.file = vault.file /\ v.draft = Take(vault.draft, c.of)
  <2>1. ASSUME c.do = "take" PROVE v = [vault EXCEPT !.draft = Take(@, c.of)]
    BY <1>c, <2>1
  <2>2. QED
    BY <2>1
<1>6. c.do = "write_file" => /\ v.items = vault.items /\ v.saved = vault.saved
                             /\ v.file = vault.draft /\ v.draft = NoFile
  <2>1. ASSUME c.do = "write_file" PROVE v = [vault EXCEPT !.file = vault.draft, !.draft = NoFile]
    BY <1>c, <2>1
  <2>2. QED
    BY <2>1
<1>n. /\ c.do \in {"new_db"} => v = Saved(c.of)
      /\ c.do = "store" => v = Saved(Written(c))
      /\ c.do \in {"rows", "read", "refuse", "list_notes", "unreadable"} => v = vault
  BY <1>c
<1>7. QED
  BY <1>n, <1>s, <1>1, <1>2, <1>3, <1>4, <1>5, <1>6 DEF Effects

(***************************************************************************)
(* One title more is put back.                                             *)
(***************************************************************************)
LEMMA PutBackStep ==
  ASSUME Formed, Counted, Fit(vault.file), NEW k \in 0..Len(Ordered), PutsBack(run.calls, k), run.calls # <<>>,
         NEW c, c = Head(run.calls), Done(c)
  PROVE  /\ k + 1 \in 1..Len(Ordered) /\ PutsBack(run.calls, k + 1)'
         /\ db' = db /\ vault'.file = vault.file
<1>1. k # Len(Ordered) /\ c = PutBack(Ordered[k + 1]) /\ run'.calls = Left(k + 1)
  BY LeftLists DEF PutsBack, Done
<1>2. k + 1 \in 1..Len(Ordered) /\ k \in Nat
  BY <1>1, OrderedOnce
<1>3. PICK t : t = Ordered[k + 1] /\ t \in CaTitles /\ t \in Title
  BY <1>2, OrderedOnce
<1>4. t = DbItem <=> k = 1
  BY <1>2, <1>3, OrderedTitles, OrderedOnce
<1>5. PICK v : v = vault' /\ v = VaultAfter(c)
  BY DEF Done
<1>e. Effects(c, v)
  BY <1>5, CallEffects
<1>6. /\ v.file = vault.file /\ db' = db
      /\ v.items = IF InFile(t) THEN [vault.items EXCEPT ![t] = 1] ELSE vault.items
      /\ v.saved = IF t = DbItem /\ InFile(t) THEN vault.file.rows ELSE vault.saved
  <2>z. vault.items[t] = 0 /\ t \in Title
    <3>1. ~(k + 1 <= k)
      BY <1>2
    <3>2. QED
      BY <1>2, <1>3, <3>1 DEF PutsBack
  <2>1. CASE ~InFile(t)
    <3>1. c = Rows({}, {})
      BY <1>1, <1>3, <2>1 DEF PutBack
    <3>2. c.do = "rows" /\ c.of.old = {} /\ c.of.new = {}
      BY <3>1 DEF Rows, Call
    <3>3. v = vault
      BY <1>e, <3>2 DEF Effects
    <3>4. db' = db
      BY <3>2 DEF Done, DbAfter, Written
    <3>5. QED
      BY <2>1, <3>3, <3>4
  <2>2. CASE InFile(t) /\ t = DbItem
    <3>1. c = Call("new_db", vault.file.rows)
      BY <1>1, <1>3, <2>2 DEF PutBack
    <3>2. c.do = "new_db" /\ c.of = vault.file.rows
      BY <3>1 DEF Call
    <3>3. v.items = [vault.items EXCEPT ![DbItem] = 1] /\ v.saved = vault.file.rows /\ v.file = vault.file
      BY <1>e, <3>2 DEF Effects
    <3>4. db' = db
      BY <3>2 DEF Done, DbAfter, Written
    <3>5. QED
      BY <2>2, <3>3, <3>4
  <2>3. CASE InFile(t) /\ t # DbItem
    <3>1. c = Create(t)
      BY <1>1, <1>3, <2>3 DEF PutBack
    <3>2. c.do = "create" /\ c.of = t
      BY <3>1 DEF Create, Call
    <3>3. v.items = [vault.items EXCEPT ![t] = More(@)] /\ Others(v)
      BY <1>e, <3>2 DEF Effects
    <3>4. db' = db
      BY <3>2 DEF Done, DbAfter, Written
    <3>5. More(0) = 1
      BY DEF More
    <3>6. [vault.items EXCEPT ![t] = More(@)] = [vault.items EXCEPT ![t] = 1]
      BY <2>z, <3>5 DEF Counted
    <3>7. QED
      BY <2>3, <3>3, <3>4, <3>6 DEF Others
  <2>4. QED
    BY <2>1, <2>2, <2>3
<1>7. \A j \in 1..Len(Ordered) : v.items[Ordered[j]] = IF j <= k + 1 /\ InFile(Ordered[j]) THEN 1 ELSE 0
  <2>1. ASSUME NEW j \in 1..Len(Ordered)
        PROVE  v.items[Ordered[j]] = IF j <= k + 1 /\ InFile(Ordered[j]) THEN 1 ELSE 0
    <3>1. vault.items[Ordered[j]] = IF j <= k /\ InFile(Ordered[j]) THEN 1 ELSE 0
      BY DEF PutsBack
    <3>2. Ordered[j] = t <=> j = k + 1
      BY <1>2, <1>3, OrderedOnce
    <3>3. v.items[Ordered[j]] = IF InFile(t) /\ Ordered[j] = t THEN 1 ELSE vault.items[Ordered[j]]
      BY <1>3, <1>6, OrderedOnce DEF Counted
    <3>4. j <= k + 1 <=> (j <= k \/ j = k + 1)
      BY <1>2
    <3>5. ~(k + 1 <= k)
      BY <1>2
    <3>6. QED
      BY <3>1, <3>2, <3>3, <3>4, <3>5
  <2>2. QED
    BY <2>1
<1>8. \A u \in Title \ CaTitles : v.items[u] = 0
  BY <1>3, <1>6 DEF PutsBack, Counted
<1>9. v.saved = IF k + 1 >= 2 THEN vault.file.rows ELSE {}
  <2>1. CASE k = 1
    <3>1. vault.saved = {} /\ t = DbItem
      BY <1>4, <2>1 DEF PutsBack
    <3>2. ~InFile(DbItem) => vault.file.rows = {}
      BY DEF Fit, InFile
    <3>3. v.saved = vault.file.rows
      BY <1>6, <3>1, <3>2
    <3>4. QED
      BY <2>1, <3>3
  <2>2. CASE k # 1
    <3>1. v.saved = vault.saved /\ (k >= 2 <=> k + 1 >= 2)
      BY <1>2, <1>4, <1>6, <2>2
    <3>2. QED
      BY <3>1 DEF PutsBack
  <2>3. QED
    BY <2>1, <2>2
<1>10. QED
  BY <1>1, <1>2, <1>5, <1>6, <1>7, <1>8, <1>9 DEF PutsBack, InFile, Left, PutBack

(***************************************************************************)
(* The lists that the CA's commands start with take the CA's own titles.   *)
(***************************************************************************)
LEMMA TakenLists ==
  ASSUME area = "ca", OwnState
  PROVE  /\ \A s : OwnCalls(s) => TakesOwn(s)
         /\ TakesOwn(<<>>) /\ TakesOwn(BackupCalls)
         /\ vault.items[CaItem] # 0 => RestoreCalls = <<Refuse>>
         /\ vault.items[CaItem] = 0 => RestoreCalls = Left(0)
         /\ TakesOwn(RestoreCalls)
<1>1. \A s : OwnCalls(s) => TakesOwn(s)
  BY DEF OwnCalls, OwnCall, TakesOwn
<1>2. TakesOwn(<<>>)
  <2>1. PICK S : S = {}
    OBVIOUS
  <2>2. <<>> \in Seq(S) /\ \A c \in S : c.do = "take" => c.of \in CaTitles
    BY <2>1
  <2>3. QED
    BY <2>2 DEF TakesOwn
<1>3. TakesOwn(BackupCalls)
  <2>1. PICK taken : taken = [i \in 2..Len(Ordered) |-> Silently(Call("take", Ordered[i]))]
    OBVIOUS
  <2>2. PICK a, b, e : a = <<Call("take", CaItem), taken[2], taken[3], Call("list_notes", 0)>>
                       /\ b = [n \in 1..Cardinality(Name) |-> taken[n + 3]] /\ e = <<Call("write_file", 0)>>
    OBVIOUS
  <2>3. BackupCalls = (a \o b) \o e
    BY <2>1, <2>2 DEF BackupCalls
  <2>4. PICK S : S = {Call("take", CaItem), Call("list_notes", 0), Call("write_file", 0)} \cup {taken[i] : i \in 2..Len(Ordered)}
    OBVIOUS
  <2>5. \A i \in 2..Len(Ordered) : taken[i].of \in CaTitles
    <3>1. \A i \in 2..Len(Ordered) : i \in 1..Len(Ordered)
      BY OrderedOnce
    <3>2. \A i \in 2..Len(Ordered) : taken[i].of = Ordered[i]
      BY <2>1 DEF Silently, Call
    <3>3. QED
      BY <3>1, <3>2, OrderedOnce
  <2>6. \A x \in S : x.do = "take" => x.of \in CaTitles
    <3>1. CaItem \in CaTitles
      BY DEF CaTitles
    <3>2. QED
      BY <2>4, <2>5, <3>1 DEF Call
  <2>7. 2 \in 2..Len(Ordered) /\ 3 \in 2..Len(Ordered) /\ \A n \in 1..Cardinality(Name) : n + 3 \in 2..Len(Ordered)
    BY OrderedTitles, Names
  <2>8. a \in Seq(S) /\ e \in Seq(S)
    BY <2>2, <2>4, <2>7
  <2>9. b \in Seq(S)
    <3>1. b \in [1..Cardinality(Name) -> S]
      BY <2>2, <2>4, <2>7
    <3>2. QED
      BY <3>1, Names, SeqDef
  <2>10. (a \o b) \o e \in Seq(S)
    BY <2>8, <2>9, ConcatProperties
  <2>11. QED
    BY <2>3, <2>6, <2>10 DEF TakesOwn
<1>4. vault.items[CaItem] # 0 => RestoreCalls = <<Refuse>>
  BY DEF RestoreCalls
<1>5. ASSUME vault.items[CaItem] = 0 PROVE RestoreCalls = Left(0)
  <2>1. PICK n : n = Len(Ordered)
    OBVIOUS
  <2>2. n \in Nat /\ n - 0 = n
    BY <2>1, OrderedOnce
  <2>3. \A i \in 1..n : 0 + i = i
    BY <2>2
  <2>4. QED
    BY <1>5, <2>1, <2>2, <2>3 DEF RestoreCalls, Left
<1>6. TakesOwn(RestoreCalls)
  <2>1. CASE vault.items[CaItem] # 0
    <3>1. OwnCalls(FirstCalls(1)) /\ FirstCalls(1) = <<Refuse>>
      BY <2>1, CaLists DEF FirstCalls
    <3>2. QED
      BY <1>1, <1>4, <2>1, <3>1
  <2>2. CASE vault.items[CaItem] = 0
    <3>1. PICK s : s = RestoreCalls
      OBVIOUS
    <3>2. PICK S : S = {s[i] : i \in 1..Len(Ordered)}
      OBVIOUS
    <3>3. s = [i \in 1..Len(Ordered) |-> PutBack(Ordered[i])]
      BY <2>2, <3>1 DEF RestoreCalls
    <3>4. s \in [1..Len(Ordered) -> S]
      BY <3>2, <3>3
    <3>5. s \in Seq(S)
      BY <3>4, OrderedOnce, SeqDef
    <3>6. \A t : PutBack(t).do # "take"
      BY DEF PutBack, InFile, Rows, Create, Call
    <3>7. \A c \in S : c.do # "take"
      BY <3>2, <3>3, <3>6
    <3>8. QED
      BY <3>1, <3>5, <3>7 DEF TakesOwn
  <2>3. QED
    BY <2>1, <2>2
<1>7. QED
  BY <1>1, <1>2, <1>3, <1>4, <1>5, <1>6

(***************************************************************************)
(* What the calls of the area do to the items.                             *)
(***************************************************************************)
LEMMA ItemsChange ==
  ASSUME Formed, NEW c, c.do \notin {"archive", "archive_if_there"}, NEW v, v = VaultAfter(c)
  PROVE  \/ v.items = vault.items
         \/ c.do = "create" /\ v.items = [vault.items EXCEPT ![c.of] = More(@)]
         \/ c.do = "put" /\ v.items = [vault.items EXCEPT ![c.of] = 1]
         \/ v.items = [vault.items EXCEPT ![DbItem] = 1]
         \/ v.items = [vault.items EXCEPT ![CrlItem] = 1]
<1>1. \/ v.items = vault.items
      \/ c.do = "create" /\ v.items = [vault.items EXCEPT ![c.of] = More(@)]
      \/ c.do = "put" /\ v.items = [vault.items EXCEPT ![c.of] = 1]
      \/ c.do \in {"archive", "archive_if_there"} /\ v.items = [vault.items EXCEPT ![c.of] = 0]
      \/ c.do \in {"store", "new_db", "replace_db"} /\ v.items = [vault.items EXCEPT ![DbItem] = 1]
      \/ c.do = "put_crl" /\ v.items = [vault.items EXCEPT ![CrlItem] = 1]
  BY ZenonT(60), PartsChanged
<1>2. QED
  BY <1>1

(***************************************************************************)
(* And to the backups.                                                     *)
(***************************************************************************)
LEMMA DraftsChange ==
  ASSUME Formed, NEW c, NEW v, v = VaultAfter(c)
  PROVE  /\ v.draft = vault.draft \/ (c.do = "take" /\ v.draft = Take(vault.draft, c.of)) \/ v.draft = NoFile
         /\ v.file = vault.file \/ (c.do = "write_file" /\ v.file = vault.draft)
<1>1. \/ v.draft = vault.draft
      \/ c.do = "take" /\ v.draft = Take(vault.draft, c.of)
      \/ c.do = "write_file" /\ v.draft = NoFile
  BY ZenonT(60), PartsChanged
<1>2. v.file = vault.file \/ (c.do = "write_file" /\ v.file = vault.draft)
  BY PartsChanged
<1>3. QED
  BY <1>1, <1>2

(***************************************************************************)
(* A vault in which the CA's item is missing after a call was like that    *)
(* before it, and no item has come to it.                                  *)
(***************************************************************************)
LEMMA EmptyBefore ==
  ASSUME Formed, OwnState, CaFirst, area = "ca", run.calls # <<>>, NEW c, c = Head(run.calls), MayCall(c),
         Done(c) \/ Lost(c), vault'.items[CaItem] = 0
  PROVE  vault.items[CaItem] = 0 /\ vault'.items = vault.items
<1>t. vault.items \in [Title -> 0..2] /\ CaItem \in Title /\ CaItem # CrlItem /\ CaItem # DbItem
  BY Titles DEF OwnState, Counted, CaItem, CrlItem, DbItem
<1>1. c.do \notin {"archive", "archive_if_there"}
  BY DEF MayCall, OwnCall
<1>2. vault' = vault \/ vault' = VaultAfter(c) \/ vault' = Damaged
  BY DEF Done, Lost
<1>3. CASE vault' = vault
  BY <1>3
<1>4. CASE vault' = Damaged
  <2>1. vault'.items = [vault.items EXCEPT ![DbItem] = 1]
    BY <1>4 DEF Damaged, Formed, VaultFields
  <2>2. vault.items[CaItem] = 0
    BY <1>t, <2>1
  <2>3. c \in {Create(CaItem), Read(CaItem), Call("take", CaItem), Refuse}
    BY <2>2 DEF CaFirst
  <2>4. c.do \notin {"store", "new_db", "replace_db"}
    BY <2>3 DEF Create, Read, Call, Refuse
  <2>5. vault' = vault \/ vault' = VaultAfter(c)
    BY <2>4 DEF Done, Lost
  <2>6. VaultAfter(c) = Damaged => vault.items = vault'.items
    <3>1. ASSUME VaultAfter(c) = Damaged PROVE vault.items = vault'.items
      <4>1. PICK v : v = VaultAfter(c) /\ v = vault'
        BY <1>4, <3>1
      <4>2. Effects(c, v)
        BY <4>1, CallEffects
      <4>3. CASE c = Create(CaItem)
        <5>1. c.do = "create" /\ c.of = CaItem
          BY <4>3 DEF Create, Call
        <5>2. v.items[CaItem] = More(0)
          BY <1>t, <2>2, <4>2, <5>1 DEF Effects
        <5>3. QED
          BY <4>1, <5>2 DEF More
      <4>4. CASE c # Create(CaItem)
        <5>1. c.do \in {"read", "take", "refuse"}
          BY <2>3, <4>4 DEF Read, Call, Refuse
        <5>2. QED
          BY <4>1, <4>2, <5>1 DEF Effects
      <4>5. QED
        BY <4>3, <4>4
    <3>2. QED
      BY <3>1
  <2>7. QED
    BY <1>4, <2>2, <2>5, <2>6
<1>5. CASE vault' = VaultAfter(c)
  <2>1. PICK v : v = VaultAfter(c) /\ v = vault'
    BY <1>5
  <2>2. Effects(c, v)
    BY <2>1, CallEffects
  <2>3. \/ v.items = vault.items
        \/ c.do = "create" /\ v.items = [vault.items EXCEPT ![c.of] = More(@)]
        \/ c.do = "put" /\ v.items = [vault.items EXCEPT ![c.of] = 1]
        \/ v.items = [vault.items EXCEPT ![DbItem] = 1]
        \/ v.items = [vault.items EXCEPT ![CrlItem] = 1]
    <3>1. v = VaultAfter(c)
      BY <2>1
    <3>2. QED
      BY <1>1, <3>1, ItemsChange
  <2>4. vault.items[CaItem] = 0
    <3>1. More(vault.items[CaItem]) # 0
      BY <1>t DEF More
    <3>2. ASSUME v.items = [vault.items EXCEPT ![c.of] = More(@)] PROVE vault.items[CaItem] = 0
      <4>1. CASE c.of = CaItem
        BY <1>t, <2>1, <3>1, <3>2, <4>1
      <4>2. CASE c.of # CaItem
        BY <1>t, <2>1, <3>2, <4>2
      <4>3. QED
        BY <4>1, <4>2
    <3>3. ASSUME NEW t, v.items = [vault.items EXCEPT ![t] = 1] PROVE vault.items[CaItem] = 0
      <4>1. CASE t = CaItem
        BY <1>t, <2>1, <3>3, <4>1
      <4>2. CASE t # CaItem
        BY <1>t, <2>1, <3>3, <4>2
      <4>3. QED
        BY <4>1, <4>2
    <3>4. QED
      BY <2>1, <2>3, <3>2, <3>3
  <2>5. c \in {Create(CaItem), Read(CaItem), Call("take", CaItem), Refuse}
    BY <2>4 DEF CaFirst
  <2>6. CASE c = Create(CaItem)
    <3>1. c.do = "create" /\ c.of = CaItem
      BY <2>6 DEF Create, Call
    <3>2. v.items = [vault.items EXCEPT ![CaItem] = More(@)]
      BY <2>2, <3>1 DEF Effects
    <3>3. v.items[CaItem] = More(0)
      BY <1>t, <2>4, <3>2
    <3>4. QED
      BY <2>1, <3>3 DEF More
  <2>7. CASE c # Create(CaItem)
    <3>1. c.do \in {"read", "take", "refuse"}
      BY <2>5, <2>7 DEF Read, Call, Refuse
    <3>2. v.items = vault.items
      BY <2>2, <3>1 DEF Effects
    <3>3. QED
      BY <2>1, <2>4, <3>2
  <2>8. QED
    BY <2>6, <2>7
<1>6. QED
  BY <1>2, <1>3, <1>4, <1>5

(***************************************************************************)
(* Every call of the CA's commands, whether or not it fails.               *)
(***************************************************************************)
LEMMA RestoreCall ==
  ASSUME OwnInv, CaFirst, RestoreInv, area = "ca", Succeeds \/ Refused \/ Fails
  PROVE  RestoreInv'
<1>1. Formed /\ OwnState /\ MayCalls(run.calls) /\ Counted
  BY DEF OwnInv, OwnState
<1>2. PICK c : /\ run.calls # <<>> /\ client # "none" /\ run'.cmd = run.cmd
               /\ c = Head(run.calls) /\ (Done(c) \/ Lost(c))
  BY <1>1, CallSteps
<1>3. MayCall(c)
  BY <1>1, <1>2, OwnTail
<1>4. vault'.items[CaItem] = 0 => \A t \in Title : vault'.items[t] = 0
  BY <1>1, <1>2, <1>3, EmptyBefore DEF RestoreInv, RestoreState
<1>5. c.do = "take" => c.of \in CaTitles
  <2>1. PICK S : run.calls \in Seq(S) /\ \A e \in S : e.do = "take" => e.of \in CaTitles
    BY DEF RestoreInv, RestoreState, TakesOwn
  <2>2. Head(run.calls) \in S
    BY <1>2, <2>1, HeadTailProperties
  <2>3. QED
    BY <1>2, <2>1, <2>2
<1>6. TakesOwn(run'.calls)
  <2>1. run'.calls = Tail(run.calls) \/ run'.calls = <<>>
    BY <1>2 DEF Done, Lost
  <2>2. TakesOwn(<<>>)
    BY <1>1, TakenLists
  <2>3. TakesOwn(Tail(run.calls))
    <3>1. PICK S : run.calls \in Seq(S) /\ \A e \in S : e.do = "take" => e.of \in CaTitles
      BY DEF RestoreInv, RestoreState, TakesOwn
    <3>2. Tail(run.calls) \in Seq(S)
      BY <1>2, <3>1, HeadTailProperties
    <3>3. QED
      BY <3>1, <3>2 DEF TakesOwn
  <2>4. QED
    BY <2>1, <2>2, <2>3
<1>7. Fit(vault'.file) /\ Fit(vault'.draft)
  <2>1. Fit(vault.file) /\ Fit(vault.draft)
    BY DEF RestoreInv, RestoreState
  <2>2. Fit(NoFile)
    BY DEF Fit, NoFile
  <2>3. c.do = "take" => Fit(Take(vault.draft, c.of))
    <3>1. ASSUME NEW t \in CaTitles PROVE Fit(Take(vault.draft, t))
      <4>1. CaItem # DbItem /\ DbItem \in CaTitles
        BY DEF CaItem, DbItem, CaTitles
      <4>2. PICK f : f = Take(vault.draft, t)
        OBVIOUS
      <4>3. /\ f.titles = (IF t = CaItem THEN {} ELSE vault.draft.titles) \cup {t}
            /\ t = CaItem => f.rows = {}
            /\ t # CaItem /\ t # DbItem => f.rows = vault.draft.rows
        BY <4>1, <4>2 DEF Take
      <4>4. f.titles \subseteq CaTitles
        BY <2>1, <4>3 DEF Fit
      <4>5. DbItem \notin f.titles => f.rows = {}
        BY <2>1, <4>1, <4>3 DEF Fit
      <4>6. QED
        BY <4>2, <4>4, <4>5 DEF Fit
    <3>2. QED
      BY <1>5, <3>1
  <2>4. CASE vault' = VaultAfter(c)
    <3>1. PICK v : v = vault' /\ v = VaultAfter(c)
      BY <2>4
    <3>2. /\ v.draft = vault.draft \/ (c.do = "take" /\ v.draft = Take(vault.draft, c.of)) \/ v.draft = NoFile
          /\ v.file = vault.file \/ v.file = vault.draft
      BY <1>1, <3>1, DraftsChange
    <3>3. QED
      BY <2>1, <2>2, <2>3, <3>1, <3>2
  <2>5. CASE vault' = vault
    BY <2>1, <2>5
  <2>6. CASE vault' = Damaged
    <3>1. vault'.file = vault.file /\ vault'.draft = vault.draft
      BY <1>1, <2>6 DEF Damaged, Formed, VaultFields
    <3>2. QED
      BY <2>1, <3>1
  <2>7. QED
    BY <1>2, <2>4, <2>5, <2>6 DEF Done, Lost
<1>8. RestoreRun'
  <2> SUFFICES ASSUME run'.cmd \in Restores, run'.ok
               PROVE  (run.calls = <<Refuse>> \/ PuttingBack(run.calls))'
    BY DEF RestoreRun
  <2>1. run.cmd \in Restores
    BY <1>2
  <2>2. run.ok /\ (Lost(c) => c.on = "ignore")
    BY <1>2 DEF Done, Lost
  <2>3. run.calls = <<Refuse>> \/ PuttingBack(run.calls)
    BY <2>1, <2>2 DEF RestoreInv, RestoreRun
  <2>4. CASE run.calls = <<Refuse>>
    <3>1. c = Refuse
      BY <1>2, <2>4, Firsts
    <3>2. c.on = "stop" /\ c.do = "refuse"
      BY <3>1 DEF Refuse, Call
    <3>3. ~Possible(c)
      BY <3>2 DEF Possible
    <3>4. QED
      BY <1>2, <2>2, <3>2, <3>3 DEF Done
  <2>5. ASSUME NEW k \in 0..Len(Ordered), PutsBack(run.calls, k), vault.file # NoFile
        PROVE  PuttingBack(run.calls)'
    <3>1. k # Len(Ordered) /\ c = PutBack(Ordered[k + 1])
      BY <1>2, <2>5, LeftLists DEF PutsBack
    <3>2. \A t : PutBack(t).on = "stop"
      BY DEF PutBack, InFile, Rows, Create, Call
    <3>3. Done(c)
      BY <1>2, <2>2, <3>1, <3>2
    <3>4. k + 1 \in 1..Len(Ordered) /\ PutsBack(run.calls, k + 1)' /\ vault'.file = vault.file
      BY <1>1, <1>2, <2>5, <3>3, PutBackStep DEF RestoreInv, RestoreState
    <3>5. PICK j : j = k + 1
      OBVIOUS
    <3>6. j \in 0..Len(Ordered) /\ PutsBack(run.calls, j)'
      BY <3>4, <3>5, OrderedOnce
    <3>7. QED
      BY <2>5, <3>4, <3>6 DEF PuttingBack, Ordered
  <2>6. QED
    BY <2>3, <2>4, <2>5 DEF PuttingBack
<1>9. QED
  BY <1>4, <1>6, <1>7, <1>8 DEF RestoreInv, RestoreState, Fit, TakesOwn

(***************************************************************************)
(* A command that starts finds the vault as it was, a restore that is not  *)
(* refused an empty one.                                                   *)
(***************************************************************************)
LEMMA RestoreOpens ==
  ASSUME Formed, OwnState, CaFirst, RestoreState, area = "ca", NEW cmd, NEW calls,
         InApp(cmd, calls) \/ InCli(cmd, calls, <<>>), TakesOwn(calls),
         cmd \in Restores => calls = RestoreCalls /\ vault.file # NoFile
  PROVE  RestoreInv'
<1>1. /\ vault' = vault /\ run'.calls = calls /\ run'.cmd = cmd
  BY AppStarts, CliStarts DEF Starts
<1>2. RestoreState'
  BY <1>1 DEF RestoreState, Fit, TakesOwn
<1>3. RestoreRun'
  <2> SUFFICES ASSUME cmd \in Restores, vault.file # NoFile
               PROVE  (run.calls = <<Refuse>> \/ PuttingBack(run.calls))'
    BY <1>1 DEF RestoreRun
  <2>1. CASE vault.items[CaItem] # 0
    BY <1>1, <2>1, TakenLists
  <2>2. CASE vault.items[CaItem] = 0
    <3>1. calls = Left(0)
      BY <2>2, TakenLists
    <3>2. /\ \A j \in 1..Len(Ordered) : vault.items[Ordered[j]] = 0
          /\ \A t \in Title \ CaTitles : vault.items[t] = 0
          /\ vault.saved = {}
      BY <2>2, OrderedOnce DEF RestoreState, CaFirst
    <3>3. \A j \in 1..Len(Ordered) : ~(j <= 0)
      BY OrderedOnce
    <3>4. PutsBack(calls, 0)
      BY <3>1, <3>2, <3>3 DEF PutsBack
    <3>5. (PutsBack(run.calls, 0))'
      BY <1>1, <3>4 DEF PutsBack, Left, InFile, PutBack
    <3>6. 0 \in 0..Len(Ordered)
      BY OrderedOnce
    <3>7. vault'.file # NoFile
      BY <1>1
    <3>8. QED
      BY <3>5, <3>6, <3>7 DEF PuttingBack, Ordered
  <2>3. QED
    BY <2>1, <2>2
<1>4. QED
  BY <1>2, <1>3 DEF RestoreInv

(***************************************************************************)
(* Every command of the CA that starts, and what happens without a client. *)
(***************************************************************************)
LEMMA RestoreMove ==
  ASSUME OwnInv, CaFirst, RestoreInv, area = "ca", CaNext
  PROVE  RestoreInv'
<1>1. Formed /\ OwnState /\ RestoreState /\ Counted
  BY DEF OwnInv, OwnState, RestoreInv
<1>l. /\ \A s : OwnCalls(s) => TakesOwn(s)
      /\ TakesOwn(<<>>) /\ TakesOwn(BackupCalls) /\ TakesOwn(RestoreCalls)
  BY <1>1, TakenLists
<1>o. /\ \A next : TakesOwn(FirstCalls(next)) /\ TakesOwn(RebuildCalls(next))
      /\ \A d : TakesOwn(SignCalls(d)) /\ \A calls \in ConfigCalls : TakesOwn(calls)
      /\ TakesOwn(ResignCalls) /\ TakesOwn(<<Call("put_crl", {})>> \o Stored({}, {}))
      /\ \A copy : Tagged(copy, Tags) => TakesOwn(<<Read(CaItem), Call("unreadable", 0), Call("replace_db", copy),
                                                    Rows({}, copy)>>)
  BY <1>1, <1>l, CaLists
<1>s. ASSUME NEW cmd, NEW calls, InApp(cmd, calls) \/ InCli(cmd, calls, <<>>), TakesOwn(calls),
             cmd \in Restores => calls = RestoreCalls /\ vault.file # NoFile
      PROVE  RestoreInv'
  BY <1>1, <1>s, RestoreOpens
<1>i. Idle.cmd \notin Restores
  BY DEF Idle, Restores
<1>2. ASSUME InitCa \/ CliInit \/ \E next \in ImportSerial : CliImport(next) PROVE RestoreInv'
  <2>1. ASSUME NEW next, NEW cmd \in {"init_ca", "ca init", "ca import"},
               InApp(cmd, FirstCalls(next)) \/ InCli(cmd, FirstCalls(next), <<>>)
        PROVE  RestoreInv'
    BY <1>o, <1>s, <2>1 DEF Restores
  <2>2. InitCa => InApp("init_ca", FirstCalls(CaSerial + 1))
    BY DEF InitCa
  <2>3. CliInit => InCli("ca init", FirstCalls(CaSerial + 1), <<>>)
    BY DEF CliInit
  <2>4. \A next : CliImport(next) => InCli("ca import", FirstCalls(next), <<>>)
    BY DEF CliImport
  <2>5. QED
    BY <1>2, <2>1, <2>2, <2>3, <2>4
<1>3. ASSUME Sign \/ CliSign PROVE RestoreInv'
  <2>1. ASSUME NEW d, NEW cmd \in {"create_cert", "cert create"},
               InApp(cmd, SignCalls(d)) \/ InCli(cmd, SignCalls(d), <<>>)
        PROVE  RestoreInv'
    BY <1>o, <1>s, <2>1 DEF Restores
  <2>2. Sign => InApp("create_cert", SignCalls(db))
    BY DEF Sign
  <2>3. CliSign => InCli("cert create", SignCalls(Retrieved), <<>>)
    BY DEF CliSign
  <2>4. QED
    BY <1>3, <2>1, <2>2, <2>3
<1>4. ASSUME UpdateConfig \/ CliConfigSet PROVE RestoreInv'
  <2>1. PICK calls \in ConfigCalls, cmd \in {"update_ca_config", "config-set"} :
          InApp(cmd, calls) \/ InCli(cmd, calls, <<>>)
    BY <1>4 DEF UpdateConfig, CliConfigSet
  <2>2. QED
    BY <1>o, <1>s, <2>1 DEF Restores
<1>5. ASSUME ResignCa \/ CliResign \/ MakeCrl PROVE RestoreInv'
  <2>1. PICK calls : calls = ResignCalls
    OBVIOUS
  <2>2. PICK crl : crl = <<Call("put_crl", {})>> \o Stored({}, {})
    OBVIOUS
  <2>3. \/ InApp("resign_ca", calls) \/ InCli("ca resign", calls, <<>>) \/ InApp("generate_crl", crl)
    BY <1>5, <2>1, <2>2 DEF ResignCa, CliResign, MakeCrl
  <2>4. TakesOwn(calls) /\ TakesOwn(crl)
    BY <1>o, <2>1, <2>2
  <2>5. QED
    BY <1>s, <2>3, <2>4 DEF Restores
<1>6. ASSUME BackUpVault \/ CliBackUpVault PROVE RestoreInv'
  <2>1. InApp("vault_backup", BackupCalls) \/ InCli("vault backup", BackupCalls, <<>>)
    BY <1>6 DEF BackUpVault, CliBackUpVault
  <2>2. QED
    BY <1>l, <1>s, <2>1 DEF Restores
<1>7. ASSUME RestoreVault \/ CliRestoreVault PROVE RestoreInv'
  <2>1. vault.file # NoFile
        /\ (InApp("vault_restore", RestoreCalls) \/ InCli("vault restore", RestoreCalls, <<>>))
    BY <1>7 DEF RestoreVault, CliRestoreVault
  <2>2. QED
    BY <1>l, <1>s, <2>1
<1>8. ASSUME NEW given, CliRebuild(given) PROVE RestoreInv'
  BY <1>8, <1>o, <1>s DEF CliRebuild, Restores
<1>9. ASSUME NEW i \in 1..Len(vault.kept), RestoreLocalBackup(vault.kept[i]) PROVE RestoreInv'
  <2>1. PICK copy : copy = vault.kept[i]
    OBVIOUS
  <2>2. Tagged(copy, Tags)
    <3>1. PICK S : vault.kept \in Seq(S) /\ \A d \in S : Tagged(d, Tags)
      BY <1>1 DEF OwnState, OwnCopies
    <3>2. vault.kept[i] \in S
      BY <1>9, <3>1, ElementOfSeq
    <3>3. QED
      BY <2>1, <3>1, <3>2
  <2>3. PICK calls : calls = <<Read(CaItem), Call("unreadable", 0), Call("replace_db", copy), Rows({}, copy)>>
    OBVIOUS
  <2>4. TakesOwn(calls) /\ InApp("restore_local_backup", calls)
    BY <1>9, <1>o, <2>1, <2>2, <2>3 DEF RestoreLocalBackup
  <2>5. QED
    BY <1>s, <2>4 DEF Restores
<1>10. ASSUME LoadCa PROVE RestoreInv'
  <2>1. vault' = vault /\ run' = run /\ run.cmd \notin Restores
    BY <1>10, <1>i DEF LoadCa
  <2>2. QED
    BY <1>1, <2>1 DEF RestoreInv, RestoreState, RestoreRun, Fit, TakesOwn
<1>11. ASSUME DatabaseRemoved PROVE RestoreInv'
  <2>1. /\ client = "none" /\ run' = run
        /\ vault' = [vault EXCEPT !.items[DbItem] = 0, !.saved = {}, !.bad = FALSE]
    BY <1>11 DEF DatabaseRemoved
  <2>2. run.cmd \notin Restores
    BY <1>1, <1>i, <2>1 DEF Formed
  <2>3. vault'.items = [vault.items EXCEPT ![DbItem] = 0] /\ vault'.file = vault.file /\ vault'.draft = vault.draft
    BY <1>1, <2>1 DEF Formed, VaultFields
  <2>4. CaItem # DbItem
    BY DEF CaItem, DbItem
  <2>5. vault'.items[CaItem] = 0 => \A t \in Title : vault'.items[t] = 0
    BY <1>1, <2>3, <2>4, Titles DEF Counted, RestoreState
  <2>6. QED
    BY <1>1, <2>1, <2>2, <2>3, <2>5 DEF RestoreInv, RestoreState, RestoreRun, Fit, TakesOwn
<1>12. ASSUME CreateVault PROVE RestoreInv'
  <2>1. client = "none" /\ run' = run /\ vault' = [Empty EXCEPT !.file = vault.file]
    BY <1>12 DEF CreateVault
  <2>2. run.cmd \notin Restores
    BY <1>1, <1>i, <2>1 DEF Formed
  <2>3. vault'.items = [t \in Title |-> 0] /\ vault'.file = vault.file /\ vault'.draft = NoFile
    BY <2>1 DEF Empty
  <2>4. Fit(NoFile)
    BY DEF Fit, NoFile
  <2>5. QED
    BY <1>1, <2>1, <2>2, <2>3, <2>4 DEF RestoreInv, RestoreState, RestoreRun, Fit, TakesOwn
<1>13. QED
  BY <1>2, <1>3, <1>4, <1>5, <1>6, <1>7, <1>8, <1>9, <1>10, <1>11, <1>12 DEF CaNext

(***************************************************************************)
(* Nothing is put back between the calls.                                  *)
(***************************************************************************)
LEMMA RestoreRests ==
  ASSUME OwnInv, RestoreInv, area = "ca", Rests
  PROVE  RestoreInv'
<1>1. Formed /\ OwnState
  BY DEF OwnInv
<1>2. vault' = vault /\ run' = Idle
  BY <1>1, RestSteps
<1>3. run'.calls = <<>> /\ run'.cmd \notin Restores
  BY <1>2 DEF Idle, Restores
<1>4. TakesOwn(<<>>)
  BY <1>1, TakenLists
<1>5. TakesOwn(run'.calls)
  BY <1>3, <1>4
<1>6. QED
  BY <1>2, <1>3, <1>5 DEF RestoreInv, RestoreState, RestoreRun, Fit, TakesOwn

(***************************************************************************)
(* Backups are restored by the CA's commands only.                         *)
(***************************************************************************)
LEMMA NoRestores ==
  ASSUME CommandNext, Formed, area # "ca", run.cmd \notin Restores
  PROVE  run'.cmd \notin Restores
<1>n. /\ \A cmd, calls : InApp(cmd, calls) => run'.cmd = cmd
      /\ \A cmd, calls, todo : InCli(cmd, calls, todo) => run'.cmd = cmd
      /\ \A cmd, todo : BulkInApp(cmd, todo) => run'.cmd = cmd
  BY DEF InApp, InCli, BulkInApp, Started, Idle
<1>k. ASSUME \E calls : NextItem(calls) PROVE run'.cmd \notin Restores
  BY <1>k DEF NextItem, Formed, RunFields
<1>1. CASE CsrNext
  <2>1. ASSUME NEW c \in Name, CreateCsr(c) \/ GenerateCsrFromCert(c) \/ ImportCsrCert(c) \/ ImportCert(c)
        PROVE  run'.cmd \notin Restores
    BY <2>1, <1>n DEF CreateCsr, GenerateCsrFromCert, ImportCsrCert, ImportCert, Restores
  <2>2. ASSUME NEW c \in Name, CliCreateCsr(c) \/ CliDeleteCsr(c) \/ CliImportCsrCert(c) \/ CliImportCert(c)
        PROVE  run'.cmd \notin Restores
    BY <2>2, <1>n DEF CliCreateCsr, CliDeleteCsr, CliImportCsrCert, CliImportCert, Restores
  <2>3. ASSUME NEW r \in CsrRows(db), DeleteCsr(r) PROVE run'.cmd \notin Restores
    BY <2>3, <1>n DEF DeleteCsr, Restores
  <2>4. QED
    BY <1>1, <2>1, <2>2, <2>3 DEF CsrNext
<1>2. CASE DkimNext
  <2>1. ASSUME NEW c \in Name, CreateDkimKey(c) \/ DeleteDkimKey(c) \/ BackfillDkim(c) PROVE run'.cmd \notin Restores
    BY <2>1, <1>n DEF CreateDkimKey, DeleteDkimKey, BackfillDkim, Restores
  <2>2. ASSUME NEW c \in Name, CliCreateDkim(c) PROVE run'.cmd \notin Restores
    BY <2>2, <1>n DEF CliCreateDkim, Restores
  <2>3. ASSUME SyncDkimKeys \/ ListDkimKeys PROVE run'.cmd \notin Restores
    BY <2>3, <1>n DEF SyncDkimKeys, ListDkimKeys, Restores
  <2>4. ASSUME NEW c \in Name, DeletedElsewhere(c) PROVE run'.cmd \notin Restores
    BY <2>4 DEF DeletedElsewhere
  <2>5. QED
    BY <1>2, <2>1, <2>2, <2>3, <2>4 DEF DkimNext
<1>3. CASE OpenVpnNext
  <2>1. ASSUME ListTemplates \/ ListVaultTemplates \/ ArchiveVaultTemplates \/ KeepVaultTemplates \/ GenerateKeys
        PROVE  run'.cmd \notin Restores
    BY <2>1, <1>n DEF ListTemplates, ListVaultTemplates, ArchiveVaultTemplates, KeepVaultTemplates, GenerateKeys,
       Restores
  <2>2. ASSUME CliGetTemplate \/ CliStoreKeys PROVE run'.cmd \notin Restores
    BY <2>2, <1>n DEF CliGetTemplate, CliStoreKeys, Restores
  <2>3. ASSUME NEW c \in Name, SaveTemplate(c) \/ DeleteTemplate(c) \/ SetupServer(c) PROVE run'.cmd \notin Restores
    BY <2>3, <1>n DEF SaveTemplate, DeleteTemplate, SetupServer, Restores
  <2>4. ASSUME NEW c \in Name, CliSetup(c) PROVE run'.cmd \notin Restores
    BY <2>4, <1>n DEF CliSetup, Restores
  <2>5. ASSUME NEW c \in Name, OlderClientAdds(c) PROVE run'.cmd \notin Restores
    BY <2>5 DEF OlderClientAdds
  <2>6. QED
    BY <1>3, <2>1, <2>2, <2>3, <2>4, <2>5 DEF OpenVpnNext
<1>4. CASE ProfileNext
  <2>1. ASSUME NEW c \in Name, GenerateProfile(c, VpnItem(c)) \/ GenerateProfile(c, Sent(c)) \/ SendProfile(c)
        PROVE  run'.cmd \notin Restores
    BY <2>1, <1>n DEF GenerateProfile, SendProfile, Restores
  <2>2. ASSUME NEW c \in Name, CliGenerateProfile(c) PROVE run'.cmd \notin Restores
    BY <2>2, <1>n DEF CliGenerateProfile, Restores
  <2>3. ASSUME NEW C, AddEntries(C) \/ DeleteProfiles(C) PROVE run'.cmd \notin Restores
    BY <2>3, <1>n DEF AddEntries, DeleteProfiles, Restores
  <2>4. ASSUME NEW todo, BulkGenerateProfiles(todo) PROVE run'.cmd \notin Restores
    BY <2>4, <1>n DEF BulkGenerateProfiles, Restores
  <2>5. QED
    BY <1>4, <1>k, <2>1, <2>2, <2>3, <2>4 DEF ProfileNext
\* Commands for one serial after the other.
<1>b. /\ \A cmd, todo : InAppFor(cmd, todo) => run'.cmd = cmd
      /\ \A cmd, todo : InCliFor(cmd, todo) => run'.cmd = cmd
  BY <1>n DEF InAppFor, InCliFor
<1>c. ASSUME NEW cmds, Bulk(cmds), cmds \cap Restores = {} PROVE run'.cmd \notin Restores
  <2>1. PICK cmd \in cmds, n \in Name, k \in Name : BulkCerts(cmd, n, k)
    BY <1>c DEF Bulk
  <2>2. cmd \notin Restores
    BY <1>c
  <2>3. PICK todo : InAppFor(cmd, todo)
    BY <2>1 DEF BulkCerts
  <2>4. QED
    BY <1>b, <2>2, <2>3
<1>i. ASSUME Issuing PROVE run'.cmd \notin Restores
  <2>1. ASSUME CreateCert \/ CliCreateCert PROVE run'.cmd \notin Restores
    BY <2>1, <1>n DEF CreateCert, CliCreateCert, Restores
  <2>3. ASSUME NEW n \in Name, RenewCert(n) \/ CliRenew(n) \/ RevokeCert(n) PROVE run'.cmd \notin Restores
    BY <2>3, <1>b DEF RenewCert, CliRenew, RevokeCert, Restores
  <2>4. ASSUME NEW n \in Name, Expire(n) PROVE run'.cmd \notin Restores
    BY <2>4 DEF Expire
  <2>5. QED
    BY <1>i, <1>k, <2>1, <2>3, <2>4 DEF Issuing
<1>5. CASE CertNext
  <2>1. ASSUME GenerateCrl \/ ListCerts \/ GetDashboard PROVE run'.cmd \notin Restores
    BY <2>1, <1>n DEF GenerateCrl, ListCerts, GetDashboard, Restores
  <2>2. ASSUME CliCreateCrl PROVE run'.cmd \notin Restores
    BY <2>2, <1>n DEF CliCreateCrl, Restores
  <2>3. ASSUME NEW n \in Name, DeleteCert(n) \/ RekeyCert(n) \/ CliRekey(n) \/ CliDelete(n)
        PROVE  run'.cmd \notin Restores
    BY <2>3, <1>b DEF DeleteCert, RekeyCert, CliRekey, CliDelete, Restores
  <2>4. ASSUME NEW todo, CliRevoke(todo) PROVE run'.cmd \notin Restores
    BY <2>4, <1>b DEF CliRevoke, Restores
  <2>5. QED
    BY <1>5, <1>i, <1>c, <2>1, <2>2, <2>3, <2>4 DEF CertNext, Restores
<1>6. CASE MarkNext
  <2>1. ASSUME NEW n \in Name, PublishCert(n) \/ CliPublish(n) \/ IgnoreCert(n) \/ UnignoreCert(n)
        PROVE  run'.cmd \notin Restores
    BY <2>1, <1>b DEF PublishCert, CliPublish, IgnoreCert, UnignoreCert, Restores
  <2>2. ASSUME NEW n \in Name, BackfillCert(n) PROVE run'.cmd \notin Restores
    BY <2>2, <1>n DEF BackfillCert, Restores
  <2>3. QED
    BY <1>6, <1>i, <1>c, <2>1, <2>2 DEF MarkNext, Restores
<1>7. ASSUME Succeeds \/ Refused \/ Fails PROVE run'.cmd \notin Restores
  <2>1. \A c : Reported(c) => run'.cmd = run.cmd
    BY DEF Reported, Formed, RunFields
  <2>2. run' = [run EXCEPT !.calls = Tail(@)] => run'.cmd = run.cmd
    BY DEF Formed, RunFields
  <2>3. QED
    BY <1>7, <2>1, <2>2 DEF Succeeds, Refused, Fails
<1>8. ASSUME Ends \/ OpenApp \/ CloseApp \/ Crash PROVE run'.cmd \notin Restores
  <2>1. run' = Idle
    BY <1>8, RestSteps DEF Rests
  <2>2. QED
    BY <2>1 DEF Idle, Restores
<1>9. QED
  BY <1>1, <1>2, <1>3, <1>4, <1>5, <1>6, <1>7, <1>8 DEF CommandNext, CaNext

-----------------------------------------------------------------------------
(* Backups while nothing fails *)

(***************************************************************************)
(* A backup has the rows there were, and each item whose title named it    *)
(* alone; items have the CA's titles only.                                 *)
(***************************************************************************)
Whole(f) == f.rows = f.was[2] /\ \A t \in Title : t \in f.titles <=> f.was[1][t] = 1
WholeState ==
    /\ \A t \in Title \ CaTitles : vault.items[t] = 0
    /\ vault.file # NoFile => Whole(vault.file)

(***************************************************************************)
(* A backup under way has what it took, and takes the rest.                *)
(***************************************************************************)
Taking(t) == Silently(Call("take", t))
DraftFits ==
    /\ CaItem \in vault.draft.titles /\ vault.draft.was = <<vault.items, vault.saved>>
    /\ \A t \in vault.draft.titles : vault.items[t] = 1
    /\ vault.draft.rows = IF DbItem \in vault.draft.titles THEN vault.saved ELSE {}
Takes(s) ==
    /\ IsList(s) /\ s # <<>> /\ s[Len(s)] = Call("write_file", 0)
    /\ \A i \in 1..Len(s) : \/ i = Len(s) \/ s[i] = Call("list_notes", 0)
                            \/ \E t \in CaTitles \ {CaItem} : s[i] = Taking(t)
TakesRest(s) ==
    \A t \in CaTitles : t \in vault.draft.titles \/ vault.items[t] # 1 \/ \E i \in 1..Len(s) : s[i] = Taking(t)
Gathering(s) == DraftFits /\ Takes(s) /\ TakesRest(s)

\* The other commands make items of the CA's titles, and no backup.
CaCall(c) ==
    /\ c.do \notin {"write_file", "archive", "archive_if_there"}
    /\ c.do \in {"create", "put"} => c.of \in CaTitles
CaCalls(s) == \E S : s \in Seq(S) /\ \A c \in S : CaCall(c)

WholeToDo(s) == CaCalls(s) \/ s = BackupCalls \/ Gathering(s)
WholeInv == WholeState /\ WholeToDo(run.calls)

(***************************************************************************)
(* What is done at every step of a command while nothing fails.            *)
(***************************************************************************)
WholeStep(c) ==
    /\ WholeInv /\ LedgerState /\ RestoreState /\ Formed /\ OwnState /\ CaFirst /\ area = "ca"
    /\ run.calls # <<>> /\ c = Head(run.calls)
    /\ \/ Done(c)
       \/ /\ ~Possible(c) /\ UNCHANGED <<vault, db>>
          /\ run'.calls = IF c.on = "stop" THEN <<>> ELSE Tail(run.calls)

(***************************************************************************)
(* Lists of such calls, joined.                                            *)
(***************************************************************************)
LEMMA CaCallLists ==
  /\ CaCalls(<<>>)
  /\ \A a : CaCall(a) => CaCalls(<<a>>)
  /\ \A a, b : CaCall(a) /\ CaCall(b) => CaCalls(<<a, b>>)
  /\ \A a, b, c : CaCall(a) /\ CaCall(b) /\ CaCall(c) => CaCalls(<<a, b, c>>)
  /\ \A a, b, c, d : CaCall(a) /\ CaCall(b) /\ CaCall(c) /\ CaCall(d) => CaCalls(<<a, b, c, d>>)
  /\ \A s, t : CaCalls(s) /\ CaCalls(t) => CaCalls(s \o t)
<1>0. CaCalls(<<>>)
  <2>1. PICK S : S = {}
    OBVIOUS
  <2>2. <<>> \in Seq(S) /\ \A x \in S : CaCall(x)
    BY <2>1
  <2>3. QED
    BY <2>2 DEF CaCalls
<1>1. ASSUME NEW a, CaCall(a) PROVE CaCalls(<<a>>)
  <2>1. PICK S : S = {a}
    OBVIOUS
  <2>2. <<a>> \in Seq(S) /\ \A x \in S : CaCall(x)
    BY <1>1, <2>1
  <2>3. QED
    BY <2>2 DEF CaCalls
<1>2. ASSUME NEW a, NEW b, CaCall(a), CaCall(b) PROVE CaCalls(<<a, b>>)
  <2>1. PICK S : S = {a, b}
    OBVIOUS
  <2>2. <<a, b>> \in Seq(S) /\ \A x \in S : CaCall(x)
    BY <1>2, <2>1
  <2>3. QED
    BY <2>2 DEF CaCalls
<1>3. ASSUME NEW a, NEW b, NEW c, CaCall(a), CaCall(b), CaCall(c) PROVE CaCalls(<<a, b, c>>)
  <2>1. PICK S : S = {a, b, c}
    OBVIOUS
  <2>2. <<a, b, c>> \in Seq(S) /\ \A x \in S : CaCall(x)
    BY <1>3, <2>1
  <2>3. QED
    BY <2>2 DEF CaCalls
<1>4. ASSUME NEW a, NEW b, NEW c, NEW d, CaCall(a), CaCall(b), CaCall(c), CaCall(d) PROVE CaCalls(<<a, b, c, d>>)
  <2>1. PICK S : S = {a, b, c, d}
    OBVIOUS
  <2>2. <<a, b, c, d>> \in Seq(S) /\ \A x \in S : CaCall(x)
    BY <1>4, <2>1
  <2>3. QED
    BY <2>2 DEF CaCalls
<1>5. ASSUME NEW s, NEW t, CaCalls(s), CaCalls(t) PROVE CaCalls(s \o t)
  <2>1. PICK S : s \in Seq(S) /\ \A c \in S : CaCall(c)
    BY <1>5 DEF CaCalls
  <2>2. PICK T : t \in Seq(T) /\ \A c \in T : CaCall(c)
    BY <1>5 DEF CaCalls
  <2>3. s \in Seq(S \cup T) /\ t \in Seq(S \cup T)
    BY <2>1, <2>2, SeqMonotonic
  <2>4. s \o t \in Seq(S \cup T)
    BY <2>3, ConcatProperties
  <2>5. QED
    BY <2>1, <2>2, <2>4 DEF CaCalls
<1>6. QED
  BY <1>0, <1>1, <1>2, <1>3, <1>4, <1>5

(***************************************************************************)
(* The lists of the CA's commands but a backup's.                          *)
(***************************************************************************)
LEMMA CaCallsOf ==
  /\ \A next : CaCalls(FirstCalls(next)) /\ CaCalls(RebuildCalls(next))
  /\ \A d : CanIssue(d) => CaCalls(SignCalls(d))
  /\ \A calls \in ConfigCalls : CaCalls(calls)
  /\ CaCalls(ResignCalls) /\ CaCalls(<<Call("put_crl", {})>> \o Stored({}, {})) /\ CaCalls(RestoreCalls)
  /\ \A copy : CaCalls(<<Read(CaItem), Call("unreadable", 0), Call("replace_db", copy), Rows({}, copy)>>)
<1>k. /\ \A do, of : do \notin {"write_file", "archive", "archive_if_there", "create", "put"} => CaCall(Call(do, of))
      /\ \A t \in CaTitles : CaCall(Create(t)) /\ CaCall(Put(t))
  BY DEF CaCall, Call, Create, Put
<1>c. CaItem \in CaTitles /\ \A n \in Name : CrtItem(n) \in CaTitles
  BY DEF CaTitles
<1>e. CaCall(Refuse) /\ (\A t : CaCall(Read(t))) /\ \A old, new : CaCall(Rows(old, new)) /\ CaCall(Store(old, new))
  BY <1>k DEF Refuse, Read, Rows, Store
<1>r. CaCalls(<<Refuse>>)
  BY <1>e, CaCallLists
<1>s. ASSUME NEW old, NEW new PROVE CaCalls(Stored(old, new))
  <2>1. CaCall(Softly(Call("keep", 0))) /\ CaCall(Save)
    BY <1>e DEF CaCall, Softly, Call, Save
  <2>2. QED
    BY <2>1, <1>e, CaCallLists DEF Stored
<1>1. ASSUME NEW next PROVE CaCalls(FirstCalls(next))
  <2>1. CaCall(Create(CaItem)) /\ CaCall(Call("new_db", NewRows(next))) /\ CaCall(Rows({}, NewRows(next)))
    BY <1>k, <1>c, <1>e
  <2>2. QED
    BY <2>1, <1>r, CaCallLists DEF FirstCalls
<1>2. ASSUME NEW given PROVE CaCalls(RebuildCalls(given))
  <2>1. PICK rows : rows = {Cert(n, "Valid") : n \in Serials} \cup {Serial(NextAfter(given))}
    OBVIOUS
  <2>2. CaCall(Call("new_db", rows)) /\ CaCall(Rows({}, rows))
    BY <1>k, <1>e
  <2>3. CaCalls(<<Call("new_db", rows), Rows({}, rows)>> \o Stored({}, {}))
    BY <2>2, <1>s, CaCallLists
  <2>4. RebuildCalls(given) \in {<<Refuse>>, <<Call("new_db", rows), Rows({}, rows)>> \o Stored({}, {})}
    BY <2>1 DEF RebuildCalls
  <2>5. QED
    BY <2>3, <2>4, <1>r
<1>3. ASSUME NEW d, CanIssue(d) PROVE CaCalls(SignCalls(d))
  <2>1. PICK n : n = NextSerial(d) /\ n \in Name
    BY <1>3 DEF CanIssue
  <2>2. CaCalls(<<Rows({Serial(n)}, {Serial(n + 1)}), Create(CrtItem(n))>>)
    BY <2>1, <1>k, <1>c, <1>e, CaCallLists
  <2>3. CaCalls(Stored({}, {Cert(n, "Valid")}))
    BY <1>s
  <2>4. QED
    BY <2>1, <2>2, <2>3, <1>r, CaCallLists DEF SignCalls, IssueCalls
<1>4. \A calls \in ConfigCalls : CaCalls(calls)
  BY <1>r, <1>s DEF ConfigCalls
<1>5. CaCalls(ResignCalls) /\ CaCalls(<<Call("put_crl", {})>> \o Stored({}, {}))
  <2>1. CaCalls(<<Read(CaItem), Put(CaItem)>>) /\ CaCalls(<<Call("put_crl", {})>>)
    BY <1>k, <1>c, <1>e, CaCallLists
  <2>2. QED
    BY <2>1, <1>s, CaCallLists DEF ResignCalls
<1>6. CaCalls(RestoreCalls)
  <2>1. CASE vault.items[CaItem] # 0
    BY <2>1, <1>r DEF RestoreCalls
  <2>2. CASE vault.items[CaItem] = 0
    <3>1. PICK s : s = RestoreCalls
      OBVIOUS
    <3>2. PICK S : S = {s[i] : i \in 1..Len(Ordered)}
      OBVIOUS
    <3>3. s = [i \in 1..Len(Ordered) |-> PutBack(Ordered[i])]
      BY <2>2, <3>1 DEF RestoreCalls
    <3>4. s \in [1..Len(Ordered) -> S]
      BY <3>2, <3>3
    <3>5. s \in Seq(S)
      BY <3>4, OrderedOnce, SeqDef
    <3>6. ASSUME NEW t \in CaTitles PROVE CaCall(PutBack(t))
      <4>1. PutBack(t) \in {Rows({}, {}), Call("new_db", vault.file.rows), Create(t)}
        BY DEF PutBack, InFile
      <4>2. QED
        BY <4>1, <1>k, <1>e, <3>6
    <3>7. \A c \in S : CaCall(c)
      BY <3>2, <3>3, <3>6, OrderedOnce
    <3>8. QED
      BY <3>1, <3>5, <3>7 DEF CaCalls
  <2>3. QED
    BY <2>1, <2>2
<1>7. ASSUME NEW copy PROVE CaCalls(<<Read(CaItem), Call("unreadable", 0), Call("replace_db", copy), Rows({}, copy)>>)
  <2>1. CaCall(Call("unreadable", 0)) /\ CaCall(Call("replace_db", copy))
    BY <1>k
  <2>2. QED
    BY <2>1, <1>e, CaCallLists
<1>8. QED
  BY <1>1, <1>2, <1>3, <1>4, <1>5, <1>6, <1>7

(***************************************************************************)
(* A command that has ended, or that starts or goes on with such calls.    *)
(***************************************************************************)
LEMMA WholeStays ==
  ASSUME WholeState, vault'.items = vault.items, vault'.file = vault.file
  PROVE  WholeState' /\ (run'.calls = <<>> \/ CaCalls(run'.calls) => WholeInv')
<1>1. WholeState'
  BY DEF WholeState, Whole
<1>2. CaCalls(<<>>)
  BY CaCallLists
<1>3. ASSUME CaCalls(run'.calls) PROVE (WholeToDo(run.calls))'
  BY <1>3 DEF WholeToDo, CaCalls, CaCall
<1>4. QED
  BY <1>1, <1>2, <1>3 DEF WholeInv

(***************************************************************************)
(* A backup takes the CA's item first, then every other title of its.      *)
(***************************************************************************)
LEMMA BackupParts ==
  ASSUME NEW r, r = Tail(BackupCalls)
  PROVE  /\ Head(BackupCalls) = Call("take", CaItem) /\ Takes(r)
         /\ \A t \in CaTitles \ {CaItem} : \E i \in 1..Len(r) : r[i] = Taking(t)
<1>n. PICK N \in Nat : N = Cardinality(Name) /\ Name = 1..N
  BY Names
<1>o. /\ Len(Ordered) = N + 3 /\ Ordered[2] = DbItem /\ Ordered[3] = CrlItem
      /\ \A n \in 1..N : Ordered[n + 3] = CrtItem(n)
  BY <1>n, OrderedTitles
<1>1. PICK taken : taken = [i \in 2..Len(Ordered) |-> Silently(Call("take", Ordered[i]))]
  OBVIOUS
<1>2. PICK a : a = <<Call("take", CaItem), taken[2], taken[3], Call("list_notes", 0)>>
  OBVIOUS
<1>3. PICK b : b = [n \in 1..Cardinality(Name) |-> taken[n + 3]]
  OBVIOUS
<1>4. PICK e : e = <<Call("write_file", 0)>>
  OBVIOUS
<1>5. BackupCalls = (a \o b) \o e
  BY <1>1, <1>2, <1>3, <1>4 DEF BackupCalls
<1>6. /\ taken[2] = Taking(DbItem) /\ taken[3] = Taking(CrlItem) /\ \A n \in 1..N : taken[n + 3] = Taking(CrtItem(n))
  <2>0. PICK L : L = Len(Ordered)
    OBVIOUS
  <2>l. L = N + 3 /\ L \in Nat
    BY <1>o, <2>0
  <2>1. 2 \in 2..L /\ 3 \in 2..L
    BY <2>l
  <2>2. ASSUME NEW n \in 1..N PROVE n + 3 \in 2..L
    BY <2>l, <2>2
  <2>3. QED
    BY <1>1, <1>o, <2>0, <2>1, <2>2 DEF Taking
<1>7. /\ Len(a) = 4 /\ a[1] = Call("take", CaItem) /\ a[2] = Taking(DbItem) /\ a[3] = Taking(CrlItem)
      /\ a[4] = Call("list_notes", 0)
  BY <1>2, <1>6
<1>8. PICK S : S = {a[1], a[2], a[3], a[4], e[1]} \cup {b[n] : n \in 1..N}
  OBVIOUS
<1>9. a \in Seq(S)
  <2>1. <<Call("take", CaItem), taken[2], taken[3], Call("list_notes", 0)>> \in Seq({a[1], a[2], a[3], a[4]})
    BY <1>2
  <2>2. QED
    BY <1>2, <1>8, <2>1, SeqMonotonic
<1>10. b \in Seq(S) /\ Len(b) = N /\ \A n \in 1..N : b[n] = Taking(CrtItem(n))
  <2>1. b \in [1..N -> S] /\ \A n \in 1..N : b[n] = Taking(CrtItem(n))
    BY <1>3, <1>6, <1>8, <1>n
  <2>2. b \in Seq(S)
    BY <1>n, <2>1, SeqDef
  <2>3. QED
    BY <1>n, <2>1, <2>2, LenProperties
<1>11. e \in Seq(S) /\ Len(e) = 1 /\ e[1] = Call("write_file", 0)
  BY <1>4, <1>8
<1>12. PICK ab : ab = a \o b
  OBVIOUS
<1>13. ab \in Seq(S) /\ Len(ab) = N + 4 /\ (\A i \in 1..4 : ab[i] = a[i]) /\ \A n \in 1..N : ab[n + 4] = Taking(CrtItem(n))
  <2>1. /\ ab \in Seq(S) /\ Len(ab) = Len(a) + Len(b)
        /\ \A i \in 1..(Len(a) + Len(b)) : ab[i] = IF i <= Len(a) THEN a[i] ELSE b[i - Len(a)]
    BY <1>9, <1>10, <1>12, ConcatProperties
  <2>2. Len(ab) = N + 4 /\ \A i \in 1..(N + 4) : ab[i] = IF i <= 4 THEN a[i] ELSE b[i - 4]
    BY <1>7, <1>10, <2>1, <1>n
  <2>3. \A i \in 1..4 : ab[i] = a[i]
    BY <2>2, <1>n
  <2>4. ASSUME NEW n \in 1..N PROVE ab[n + 4] = Taking(CrtItem(n))
    <3>1. n + 4 \in 1..(N + 4) /\ ~(n + 4 <= 4) /\ (n + 4) - 4 = n
      BY <1>n
    <3>2. QED
      BY <1>10, <2>2, <3>1
  <2>5. QED
    BY <2>1, <2>2, <2>3, <2>4
<1>14. PICK s : s = ab \o e
  OBVIOUS
<1>15. /\ s \in Seq(S) /\ Len(s) = N + 5 /\ s[N + 5] = Call("write_file", 0)
       /\ \A i \in 1..(N + 4) : s[i] = ab[i]
  <2>1. /\ s \in Seq(S) /\ Len(s) = Len(ab) + Len(e)
        /\ \A i \in 1..(Len(ab) + Len(e)) : s[i] = IF i <= Len(ab) THEN ab[i] ELSE e[i - Len(ab)]
    BY <1>11, <1>13, <1>14, ConcatProperties
  <2>2. Len(s) = N + 5 /\ \A i \in 1..(N + 5) : s[i] = IF i <= N + 4 THEN ab[i] ELSE e[i - (N + 4)]
    BY <1>11, <1>13, <2>1, <1>n
  <2>3. N + 5 \in 1..(N + 5) /\ ~(N + 5 <= N + 4) /\ (N + 5) - (N + 4) = 1
    BY <1>n
  <2>4. QED
    BY <1>11, <1>n, <2>1, <2>2, <2>3
<1>16. /\ s[1] = Call("take", CaItem) /\ s[2] = Taking(DbItem) /\ s[3] = Taking(CrlItem)
       /\ s[4] = Call("list_notes", 0) /\ \A n \in 1..N : s[n + 4] = Taking(CrtItem(n))
  <2>1. 1 \in 1..(N + 4) /\ 2 \in 1..(N + 4) /\ 3 \in 1..(N + 4) /\ 4 \in 1..(N + 4)
        /\ \A n \in 1..N : n + 4 \in 1..(N + 4)
    BY <1>n
  <2>2. ab[1] = a[1] /\ ab[2] = a[2] /\ ab[3] = a[3] /\ ab[4] = a[4]
    BY <1>13
  <2>3. QED
    BY <1>7, <1>13, <1>15, <2>1, <2>2
<1>17. s # <<>> /\ BackupCalls = s
  BY <1>5, <1>12, <1>14, <1>15, EmptySeq
<1>18. r \in Seq(S) /\ Len(r) = N + 4 /\ \A i \in 1..(N + 4) : r[i] = s[i + 1]
  <2>1. r \in Seq(S) /\ Len(r) = Len(s) - 1 /\ \A i \in 1..Len(r) : r[i] = s[i + 1]
    BY <1>15, <1>17, HeadTailProperties
  <2>2. Len(r) = N + 4
    BY <1>15, <1>n, <2>1
  <2>3. QED
    BY <2>1, <2>2
<1>19. /\ r[1] = Taking(DbItem) /\ r[2] = Taking(CrlItem) /\ r[3] = Call("list_notes", 0)
       /\ (\A n \in 1..N : r[n + 3] = Taking(CrtItem(n))) /\ r[N + 4] = Call("write_file", 0)
  <2>1. 1 \in 1..(N + 4) /\ 2 \in 1..(N + 4) /\ 3 \in 1..(N + 4) /\ N + 4 \in 1..(N + 4) /\ (N + 4) + 1 = N + 5
    BY <1>n
  <2>2. ASSUME NEW n \in 1..N PROVE r[n + 3] = Taking(CrtItem(n))
    <3>1. n + 3 \in 1..(N + 4) /\ (n + 3) + 1 = n + 4
      BY <1>n
    <3>2. QED
      BY <1>16, <1>18, <3>1
  <2>3. 1 + 1 = 2 /\ 2 + 1 = 3 /\ 3 + 1 = 4
    OBVIOUS
  <2>4. QED
    BY <1>15, <1>16, <1>18, <2>1, <2>2, <2>3
<1>20. \A t \in CaTitles \ {CaItem} : \E i \in 1..Len(r) : r[i] = Taking(t)
  <2>1. ASSUME NEW n \in Name PROVE \E i \in 1..Len(r) : r[i] = Taking(CrtItem(n))
    <3>1. n \in 1..N /\ n + 3 \in 1..(N + 4)
      <4>1. n \in 1..N
        BY <1>n, <2>1
      <4>2. QED
        BY <4>1
    <3>2. Len(r) = N + 4
      BY <1>18
    <3>3. QED
      BY <1>19, <3>1, <3>2
  <2>2. 1 \in 1..Len(r) /\ 2 \in 1..Len(r)
    BY <1>n, <1>18
  <2>3. QED
    BY <1>19, <2>1, <2>2 DEF CaTitles
<1>21. ASSUME NEW i \in 1..Len(r)
       PROVE  i = Len(r) \/ r[i] = Call("list_notes", 0) \/ \E t \in CaTitles \ {CaItem} : r[i] = Taking(t)
  <2>1. DbItem \in CaTitles \ {CaItem} /\ CrlItem \in CaTitles \ {CaItem}
    BY DEF CaTitles, CaItem, DbItem, CrlItem
  <2>0. i \in 1..(N + 4) /\ Len(r) = N + 4
    BY <1>18, <1>21
  <2>2. i \in {1, 2, 3} \/ i = N + 4 \/ (i - 3) \in 1..N
    <3>1. i \in Int /\ N \in Int /\ 1 <= i /\ i <= N + 4
      BY <2>0
    <3>2. CASE i <= 3
      BY <3>1, <3>2
    <3>3. CASE i > 3
      BY <3>1, <3>3
    <3>4. QED
      BY <3>1, <3>2, <3>3
  <2>3. ASSUME (i - 3) \in 1..N PROVE \E t \in CaTitles \ {CaItem} : r[i] = Taking(t)
    <3>1. PICK n \in 1..N : n = i - 3
      BY <2>3
    <3>2. n + 3 = i
      BY <3>1, <1>n, <1>18
    <3>3. r[i] = Taking(CrtItem(n)) /\ CrtItem(n) \in CaTitles /\ CrtItem(n) # CaItem
      BY <1>19, <1>n, <3>2 DEF CaTitles, CaItem, CrtItem
    <3>4. QED
      BY <3>3
  <2>4. QED
    BY <1>19, <2>0, <2>1, <2>2, <2>3
<1>22. Takes(r)
  <2>1. r # <<>> /\ r[Len(r)] = Call("write_file", 0) /\ IsList(r)
    BY <1>n, <1>18, <1>19, EmptySeq DEF IsList
  <2>2. QED
    BY <1>21, <2>1 DEF Takes
<1>23. Head(BackupCalls) = Call("take", CaItem)
  BY <1>15, <1>16, <1>17, HeadTailProperties
<1>24. QED
  BY <1>20, <1>22, <1>23

(***************************************************************************)
(* A call of another command leaves the backup, and items have the CA's    *)
(* titles still.                                                           *)
(***************************************************************************)
LEMMA CaCallStep ==
  ASSUME NEW c, WholeStep(c), CaCalls(run.calls)
  PROVE  WholeInv'
<1>1. PICK S : run.calls \in Seq(S) /\ \A e \in S : CaCall(e)
  BY DEF CaCalls
<1>2. CaCall(c) /\ Tail(run.calls) \in Seq(S)
  BY <1>1, HeadTailProperties DEF WholeStep
<1>3. CaCalls(run'.calls)
  <2>1. run'.calls = <<>> \/ run'.calls = Tail(run.calls)
    BY DEF WholeStep, Done
  <2>2. CaCalls(Tail(run.calls)) /\ CaCalls(<<>>)
    BY <1>1, <1>2, CaCallLists DEF CaCalls
  <2>3. QED
    BY <2>1, <2>2
<1>4. WholeState /\ Formed /\ Counted
  BY DEF WholeStep, WholeInv, OwnState
<1>5. CASE ~Done(c)
  BY <1>3, <1>4, <1>5, WholeStays DEF WholeStep
<1>6. CASE Done(c)
  <2>1. PICK v : v = vault' /\ v = VaultAfter(c)
    BY <1>6 DEF Done
  <2>2. c.do \notin {"write_file", "archive", "archive_if_there"}
    BY <1>2 DEF CaCall
  <2>3. v.file = vault.file
    BY <1>4, <2>1, <2>2, DraftsChange
  <2>4. \/ v.items = vault.items
        \/ c.do = "create" /\ v.items = [vault.items EXCEPT ![c.of] = More(@)]
        \/ c.do = "put" /\ v.items = [vault.items EXCEPT ![c.of] = 1]
        \/ v.items = [vault.items EXCEPT ![DbItem] = 1]
        \/ v.items = [vault.items EXCEPT ![CrlItem] = 1]
    BY <1>4, <2>1, <2>2, ItemsChange
  <2>5. c.do \in {"create", "put"} => c.of \in CaTitles
    BY <1>2 DEF CaCall
  <2>6. DbItem \in CaTitles /\ CrlItem \in CaTitles
    BY DEF CaTitles
  <2>7. \A t \in Title \ CaTitles : v.items[t] = vault.items[t]
    BY <1>4, <2>4, <2>5, <2>6 DEF Counted
  <2>8. WholeState'
    BY <1>4, <2>1, <2>3, <2>7 DEF WholeState, Whole
  <2>9. (WholeToDo(run.calls))'
    BY <1>3 DEF WholeToDo, CaCalls, CaCall
  <2>10. QED
    BY <2>8, <2>9 DEF WholeInv
<1>7. QED
  BY <1>5, <1>6

(***************************************************************************)
(* A backup starts with the CA's item, without which there is none.        *)
(***************************************************************************)
LEMMA BackupStep ==
  ASSUME NEW c, WholeStep(c), run.calls = BackupCalls
  PROVE  WholeInv'
<1>1. PICK r : r = Tail(BackupCalls)
  OBVIOUS
<1>2. /\ Head(BackupCalls) = Call("take", CaItem) /\ Takes(r)
      /\ \A t \in CaTitles \ {CaItem} : \E i \in 1..Len(r) : r[i] = Taking(t)
  BY <1>1, BackupParts
<1>3. c = Call("take", CaItem) /\ WholeState
  BY <1>2 DEF WholeStep, WholeInv
<1>4. c.do = "take" /\ c.of = CaItem /\ c.on = "stop"
  BY <1>3 DEF Call
<1>5. CASE ~Done(c)
  <2>1. UNCHANGED <<vault, db>> /\ run'.calls = <<>>
    BY <1>4, <1>5 DEF WholeStep
  <2>2. QED
    BY <1>3, <2>1, WholeStays
<1>6. CASE Done(c)
  <2>1. PICK v : v = vault' /\ v = VaultAfter(c)
    BY <1>6 DEF Done
  <2>2. Effects(c, v)
    BY <2>1, CallEffects DEF WholeStep
  <2>3. PICK f : f = Take(vault.draft, CaItem)
    OBVIOUS
  <2>4. v.items = vault.items /\ v.saved = vault.saved /\ v.file = vault.file /\ v.draft = f
    BY <1>4, <2>2, <2>3 DEF Effects
  <2>5. f.titles = {CaItem} /\ f.rows = {} /\ f.was = <<vault.items, vault.saved>>
    <3>1. CaItem # DbItem
      BY DEF CaItem, DbItem
    <3>2. QED
      BY <2>3, <3>1 DEF Take
  <2>6. run'.calls = r
    BY <1>1, <1>6 DEF Done, WholeStep
  <2>7. vault.items[CaItem] = 1
    BY <1>4, <1>6 DEF Done, Possible
  <2>8. WholeState'
    BY <1>3, <2>1, <2>4, WholeStays
  <2>9. DbItem # CaItem
    BY DEF DbItem, CaItem
  <2>10. DraftFits'
    BY <2>1, <2>4, <2>5, <2>7, <2>9 DEF DraftFits
  <2>11. (TakesRest(r))'
    BY <1>2, <2>1, <2>4, <2>5 DEF TakesRest
  <2>12. (Gathering(run.calls))'
    BY <1>2, <2>6, <2>10, <2>11 DEF Gathering, TakesRest, Takes, Taking
  <2>13. QED
    BY <2>8, <2>12 DEF WholeInv, WholeToDo
<1>7. QED
  BY <1>5, <1>6

(***************************************************************************)
(* The calls of a backup one by one.                                       *)
(***************************************************************************)
LEMMA TakesTail ==
  ASSUME NEW s, Takes(s)
  PROVE  \/ /\ Head(s) = Call("write_file", 0) /\ Tail(s) = <<>>
            /\ \A t : \A i \in 1..Len(s) : s[i] # Taking(t)
         \/ /\ Takes(Tail(s))
            /\ Head(s) = Call("list_notes", 0) \/ \E t \in CaTitles \ {CaItem} : Head(s) = Taking(t)
            /\ \A t : (\E i \in 1..Len(s) : s[i] = Taking(t))
                      => Head(s) = Taking(t) \/ \E i \in 1..Len(Tail(s)) : Tail(s)[i] = Taking(t)
<1>1. PICK S : s \in Seq(S)
  BY DEF Takes, IsList
<1>2. PICK n \in Nat : n = Len(s)
  BY <1>1, LenProperties
<1>3. s # <<>> /\ s[n] = Call("write_file", 0)
      /\ \A i \in 1..n : \/ i = n \/ s[i] = Call("list_notes", 0)
                         \/ \E t \in CaTitles \ {CaItem} : s[i] = Taking(t)
  BY <1>2 DEF Takes
<1>4. n >= 1
  BY <1>1, <1>2, <1>3, EmptySeq
<1>5. PICK r : r = Tail(s)
  OBVIOUS
<1>6. Head(s) = s[1] /\ r \in Seq(S) /\ Len(r) = n - 1 /\ \A i \in 1..(n - 1) : r[i] = s[i + 1]
  <2>1. Head(s) = s[1]
    BY <1>1, <1>3
  <2>2. r \in Seq(S) /\ Len(r) = Len(s) - 1 /\ \A i \in 1..Len(r) : r[i] = s[i + 1]
    BY <1>1, <1>3, <1>5, HeadTailProperties
  <2>3. Len(r) = n - 1
    BY <1>2, <2>2
  <2>4. QED
    BY <2>1, <2>2, <2>3
<1>7. CASE n = 1
  <2>1. Head(s) = Call("write_file", 0)
    BY <1>3, <1>6, <1>7
  <2>2. r = <<>>
    BY <1>6, <1>7, EmptySeq
  <2>3. \A t : \A i \in 1..Len(s) : s[i] # Taking(t)
    <3>1. \A t : Taking(t) # Call("write_file", 0)
      <4>1. \A t : Taking(t).do = "take"
        BY DEF Taking, Silently, Call
      <4>2. Call("write_file", 0).do = "write_file"
        BY DEF Call
      <4>3. QED
        BY <4>1, <4>2
    <3>2. \A i \in 1..Len(s) : i = n
      BY <1>2, <1>7
    <3>3. QED
      BY <1>3, <3>1, <3>2
  <2>4. QED
    BY <1>5, <2>1, <2>2, <2>3
<1>8. CASE n # 1
  <2>1. n >= 2 /\ 1 \in 1..n /\ 1 # n /\ n - 1 \in 1..(n - 1) /\ (n - 1) + 1 = n
    BY <1>4, <1>8
  <2>2. Head(s) = Call("list_notes", 0) \/ \E t \in CaTitles \ {CaItem} : Head(s) = Taking(t)
    BY <1>3, <1>6, <2>1
  <2>3. r # <<>> /\ r[Len(r)] = Call("write_file", 0) /\ IsList(r)
    <3>1. r[n - 1] = s[n]
      BY <1>6, <2>1
    <3>2. Len(r) # 0
      BY <1>6, <2>1
    <3>3. QED
      BY <1>3, <1>6, <3>1, <3>2, EmptySeq DEF IsList
  <2>4. ASSUME NEW i \in 1..(n - 1)
        PROVE  i = n - 1 \/ r[i] = Call("list_notes", 0) \/ \E t \in CaTitles \ {CaItem} : r[i] = Taking(t)
    <3>1. i + 1 \in 1..n /\ (i + 1 = n => i = n - 1)
      BY <1>2, <2>4
    <3>2. QED
      BY <1>3, <1>6, <3>1
  <2>5. Takes(r)
    BY <1>6, <2>3, <2>4 DEF Takes
  <2>6. ASSUME NEW t, NEW i \in 1..n, s[i] = Taking(t)
        PROVE  Head(s) = Taking(t) \/ \E j \in 1..(n - 1) : r[j] = Taking(t)
    <3>1. CASE i = 1
      BY <1>6, <2>6, <3>1
    <3>2. CASE i # 1
      <4>1. PICK j : j = i - 1
        OBVIOUS
      <4>2. j \in 1..(n - 1) /\ j + 1 = i
        BY <2>6, <3>2, <4>1
      <4>3. QED
        BY <1>6, <2>6, <4>2
    <3>3. QED
      BY <3>1, <3>2
  <2>7. QED
    BY <1>2, <1>5, <1>6, <2>2, <2>5, <2>6
<1>9. QED
  BY <1>7, <1>8

(***************************************************************************)
(* A backup takes what can be read, and keeps it in the end.               *)
(***************************************************************************)
LEMMA GatherStep ==
  ASSUME NEW c, WholeStep(c), Gathering(run.calls)
  PROVE  WholeInv'
<1>1. PICK s : s = run.calls
  OBVIOUS
<1>2. DraftFits /\ Takes(s) /\ TakesRest(s) /\ c = Head(s)
  BY <1>1 DEF Gathering, WholeStep
<1>3. WholeState
  BY DEF WholeStep, WholeInv
<1>4. PICK r : r = Tail(s)
  OBVIOUS
<1>n. c.do \in {"write_file", "list_notes"} => Done(c)
  BY DEF WholeStep, Possible
<1>5. CASE c = Call("write_file", 0) /\ r = <<>> /\ \A t : \A i \in 1..Len(s) : s[i] # Taking(t)
  <2>1. c.do = "write_file"
    BY <1>5 DEF Call
  <2>2. Done(c)
    BY <2>1, <1>n
  <2>3. PICK v : v = vault' /\ v = VaultAfter(c)
    BY <2>2 DEF Done
  <2>4. Effects(c, v)
    BY <2>3, CallEffects DEF WholeStep
  <2>5. v.items = vault.items /\ v.saved = vault.saved /\ v.file = vault.draft
    BY <2>1, <2>4 DEF Effects
  <2>6. run'.calls = <<>>
    BY <1>1, <1>4, <1>5, <2>2 DEF Done
  <2>7. PICK f : f = vault.draft
    OBVIOUS
  <2>8. ASSUME NEW t \in Title PROVE t \in f.titles <=> vault.items[t] = 1
    <3>1. CASE t \in f.titles
      BY <1>2, <2>7, <3>1 DEF DraftFits
    <3>2. CASE t \notin f.titles
      <4>1. t \notin CaTitles \/ vault.items[t] # 1
        BY <1>2, <1>5, <2>7, <3>2 DEF TakesRest
      <4>2. QED
        BY <1>3, <3>2, <4>1 DEF WholeState
    <3>3. QED
      BY <3>1, <3>2
  <2>9. f.rows = vault.saved
    <3>1. CASE DbItem \in f.titles
      BY <1>2, <2>7, <3>1 DEF DraftFits
    <3>2. CASE DbItem \notin f.titles
      <4>1. vault.items[DbItem] # 1 /\ vault.items[DbItem] \in 0..2 /\ vault.items[DbItem] < 2
        BY <2>8, <3>2, Titles DEF WholeStep, OwnState, Counted, Unique
      <4>2. vault.items[DbItem] = 0
        BY <4>1
      <4>3. vault.saved = {}
        BY <4>2 DEF WholeStep, LedgerState
      <4>4. QED
        BY <1>2, <2>7, <3>2, <4>3 DEF DraftFits
    <3>3. QED
      BY <3>1, <3>2
  <2>10. f.was[1] = vault.items /\ f.was[2] = vault.saved
    BY <1>2, <2>7 DEF DraftFits
  <2>11. Whole(f)
    BY <2>8, <2>9, <2>10 DEF Whole
  <2>12. WholeState'
    BY <1>3, <2>3, <2>5, <2>7, <2>11 DEF WholeState, Whole
  <2>13. CaCalls(<<>>)
    BY CaCallLists
  <2>14. (WholeToDo(run.calls))'
    BY <2>6, <2>13 DEF WholeToDo, CaCalls, CaCall
  <2>15. QED
    BY <2>12, <2>14 DEF WholeInv
<1>6. ASSUME vault'.items = vault.items, vault'.file = vault.file, run'.calls = r,
             Takes(r), DraftFits', (TakesRest(r))'
      PROVE  WholeInv'
  <2>1. WholeState'
    BY <1>3, <1>6, WholeStays
  <2>2. (Gathering(run.calls))'
    BY <1>6 DEF Gathering, TakesRest, Takes, Taking
  <2>3. QED
    BY <2>1, <2>2 DEF WholeInv, WholeToDo
<1>7. CASE Takes(r) /\ c = Call("list_notes", 0)
           /\ \A t : (\E i \in 1..Len(s) : s[i] = Taking(t)) => c = Taking(t) \/ \E i \in 1..Len(r) : r[i] = Taking(t)
  <2>1. c.do = "list_notes" /\ \A t : Taking(t).do = "take"
    BY <1>7 DEF Call, Taking, Silently
  <2>2. Done(c)
    BY <2>1, <1>n
  <2>3. PICK v : v = vault' /\ v = VaultAfter(c)
    BY <2>2 DEF Done
  <2>4. Effects(c, v)
    BY <2>3, CallEffects DEF WholeStep
  <2>5. v = vault
    BY <2>1, <2>4 DEF Effects
  <2>6. run'.calls = r
    BY <1>1, <1>4, <2>2 DEF Done
  <2>7. TakesRest(r)
    BY <1>2, <1>7, <2>1 DEF TakesRest
  <2>8. DraftFits' /\ (TakesRest(r))'
    BY <1>2, <2>3, <2>5, <2>7 DEF DraftFits, TakesRest
  <2>9. QED
    BY <1>6, <1>7, <2>3, <2>5, <2>6, <2>8
<1>8. ASSUME NEW t \in CaTitles \ {CaItem}, c = Taking(t), Takes(r),
             \A u : (\E i \in 1..Len(s) : s[i] = Taking(u)) => c = Taking(u) \/ \E i \in 1..Len(r) : r[i] = Taking(u)
      PROVE  WholeInv'
  <2>1. c.do = "take" /\ c.of = t /\ c.on = "ignore"
    BY <1>8 DEF Call, Taking, Silently
  <2>2. \A u : c = Taking(u) => u = t
    BY <2>1 DEF Call, Taking, Silently
  <2>3. CASE ~Done(c)
    <3>1. UNCHANGED <<vault, db>> /\ run'.calls = r /\ ~Possible(c)
      BY <1>1, <1>4, <2>1, <2>3 DEF WholeStep
    <3>2. vault.items[t] # 1
      BY <2>1, <3>1 DEF Possible
    <3>3. TakesRest(r)
      BY <1>2, <1>8, <2>2, <3>2 DEF TakesRest
    <3>4. DraftFits' /\ (TakesRest(r))'
      BY <1>2, <3>1, <3>3 DEF DraftFits, TakesRest
    <3>5. QED
      BY <1>6, <1>8, <3>1, <3>4
  <2>4. CASE Done(c)
    <3>1. PICK v : v = vault' /\ v = VaultAfter(c)
      BY <2>4 DEF Done
    <3>2. Effects(c, v)
      BY <3>1, CallEffects DEF WholeStep
    <3>3. PICK f : f = Take(vault.draft, t)
      OBVIOUS
    <3>4. v.items = vault.items /\ v.saved = vault.saved /\ v.file = vault.file /\ v.draft = f
      BY <2>1, <3>2, <3>3 DEF Effects
    <3>5. /\ f.titles = vault.draft.titles \cup {t} /\ f.was = <<vault.items, vault.saved>>
          /\ t = DbItem => f.rows = vault.saved
          /\ t # DbItem => f.rows = vault.draft.rows
      BY <1>8, <3>3 DEF Take
    <3>6. run'.calls = r
      BY <1>1, <1>4, <2>4 DEF Done
    <3>7. vault.items[t] = 1
      BY <2>1, <2>4 DEF Done, Possible
    <3>8. f.rows = IF DbItem \in f.titles THEN vault.saved ELSE {}
      BY <1>2, <3>5 DEF DraftFits
    <3>9. CaItem \in f.titles /\ \A u \in f.titles : vault.items[u] = 1
      BY <1>2, <3>5, <3>7 DEF DraftFits
    <3>10. DraftFits'
      BY <3>1, <3>4, <3>5, <3>8, <3>9 DEF DraftFits
    <3>11. \A u \in CaTitles : u \in f.titles \/ vault.items[u] # 1 \/ \E i \in 1..Len(r) : r[i] = Taking(u)
      BY <1>2, <1>8, <2>2, <3>5 DEF TakesRest
    <3>12. (TakesRest(r))'
      BY <3>1, <3>4, <3>11 DEF TakesRest
    <3>13. QED
      BY <1>6, <1>8, <3>1, <3>4, <3>6, <3>10, <3>12
  <2>5. QED
    BY <2>3, <2>4
<1>9. \/ c = Call("write_file", 0) /\ r = <<>> /\ \A t : \A i \in 1..Len(s) : s[i] # Taking(t)
      \/ /\ Takes(r)
         /\ c = Call("list_notes", 0) \/ \E t \in CaTitles \ {CaItem} : c = Taking(t)
         /\ \A t : (\E i \in 1..Len(s) : s[i] = Taking(t)) => c = Taking(t) \/ \E i \in 1..Len(r) : r[i] = Taking(t)
  BY <1>2, <1>4, TakesTail
<1>10. QED
  BY <1>5, <1>7, <1>8, <1>9

(***************************************************************************)
(* Every call of a command, while nothing fails.                           *)
(***************************************************************************)
LEMMA WholeCallStep ==
  ASSUME NEW c, WholeStep(c)
  PROVE  WholeInv'
<1>1. WholeToDo(run.calls)
  BY DEF WholeStep, WholeInv
<1>2. QED
  BY <1>1, CaCallStep, BackupStep, GatherStep DEF WholeToDo

\* While nothing has failed.
WholeNow ==
    /\ WholeInv /\ LedgerState /\ RestoreState /\ Formed /\ OwnState /\ CaFirst /\ area = "ca" /\ faults = 0

(***************************************************************************)
(* Every command of the CA that starts, and what happens without a client. *)
(***************************************************************************)
LEMMA WholeMove ==
  ASSUME WholeNow, CaNext
  PROVE  WholeInv'
<1>1. WholeState /\ LedgerState /\ Formed /\ Counted /\ faults = 0
  BY DEF WholeNow, WholeInv, OwnState
<1>o. /\ \A next : CaCalls(FirstCalls(next)) /\ CaCalls(RebuildCalls(next))
      /\ \A d : CanIssue(d) => CaCalls(SignCalls(d))
      /\ \A calls \in ConfigCalls : CaCalls(calls)
      /\ CaCalls(ResignCalls) /\ CaCalls(<<Call("put_crl", {})>> \o Stored({}, {})) /\ CaCalls(RestoreCalls)
      /\ \A copy : CaCalls(<<Read(CaItem), Call("unreadable", 0), Call("replace_db", copy), Rows({}, copy)>>)
  BY CaCallsOf
<1>s. ASSUME NEW cmd, NEW calls, InApp(cmd, calls) \/ InCli(cmd, calls, <<>>), CaCalls(calls) \/ calls = BackupCalls
      PROVE  WholeInv'
  <2>1. vault' = vault /\ run'.calls = calls
    BY <1>1, <1>s, AppStarts, CliStarts DEF Starts
  <2>2. CASE CaCalls(calls)
    BY <1>1, <2>1, <2>2, WholeStays
  <2>3. CASE calls = BackupCalls
    <3>1. WholeState'
      BY <1>1, <2>1, WholeStays
    <3>2. BackupCalls' = BackupCalls
      BY DEF BackupCalls, Ordered
    <3>3. QED
      BY <2>1, <2>3, <3>1, <3>2 DEF WholeInv, WholeToDo
  <2>4. QED
    BY <1>s, <2>2, <2>3
<1>i. ASSUME run' = run, client = "none" \/ run = Idle PROVE run'.calls = <<>>
  BY <1>1, <1>i DEF Formed, Idle
<1>2. ASSUME InitCa \/ CliInit \/ \E next \in ImportSerial : CliImport(next) PROVE WholeInv'
  <2>1. PICK next, cmd : InApp(cmd, FirstCalls(next)) \/ InCli(cmd, FirstCalls(next), <<>>)
    BY <1>2 DEF InitCa, CliInit, CliImport
  <2>2. PICK calls : calls = FirstCalls(next)
    OBVIOUS
  <2>3. QED
    BY <1>o, <1>s, <2>1, <2>2
<1>3. ASSUME Sign \/ CliSign PROVE WholeInv'
  <2>1. PICK d, cmd : CanIssue(d) /\ (InApp(cmd, SignCalls(d)) \/ InCli(cmd, SignCalls(d), <<>>))
    BY <1>3 DEF Sign, CliSign
  <2>2. PICK calls : calls = SignCalls(d)
    OBVIOUS
  <2>3. QED
    BY <1>o, <1>s, <2>1, <2>2
<1>4. ASSUME UpdateConfig \/ CliConfigSet PROVE WholeInv'
  <2>1. PICK calls, cmd : calls \in ConfigCalls /\ (InApp(cmd, calls) \/ InCli(cmd, calls, <<>>))
    BY <1>4 DEF UpdateConfig, CliConfigSet
  <2>2. QED
    BY <1>o, <1>s, <2>1
<1>5. ASSUME ResignCa \/ CliResign \/ MakeCrl PROVE WholeInv'
  <2>1. PICK calls : calls = ResignCalls
    OBVIOUS
  <2>2. PICK crl : crl = <<Call("put_crl", {})>> \o Stored({}, {})
    OBVIOUS
  <2>3. \/ InApp("resign_ca", calls) \/ InCli("ca resign", calls, <<>>) \/ InApp("generate_crl", crl)
    BY <1>5, <2>1, <2>2 DEF ResignCa, CliResign, MakeCrl
  <2>4. CaCalls(calls) /\ CaCalls(crl)
    BY <1>o, <2>1, <2>2
  <2>5. QED
    BY <1>s, <2>3, <2>4
<1>6. ASSUME BackUpVault \/ CliBackUpVault \/ RestoreVault \/ CliRestoreVault PROVE WholeInv'
  <2>1. PICK calls, cmd : /\ InApp(cmd, calls) \/ InCli(cmd, calls, <<>>)
                          /\ calls = BackupCalls \/ calls = RestoreCalls
    BY <1>6 DEF BackUpVault, CliBackUpVault, RestoreVault, CliRestoreVault
  <2>2. QED
    BY <1>o, <1>s, <2>1
<1>7. ASSUME NEW given, CliRebuild(given) PROVE WholeInv'
  <2>1. PICK calls : calls = RebuildCalls(given)
    OBVIOUS
  <2>2. InCli("database rebuild", calls, <<>>) /\ CaCalls(calls)
    BY <1>7, <1>o, <2>1 DEF CliRebuild
  <2>3. QED
    BY <1>s, <2>2
<1>8. ASSUME NEW copy, RestoreLocalBackup(copy) PROVE WholeInv'
  <2>1. PICK calls : calls = <<Read(CaItem), Call("unreadable", 0), Call("replace_db", copy), Rows({}, copy)>>
    OBVIOUS
  <2>2. InApp("restore_local_backup", calls) /\ CaCalls(calls)
    BY <1>8, <1>o, <2>1 DEF RestoreLocalBackup
  <2>3. QED
    BY <1>s, <2>2
<1>9. ASSUME LoadCa PROVE WholeInv'
  <2>1. vault' = vault /\ run' = run /\ run = Idle
    BY <1>9 DEF LoadCa
  <2>2. QED
    BY <1>1, <1>i, <2>1, WholeStays
<1>10. ASSUME DatabaseRemoved PROVE WholeInv'
  BY <1>1, <1>10 DEF DatabaseRemoved, LedgerState
<1>11. ASSUME CreateVault PROVE WholeInv'
  <2>1. client = "none" /\ run' = run /\ vault' = [Empty EXCEPT !.file = vault.file]
    BY <1>11 DEF CreateVault
  <2>2. vault'.items = [t \in Title |-> 0] /\ vault'.file = vault.file
    BY <2>1 DEF Empty
  <2>3. WholeState'
    BY <1>1, <2>2 DEF WholeState, Whole
  <2>4. run'.calls = <<>> /\ CaCalls(<<>>)
    BY <1>i, <2>1, CaCallLists
  <2>5. (WholeToDo(run.calls))'
    BY <2>4 DEF WholeToDo, CaCalls, CaCall
  <2>6. QED
    BY <2>3, <2>5 DEF WholeInv
<1>12. QED
  BY <1>2, <1>3, <1>4, <1>5, <1>6, <1>7, <1>8, <1>9, <1>10, <1>11 DEF CaNext

RestoredInv ==
    IF area = "ca" THEN RestoreInv /\ (faults = 0 => WholeInv) ELSE run.cmd \notin Restores

(***************************************************************************)
(* What of DamageInv the steps of the CA's commands need.                  *)
(***************************************************************************)
LEMMA DamageParts ==
  ASSUME DamageInv
  PROVE  /\ Formed /\ Counted /\ faults \in Nat
         /\ area = "ca" => OwnInv /\ OwnState /\ CaFirst /\ (faults = 0 => LedgerState)
<1>1. CASE area = "csr"
  BY <1>1 DEF DamageInv, RowsInv, CallsInv, CsrInv
<1>2. CASE area # "csr"
  <2>1. OwnInv /\ (area = "ca" => CaFirst) /\ faults \in Nat
    BY <1>2 DEF DamageInv, RowsInv, CallsInv
  <2>2. Formed /\ OwnState /\ Counted
    BY <2>1 DEF OwnInv, OwnState
  <2>3. area = "ca" => (faults = 0 => LedgerState)
    BY DEF DamageInv, FirstFailure, LedgerInv
  <2>4. QED
    BY <2>1, <2>2, <2>3
<1>3. QED
  BY <1>1, <1>2

(***************************************************************************)
(* It holds at first, in an empty vault without a backup.                  *)
(***************************************************************************)
LEMMA RestoredStart == Init => RestoredInv
<1> SUFFICES ASSUME Init PROVE RestoredInv
  OBVIOUS
<1>1. PICK F : /\ F # {} => area \in {"openvpn", "profiles"}
               /\ vault = [Empty EXCEPT !.fields = F, !.items[OpenVpn] = IF F = {} THEN 0 ELSE 1,
                                        !.saved = IF area \in {"cert", "marks"} THEN {Serial(1)} ELSE {}]
  BY DEF Init
<1>2. db = {} /\ run.calls = <<>> /\ run.cmd \notin Restores
  BY DEF Init, Idle, Restores
<1>3. ASSUME area = "ca" PROVE RestoreInv /\ WholeInv
  <2>1. /\ vault.items = [[t \in Title |-> 0] EXCEPT ![OpenVpn] = 0]
        /\ vault.saved = {} /\ vault.file = NoFile /\ vault.draft = NoFile
    BY <1>1, <1>3 DEF Empty
  <2>2. \A t \in Title : vault.items[t] = 0
    BY <2>1
  <2>3. Fit(NoFile)
    BY DEF Fit, NoFile
  <2>4. TakesOwn(<<>>)
    <3>1. PICK S : S = {}
      OBVIOUS
    <3>2. <<>> \in Seq(S) /\ \A c \in S : c.do = "take" => c.of \in CaTitles
      BY <3>1
    <3>3. QED
      BY <3>2 DEF TakesOwn
  <2>5. RestoreInv
    BY <1>2, <2>1, <2>2, <2>3, <2>4 DEF RestoreInv, RestoreState, RestoreRun
  <2>6. WholeState
    BY <2>1, <2>2 DEF WholeState
  <2>7. WholeToDo(run.calls)
    BY <1>2, CaCallLists DEF WholeToDo
  <2>8. QED
    BY <2>5, <2>6, <2>7 DEF WholeInv
<1>4. QED
  BY <1>2, <1>3 DEF RestoredInv

(***************************************************************************)
(* Where nothing of it changes, it holds on.                               *)
(***************************************************************************)
LEMMA RestoredRests ==
  ASSUME RestoredInv, UNCHANGED vars
  PROVE  RestoredInv'
<1>1. UNCHANGED <<area, vault, db, client, run, past, faults>>
  BY DEF vars
<1>2. PICK s : s = run.calls /\ s = run'.calls
  BY <1>1
<1>3. PuttingBack(s) => (PuttingBack(s))'
  BY <1>1 DEF PuttingBack, PutsBack, Left, PutBack, InFile, Ordered
<1>4. ASSUME RestoreInv PROVE RestoreInv'
  <2>1. RestoreState'
    BY <1>1, <1>4 DEF RestoreInv, RestoreState, Fit, TakesOwn
  <2>2. RestoreRun'
    BY <1>1, <1>2, <1>3, <1>4 DEF RestoreInv, RestoreRun
  <2>3. QED
    BY <2>1, <2>2 DEF RestoreInv
<1>5. ASSUME WholeInv PROVE WholeInv'
  <2>1. WholeState'
    BY <1>1, <1>5, WholeStays DEF WholeInv
  <2>2. Gathering(s) => (Gathering(s))'
    BY <1>1 DEF Gathering, DraftFits, TakesRest, Takes, Taking
  <2>3. BackupCalls' = BackupCalls
    BY DEF BackupCalls, Ordered
  <2>4. CaCalls(s) => (CaCalls(s))'
    BY DEF CaCalls, CaCall
  <2>5. (WholeToDo(s))'
    BY <1>2, <1>5, <2>2, <2>3, <2>4 DEF WholeInv, WholeToDo
  <2>6. (WholeToDo(run.calls))'
    BY <1>2, <2>5
  <2>7. QED
    BY <2>1, <2>6 DEF WholeInv
<1>6. QED
  BY <1>1, <1>4, <1>5 DEF RestoredInv

(***************************************************************************)
(* Every command keeps it.                                                 *)
(***************************************************************************)
LEMMA RestoredCommand ==
  ASSUME RestoredInv, DamageInv, CommandNext
  PROVE  RestoredInv'
<1>1. area' = area
  BY AreaStays
<1>2. /\ Formed /\ Counted /\ faults \in Nat
      /\ area = "ca" => OwnInv /\ OwnState /\ CaFirst /\ (faults = 0 => LedgerState)
  BY DamageParts
<1>f. faults' = 0 => faults = 0
  <2>1. Succeeds \/ Refused \/ Fails => faults' \in {faults, faults + 1}
    BY <1>2, CallSteps DEF Done, Lost
  <2>2. Ends \/ OpenApp \/ CloseApp \/ Crash => faults' \in {faults, faults + 1}
    BY <1>2, RestSteps DEF Rests
  <2>3. StartsInApp \/ StartsInCli \/ StartsList \/ NextOfList => faults' = faults
    BY DEF StartsInApp, StartsInCli, StartsList, NextOfList, InApp, InCli, BulkInApp, NextItem
  <2>4. Elsewhere => faults' = faults
    BY DEF Elsewhere, DeletedElsewhere, OlderClientAdds, Expire, DatabaseRemoved, CreateVault, LoadCa
  <2>5. faults' \in {faults, faults + 1}
    BY <2>1, <2>2, <2>3, <2>4, StepKinds
  <2>6. QED
    BY <1>2, <2>5
<1>3. CASE area # "ca"
  BY <1>1, <1>2, <1>3, NoRestores DEF RestoredInv
<1>4. CASE area = "ca"
  <2>1. OwnInv /\ OwnState /\ CaFirst /\ RestoreInv /\ RestoreState
    BY <1>2, <1>4 DEF RestoredInv, RestoreInv
  <2>2. faults = 0 => WholeNow
    BY <1>2, <1>4, <2>1 DEF RestoredInv, WholeNow
  <2>3. CASE CaNext
    <3>1. RestoreInv'
      BY <1>4, <2>1, <2>3, RestoreMove
    <3>2. faults' = 0 => faults = 0
      BY <1>f
    <3>3. faults = 0 => WholeInv'
      BY <2>2, <2>3, WholeMove
    <3>4. QED
      BY <1>1, <1>4, <3>1, <3>2, <3>3 DEF RestoredInv
  <2>4. CASE Succeeds \/ Refused \/ Fails
    <3>1. RestoreInv'
      BY <1>4, <2>1, <2>4, RestoreCall
    <3>2. PICK c : run.calls # <<>> /\ c = Head(run.calls) /\ (Done(c) \/ Lost(c))
      BY <1>2, <2>4, CallSteps
    <3>3. ASSUME faults' = 0 PROVE WholeInv'
      <4>1. \/ faults' = faults /\ Done(c)
            \/ /\ faults' = faults /\ ~Possible(c) /\ UNCHANGED <<vault, db>>
               /\ run'.calls = IF c.on = "stop" THEN <<>> ELSE Tail(run.calls)
            \/ faults' = faults + 1
        BY <3>2 DEF Done, Lost
      <4>2. faults' # faults + 1
        BY <1>2, <3>3
      <4>3. faults = 0
        BY <3>3, <4>1, <4>2
      <4>4. WholeStep(c)
        BY <1>4, <2>1, <2>2, <3>2, <4>1, <4>2, <4>3 DEF WholeStep, WholeNow
      <4>5. QED
        BY <4>4, WholeCallStep
    <3>4. QED
      BY <1>1, <1>4, <3>1, <3>3 DEF RestoredInv
  <2>5. CASE Ends \/ OpenApp \/ CloseApp \/ Crash
    <3>1. RestoreInv'
      BY <1>4, <2>1, <2>5, RestoreRests DEF Rests
    <3>2. ASSUME faults' = 0 PROVE WholeInv'
      <4>1. Crash => faults' = faults + 1
        BY DEF Crash
      <4>2. ~Crash
        BY <1>2, <3>2, <4>1
      <4>3. faults' = faults
        BY <2>5, <4>2 DEF Ends, OpenApp, CloseApp
      <4>4. WholeState
        BY <2>2, <3>2, <4>3 DEF WholeNow, WholeInv
      <4>5. vault' = vault /\ run'.calls = <<>>
        BY <1>2, <2>5, RestSteps DEF Rests, Idle
      <4>6. QED
        BY <4>4, <4>5, WholeStays
    <3>3. QED
      BY <1>1, <1>4, <3>1, <3>2 DEF RestoredInv
  <2>6. QED
    BY <1>4, <2>3, <2>4, <2>5 DEF CommandNext, CsrNext, DkimNext, OpenVpnNext, ProfileNext, CertNext, MarkNext
<1>5. QED
  BY <1>3, <1>4

(***************************************************************************)
(* What a restore that ends without an error has left.                     *)
(***************************************************************************)
LEMMA RestoredEnds ==
  ASSUME RestoredInv, DamageInv, run.cmd \in Restores, run.calls = <<>>, run.ok
  PROVE  /\ \A t \in Title : vault.items[t] = IF t \in vault.file.titles THEN 1 ELSE 0
         /\ vault.saved = vault.file.rows
         /\ faults = 0 =>
               /\ vault.saved = vault.file.was[2]
               /\ \A t \in Title : vault.items[t] = IF vault.file.was[1][t] = 1 THEN 1 ELSE 0
<1>1. area = "ca" /\ RestoreRun /\ RestoreState /\ (faults = 0 => WholeState)
  BY DEF RestoredInv, RestoreInv, WholeInv
<1>2. vault.file # NoFile /\ \E k \in 0..Len(Ordered) : PutsBack(<<>>, k)
  BY <1>1 DEF RestoreRun, PuttingBack
<1>3. PICK k \in 0..Len(Ordered) : PutsBack(<<>>, k)
  BY <1>2
<1>4. k = Len(Ordered)
  <2>1. PICK s : s = Left(k)
    OBVIOUS
  <2>2. s = <<>>
    BY <1>3, <2>1 DEF PutsBack
  <2>3. QED
    BY <2>1, <2>2, LeftLists
<1>5. vault.saved = vault.file.rows
  <2>1. k >= 2
    BY <1>4, OrderedOnce
  <2>2. QED
    BY <1>3, <2>1 DEF PutsBack
<1>6. \A t \in Title : vault.items[t] = IF t \in vault.file.titles THEN 1 ELSE 0
  <2>1. ASSUME NEW t \in CaTitles PROVE vault.items[t] = IF t \in vault.file.titles THEN 1 ELSE 0
    <3>1. PICK j \in 1..Len(Ordered) : Ordered[j] = t
      BY OrderedOnce
    <3>2. j <= k
      BY <1>4, <3>1, OrderedOnce
    <3>3. QED
      BY <1>3, <3>1, <3>2 DEF PutsBack, InFile
  <2>2. ASSUME NEW t \in Title \ CaTitles PROVE vault.items[t] = 0 /\ t \notin vault.file.titles
    BY <1>1, <1>3, <2>2 DEF PutsBack, RestoreState, Fit
  <2>3. QED
    BY <2>1, <2>2
<1>7. ASSUME faults = 0
      PROVE  /\ vault.saved = vault.file.was[2]
             /\ \A t \in Title : vault.items[t] = IF vault.file.was[1][t] = 1 THEN 1 ELSE 0
  <2>1. Whole(vault.file)
    BY <1>1, <1>2, <1>7 DEF WholeState
  <2>2. QED
    BY <1>5, <1>6, <2>1 DEF Whole
<1>8. QED
  BY <1>5, <1>6, <1>7

(***************************************************************************)
(* A vault_restore or `vault restore` that reports success has put back    *)
(* each item of the backup once and nothing else, with its database, for   *)
(* any names and failures: restore_backup refuses a vault with a CA, and   *)
(* stops at the first error.  When nothing ever failed, that is the        *)
(* database there was when create_backup made the file, and each item      *)
(* whose title named it alone: what it cannot read it leaves out, as the   *)
(* certificates that have one title after `ca import` with the CA's own    *)
(* serial as the next one, which is its default.                           *)
(***************************************************************************)
THEOREM RestoresWhole == Spec => RestoreWhole
<1>1. ASSUME RestoredInv, DamageInv, [Next]_<<vars, sessionVars, schemaVars, copyVars, watchVars>>
      PROVE  RestoredInv'
  <2>1. CASE UNCHANGED vars
    BY <1>1, <2>1, RestoredRests
  <2>2. CASE CommandNext
    BY <1>1, <2>2, RestoredCommand
  <2>3. QED
    BY <1>1, <2>1, <2>2 DEF Next, vars
<1>2. Spec => []RestoredInv
  BY <1>1, RestoredStart, DamageAlways, PTL DEF Spec
<1>3. RestoredInv /\ DamageInv
      => [(run.cmd \in {"vault_restore", "vault restore"} /\ run.calls = <<>> /\ run' = Idle
           /\ faults' = faults /\ run.ok)
          => /\ \A t \in Title : vault.items[t] = IF t \in vault.file.titles THEN 1 ELSE 0
             /\ vault.saved = vault.file.rows
             /\ faults = 0 =>
                   /\ vault.saved = vault.file.was[2]
                   /\ \A t \in Title : vault.items[t] = IF vault.file.was[1][t] = 1 THEN 1 ELSE 0]_vars
  BY RestoredEnds DEF Restores
<1>4. QED
  BY <1>2, <1>3, DamageAlways, PTL DEF RestoreWhole

=============================================================================
