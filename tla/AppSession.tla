----------------------------- MODULE AppSession -----------------------------
(***************************************************************************)
(* The desktop app's session (crates/opca-tauri/src/state.rs and the       *)
(* commands on it) while its operator goes from one vault to another.      *)
(* Every command holds the connection's mutex, so a command is one step;   *)
(* what the app does between commands, and in the background, is not: the  *)
(* frontend's withLock is three commands, sync_brokers lets go of the      *)
(* connection while it asks, and the upload to the private store and the   *)
(* save after a backfill run on threads of their own.                      *)
(***************************************************************************)
EXTENDS Integers, Sequences, FiniteSets

CONSTANTS
    Vault,          \* the vaults the operator connects to
    NoVault,
    MaxSession,     \* bound on connections
    MaxJob,         \* bound on work waiting in the background, 1 with a lock amiss
    MaxFailed       \* bound on vaults with a lock amiss when another deletion fails

ASSUME SessionAssumption ==
    NoVault \notin Vault /\ MaxSession \in Nat \ {0} /\ MaxJob \in Nat \ {0} /\ MaxFailed \in Nat

VARIABLES
    conn,       \* Connection: the vault, the CA loaded from it, the operator minted
    stored,     \* CA_Database of each vault
    held,       \* the vault of the lock item that VaultLock has, or NoVault
    orphans,    \* vaults with lock items of this app that VaultLock no longer has
    amiss,      \* where a lock's deletion failed or the connection was replaced under a lock
    flow,       \* where each withLock is
    asked,      \* of sync_brokers: the vault and the session it asked for
    mirror,     \* the private store's copy of each vault's database
    synced,     \* last_private_store_sync
    jobs,       \* uploads not run yet
    persist,    \* a save after a backfill is due
    key         \* the vault of the preloaded private key

locking == <<held, orphans, amiss>>
sessionVars == <<conn, stored, locking, flow, asked, mirror, synced, jobs, persist, key>>

Flow == {"edit", "brokers"}     \* an operator's command, the sync in the background

\* A database: the vault it is of, its content, and whether another CA's brokers answered it.
Database == [of : Vault, rows : 0..1, mixed : BOOLEAN]
NoDb == [of |-> NoVault, rows |-> 0, mixed |-> FALSE]
Unsure == [NoDb EXCEPT !.rows = 1]     \* an upload failed that may have arrived
NoConn == [vault |-> NoVault, ca |-> NoDb, operator |-> 0, session |-> 0]
NotAsked == [vault |-> NoVault, operator |-> 0]

SessionInit ==
    /\ conn = NoConn
    /\ stored = [v \in Vault |-> [NoDb EXCEPT !.of = v]]
    /\ held = NoVault /\ orphans = {} /\ amiss = {}
    /\ flow = [f \in Flow |-> "idle"]
    /\ asked = NotAsked
    /\ mirror = [v \in Vault |-> NoDb] /\ synced = NoDb /\ jobs = <<>>
    /\ persist = FALSE /\ key = NoVault

Connected == conn.vault # NoVault

\* ensure_ca: what is in memory, or the vault's.
Ca == IF conn.ca = NoDb THEN stored[conn.vault] ELSE conn.ca
WithCa == [conn EXCEPT !.ca = Ca]

\* replace_connection.
ReplaceConnection(next) == conn' = next /\ key' = NoVault

\* The vault's lock item that VaultLock has, as a set.
HeldIn == {held} \ {NoVault}

\* VaultLock::release against the vault at hand: a lock of another one is not found there.
Released ==
    /\ held' = NoVault
    /\ orphans' = orphans \cup (HeldIn \ {conn.vault})
    /\ amiss' = amiss \ ((HeldIn \cap {conn.vault}) \ orphans)

\* A bound: no deletion of a lock fails while work in the background waits, which needs no lock.
MayFail == jobs = <<>> /\ ~persist /\ Cardinality(amiss) < MaxFailed

\* 1Password fails to delete it: the item stays, and VaultLock still has it.
ReleaseFails == MayFail /\ HeldIn # {} /\ amiss' = amiss \cup HeldIn /\ UNCHANGED <<held, orphans>>

\* connect, which may replace another connection: a lock held there stays.
Connect(v) ==
    /\ conn.session < MaxSession
    /\ ReplaceConnection([NoConn EXCEPT !.vault = v, !.session = conn.session + 1])
    /\ amiss' = IF Connected THEN amiss \cup HeldIn ELSE amiss
    /\ UNCHANGED <<stored, held, orphans, flow, asked, mirror, synced, jobs, persist>>

\* Mutant: the lock is left to the command that took it.
DisconnectOnly ==
    /\ Connected
    /\ ReplaceConnection([NoConn EXCEPT !.session = conn.session])
    /\ UNCHANGED <<stored, locking, flow, asked, mirror, synced, jobs, persist>>

\* disconnect: the lock is released, whoever took it, if that succeeds.
Disconnect ==
    /\ Connected
    /\ Released \/ ReleaseFails
    /\ ReplaceConnection([NoConn EXCEPT !.session = conn.session])
    /\ UNCHANGED <<stored, flow, asked, mirror, synced, jobs, persist>>

-----------------------------------------------------------------------------
(* withLock *)

\* acquire_lock: refused while the app has a lock there; one left there is stale in the end.
AcquireLock(f) ==
    /\ flow[f] = "idle" /\ Connected /\ conn.vault \notin HeldIn \ amiss
    /\ held' = conn.vault
    /\ orphans' = (orphans \cup HeldIn) \ {conn.vault}
    /\ amiss' = amiss \ {conn.vault}
    /\ flow' = [flow EXCEPT ![f] = "locked"]
    /\ UNCHANGED <<conn, stored, asked, mirror, synced, jobs, persist, key>>

\* It is refused, or fails, and the new item cannot be deleted either.
AcquireFails ==
    /\ MayFail /\ Connected /\ \E f \in Flow : flow[f] = "idle"
    /\ orphans' = orphans \cup {conn.vault} /\ amiss' = amiss \cup {conn.vault}
    /\ UNCHANGED <<conn, stored, held, flow, asked, mirror, synced, jobs, persist, key>>

\* An operator's command: the database changes, in the vault too (Commands has failing saves).
Edit ==
    /\ flow["edit"] = "locked"
    /\ flow' = [flow EXCEPT !["edit"] = "acted"]
    /\ IF Connected
       THEN LET db == [Ca EXCEPT !.rows = 1 - @]
            IN  /\ conn' = [conn EXCEPT !.ca = db]
                /\ stored' = [stored EXCEPT ![conn.vault] = db]
       ELSE UNCHANGED <<conn, stored>>
    /\ UNCHANGED <<locking, asked, mirror, synced, jobs, persist, key>>

\* sync_brokers asks, with the operator of this session, and lets go of the connection.
AskBrokers ==
    /\ flow["brokers"] = "locked"
    /\ IF Connected
       THEN /\ flow' = [flow EXCEPT !["brokers"] = "asking"]
            /\ conn' = [WithCa EXCEPT !.operator = conn.session]
            /\ asked' = [vault |-> conn.vault, operator |-> conn.session]
       ELSE flow' = [flow EXCEPT !["brokers"] = "acted"] /\ UNCHANGED <<conn, asked>>
    /\ UNCHANGED <<stored, locking, mirror, synced, jobs, persist, key>>

\* Mutant: the answers are recorded in whatever CA is there now.
StillThere == Connected

\* A reconnect drops the operator, and with it the answers.
SameSession == Connected /\ conn.operator = asked.operator

RecordAnswers ==
    /\ flow["brokers"] = "asking"
    /\ flow' = [flow EXCEPT !["brokers"] = "acted"]
    /\ IF SameSession
       THEN LET db == [Ca EXCEPT !.rows = 1 - @, !.mixed = @ \/ asked.vault # conn.vault]
            IN  /\ conn' = [conn EXCEPT !.ca = db]
                /\ stored' = [stored EXCEPT ![conn.vault] = db]
       ELSE conn' = (IF Connected THEN WithCa ELSE conn) /\ UNCHANGED stored
    /\ asked' = NotAsked
    /\ UNCHANGED <<locking, mirror, synced, jobs, persist, key>>

\* release_lock, in whatever vault is connected now; if it is refused or fails, withLock ends.
ReleaseLock(f) ==
    /\ flow[f] = "acted"
    /\ \/ Connected /\ Released /\ flow' = [flow EXCEPT ![f] = "released"]
       \/ Connected /\ ReleaseFails /\ flow' = [flow EXCEPT ![f] = "idle"]
       \/ ~Connected /\ flow' = [flow EXCEPT ![f] = "idle"] /\ UNCHANGED locking
    /\ UNCHANGED <<conn, stored, asked, mirror, synced, jobs, persist, key>>

-----------------------------------------------------------------------------
(* In the background *)

\* Uploads and the save after a backfill that are not done yet.
Waiting == Len(jobs) + IF persist THEN 1 ELSE 0
HasRoom == Waiting < IF amiss = {} THEN MaxJob ELSE 1

Skips == Connected /\ Ca = synced

\* sync_private_store, after each withLock: a snapshot for later, if anything changed.
SyncPrivateStore(f) ==
    /\ flow[f] = "released" /\ HasRoom
    /\ flow' = [flow EXCEPT ![f] = "idle"]
    /\ conn' = IF Connected THEN WithCa ELSE conn
    /\ jobs' = IF Connected /\ ~Skips THEN Append(jobs, Ca) ELSE jobs
    /\ UNCHANGED <<stored, locking, asked, mirror, synced, persist, key>>

Without(i) == SubSeq(jobs, 1, i - 1) \o SubSeq(jobs, i + 1, Len(jobs))

\* Mutant: the fingerprint is noted before the upload.
NotedFirst(i) ==
    /\ jobs' = Without(i) /\ synced' = jobs[i]
    /\ mirror' \in {[mirror EXCEPT ![jobs[i].of] = d] : d \in {jobs[i], Unsure, mirror[jobs[i].of]}}
    /\ UNCHANGED <<conn, stored, locking, flow, asked, persist, key>>

\* Uploads run one at a time, in any order; one that fails may have arrived.
Upload(i) ==
    /\ jobs' = Without(i)
    /\ \/ mirror' = [mirror EXCEPT ![jobs[i].of] = jobs[i]] /\ synced' = jobs[i]
       \/ mirror' = [mirror EXCEPT ![jobs[i].of] = Unsure] /\ UNCHANGED synced
       \/ UNCHANGED <<mirror, synced>>
    /\ UNCHANGED <<conn, stored, locking, flow, asked, persist, key>>

\* backfill_cert: the key is kept at hand; a row filled in is saved later.
Backfill ==
    /\ Connected
    /\ key' = conn.vault
    /\ \/ conn' = WithCa /\ UNCHANGED persist
       \/ /\ HasRoom /\ ~persist /\ persist' = TRUE
          /\ conn' = [conn EXCEPT !.ca = [Ca EXCEPT !.rows = 1 - @]]
    /\ UNCHANGED <<stored, locking, flow, asked, mirror, synced, jobs>>

\* The save takes the connection as it is then: that CA, in its own vault.
Persist ==
    /\ persist /\ persist' = FALSE
    /\ stored' = IF conn.ca = NoDb THEN stored ELSE [stored EXCEPT ![conn.vault] = conn.ca]
    /\ UNCHANGED <<conn, locking, flow, asked, mirror, synced, jobs, key>>

ForgetPreloadedKey ==
    /\ key # NoVault /\ key' = NoVault
    /\ UNCHANGED <<conn, stored, locking, flow, asked, mirror, synced, jobs, persist>>

SessionNext ==
    \/ \E v \in Vault : Connect(v)
    \/ Disconnect \/ AcquireFails \/ Edit \/ AskBrokers \/ RecordAnswers
    \/ Backfill \/ Persist \/ ForgetPreloadedKey
    \/ \E f \in Flow : AcquireLock(f) \/ ReleaseLock(f) \/ SyncPrivateStore(f)
    \/ \E i \in 1..Len(jobs) : Upload(i)

SessionTypeOK ==
    /\ conn \in [vault : Vault \cup {NoVault}, ca : Database \cup {NoDb},
                 operator : 0..MaxSession, session : 0..MaxSession]
    /\ stored \in [Vault -> Database] /\ mirror \in [Vault -> Database \cup {NoDb, Unsure}]
    /\ orphans \cup amiss \subseteq Vault /\ {held, key, asked.vault} \subseteq Vault \cup {NoVault}
    /\ flow \in [Flow -> {"idle", "locked", "asking", "acted", "released"}]
    /\ asked.operator \in 0..MaxSession
    /\ synced \in Database \cup {NoDb} /\ jobs \in Seq(Database) /\ Len(jobs) <= MaxJob
    /\ persist \in BOOLEAN

-----------------------------------------------------------------------------
(* Properties *)

(* Whatever vaults the app was connected to, the database saved in a vault *)
(* and the one in its private store are that vault's own, unmixed with     *)
(* what another vault's brokers answered, and so are the CA and the        *)
(* preloaded key in memory.                                                *)
OwnVault ==
    /\ \A v \in Vault : /\ stored[v].of = v /\ ~stored[v].mixed
                        /\ mirror[v].of \in {v, NoVault} /\ ~mirror[v].mixed
    /\ conn.ca # NoDb => conn.ca.of = conn.vault /\ ~conn.ca.mixed
    /\ key # NoVault => key = conn.vault

(* The app leaves no lock behind by itself: with no withLock under way, a  *)
(* lock item of its own is only in a vault where deleting it failed, or    *)
(* where connect went to another vault under the lock, and no longer once  *)
(* an operation has the lock there.  The release may be another withLock's *)
(* than took the lock, in another vault, or disconnect's.                  *)
LocksCleanedUp ==
    (\A f \in Flow : flow[f] \in {"idle", "released"}) => orphans \cup HeldIn \subseteq amiss

(* When sync_private_store skips, the private store has the database, or   *)
(* an upload of another failed since that may have arrived.                *)
SkippedIsUploaded ==
    [][\A f \in Flow : (flow[f] = "released" /\ flow'[f] = "idle" /\ Skips) =>
          mirror[conn.vault] \in {Ca, Unsure}]_sessionVars

=============================================================================
