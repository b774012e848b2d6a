----------------------------- MODULE VaultLock -----------------------------
(***************************************************************************)
(* The advisory lock of crates/opca-core/src/vault_lock.rs, as it is used  *)
(* by `withLock` of the desktop app and `with_lock` of the command line.   *)
(*                                                                         *)
(* An operation (Op) is one logical mutation that wants the lock; a        *)
(* process (Proc) is one running opCA, which keeps a single VaultLock      *)
(* value, so the operations of one app share its `held` field.  Every call *)
(* of the 1Password command line is one step: other operations, other      *)
(* machines and the clock move between any two of them, a call may fail,   *)
(* and a failed call may or may not have taken effect.                     *)
(*                                                                         *)
(* Time is in whole seconds, the resolution of `acquired_at`.  Process p   *)
(* reads now + skew[p].  The server's creation stamps are much finer: two  *)
(* locks can share one, but never a lock created before a listing and one  *)
(* created after it, so `stime` moves with every listing.                  *)
(***************************************************************************)
EXTENDS Integers, FiniteSets

CONSTANTS
    Op,             \* logical operations that take the lock
    Proc,           \* running opCA processes
    ProcOf,         \* the process an operation runs in
    Id,             \* item ids 1Password may hand out
    Leftover,       \* ids of CA_Lock items with no readable fields, there at start
    TTL,            \* ttl_seconds of every lock
    MaxSkew,        \* how far apart two process clocks may be
    MaxTime,        \* bound on now
    ServerStamps,   \* TRUE: every item's created_at can be parsed
    Faults          \* TRUE: calls fail and processes crash

ASSUME OpAssumption == Op # {} /\ ProcOf \in [Op -> Proc]
ASSUME IdAssumption == Id \subseteq Nat \ {0} /\ Leftover \subseteq Id
ASSUME TimeAssumption == TTL \in Nat /\ MaxSkew \in Nat /\ MaxTime \in Nat
ASSUME ModeAssumption == ServerStamps \in BOOLEAN /\ Faults \in BOOLEAN

VARIABLES
    now,        \* real time
    stime,      \* the server's stamp for an item created now
    skew,       \* offset of each process's clock
    stored,     \* the CA_Lock items in the vault
    used,       \* every id 1Password ever gave a CA_Lock
    created,    \* by id: the server's creation stamp, or NoStamp
    acquired,   \* by id: acquired_at as written by the holder, or Unreadable
    pc,         \* by operation: where it is in acquire / release
    at,         \* by operation: the clock reading taken for acquired_at
    mine,       \* by operation: the lock item it created
    toRead,     \* by operation: listed items not read yet
    rivals,     \* by operation: the other locks it has read
    byServer,   \* by operation: whether it ranks by the server's stamps
    heldId      \* by process: VaultLock.held's item id, NoId for None

vars == <<now, stime, skew, stored, used, created, acquired, pc, at, mine,
          toRead, rivals, byServer, heldId>>

NoId == 0
NoStamp == -1
Unreadable == -1

PCs == {"idle", "stamped", "created", "reading", "contesting", "losing", "running"}

TypeOK ==
    /\ now \in Nat /\ stime \in Nat
    /\ skew \in [Proc -> 0..MaxSkew]
    /\ used \subseteq Id /\ stored \subseteq used
    /\ created \in [Id -> Nat \cup {NoStamp}]
    /\ acquired \in [Id -> Nat \cup {Unreadable}]
    /\ pc \in [Op -> PCs]
    /\ at \in [Op -> Nat]
    /\ mine \in [Op -> used \cup {NoId}]
    /\ toRead \in [Op -> SUBSET used]
    /\ rivals \in [Op -> SUBSET used]
    /\ byServer \in [Op -> BOOLEAN]
    /\ heldId \in [Proc -> used \cup {NoId}]

-----------------------------------------------------------------------------
(* Reading and ranking locks *)

Clock(p) == now + skew[p]

\* Mutant: a lock is stale in the last second of its TTL already.
IsStaleAtTtl(p, i) == acquired[i] = Unreadable \/ Clock(p) - acquired[i] >= TTL

\* Missing or unreadable fields count as stale; else the reader's clock decides.
IsStale(p, i) == acquired[i] = Unreadable \/ Clock(p) - acquired[i] > TTL

\* Lock::rank: an unreadable time sorts first, the lower id among equals.
RankTime(server, i) == IF server THEN created[i] ELSE acquired[i]

Ahead(server, i, j) ==
    \/ RankTime(server, i) < RankTime(server, j)
    \/ RankTime(server, i) = RankTime(server, j) /\ i < j

\* The rival the contest loop handles next: the first one ahead of mine.
FirstAhead(o, r) ==
    /\ r \in rivals[o]
    /\ Ahead(byServer[o], r, mine[o])
    /\ \A q \in rivals[o] \ {r} : Ahead(byServer[o], r, q)

Acquiring(o) == pc[o] \in {"stamped", "created", "reading", "contesting", "losing"}

\* acquire_lock and release_lock hold the app's connection mutex throughout.
MutexFree(p) == \A o \in Op : ProcOf[o] = p => ~Acquiring(o)

\* Bound: an acquire starts only while an id is left for the item it will create.
IdsLeft == Cardinality(Id \ used) > Cardinality({o \in Op : pc[o] = "stamped"})

-----------------------------------------------------------------------------
Init ==
    /\ now = 0 /\ stime = 1
    /\ skew \in [Proc -> 0..MaxSkew]
    /\ stored = Leftover /\ used = Leftover
    /\ created = [i \in Id |-> IF i \in Leftover /\ ServerStamps THEN 0 ELSE NoStamp]
    /\ acquired = [i \in Id |-> Unreadable]
    /\ pc = [o \in Op |-> "idle"]
    /\ at = [o \in Op |-> 0]
    /\ mine = [o \in Op |-> NoId]
    /\ toRead = [o \in Op |-> {}]
    /\ rivals = [o \in Op |-> {}]
    /\ byServer = [o \in Op |-> FALSE]
    /\ heldId = [p \in Proc |-> NoId]

Goto(o, l) == pc' = [pc EXCEPT ![o] = l]

clocks == <<now, stime, skew>>
items == <<stored, used, created, acquired>>
contest == <<toRead, rivals, byServer>>

\* The operations in O end; what they kept on the stack is gone.
Return(O) ==
    /\ pc' = [o \in Op |-> IF o \in O THEN "idle" ELSE pc[o]]
    /\ at' = [o \in Op |-> IF o \in O THEN 0 ELSE at[o]]
    /\ mine' = [o \in Op |-> IF o \in O THEN NoId ELSE mine[o]]
    /\ toRead' = [o \in Op |-> IF o \in O THEN {} ELSE toRead[o]]
    /\ rivals' = [o \in Op |-> IF o \in O THEN {} ELSE rivals[o]]
    /\ byServer' = [o \in Op |-> IF o \in O THEN FALSE ELSE byServer[o]]

(* acquire: the fields are filled in, the clock included, before any call *)
Stamp(o) ==
    /\ pc[o] = "idle"
    /\ MutexFree(ProcOf[o])
    /\ IdsLeft
    /\ at' = [at EXCEPT ![o] = Clock(ProcOf[o])]
    /\ Goto(o, "stamped")
    /\ UNCHANGED <<clocks, items, mine, contest, heldId>>

\* The server files a new item for operation o under a fresh id.
NewItem(o, i) ==
    /\ i \in Id \ used
    /\ used' = used \cup {i}
    /\ stored' = stored \cup {i}
    /\ acquired' = [acquired EXCEPT ![i] = at[o]]
    /\ \E s \in IF ServerStamps THEN {stime} ELSE {stime, NoStamp} :
          created' = [created EXCEPT ![i] = s]

Create(o) ==
    /\ pc[o] = "stamped"
    /\ \E i \in Id :
          /\ NewItem(o, i)
          /\ mine' = [mine EXCEPT ![o] = i]
    /\ Goto(o, "created")
    /\ UNCHANGED <<clocks, at, contest, heldId>>

(* create_item answers an error: nothing is held; the item may exist anyway *)
CreateFails(o) ==
    /\ Faults
    /\ pc[o] = "stamped"
    /\ \/ UNCHANGED items
       \/ \E i \in Id : NewItem(o, i)
    /\ Return({o})
    /\ UNCHANGED <<clocks, heldId>>

(* contest: items_titled *)
ListRivals(o) ==
    /\ pc[o] = "created"
    /\ toRead' = [toRead EXCEPT ![o] = stored \ {mine[o]}]
    /\ rivals' = [rivals EXCEPT ![o] = {}]
    /\ stime' = stime + 1
    /\ Goto(o, "reading")
    /\ UNCHANGED <<now, skew, items, at, mine, byServer, heldId>>

\* Mutant: an item deleted since the listing is asked for again.
ReadRivalAgain(o) ==
    /\ pc[o] = "reading"
    /\ \E i \in toRead[o] :
          /\ toRead' = [toRead EXCEPT ![o] = @ \ ({i} \cap stored)]
          /\ rivals' = [rivals EXCEPT ![o] = @ \cup ({i} \cap stored)]
    /\ UNCHANGED <<clocks, items, pc, at, mine, byServer, heldId>>

(* contest: read_lock, which skips an item deleted since the listing *)
ReadRival(o) ==
    /\ pc[o] = "reading"
    /\ \E i \in toRead[o] :
          /\ toRead' = [toRead EXCEPT ![o] = @ \ {i}]
          /\ rivals' = [rivals EXCEPT ![o] = IF i \in stored THEN @ \cup {i} ELSE @]
    /\ UNCHANGED <<clocks, items, pc, at, mine, byServer, heldId>>

(* contest: the server's stamps rank the locks only when all are known *)
RankRivals(o) ==
    /\ pc[o] = "reading"
    /\ toRead[o] = {}
    /\ byServer' = [byServer EXCEPT
                      ![o] = \A i \in rivals[o] \cup {mine[o]} : created[i] # NoStamp]
    /\ Goto(o, "contesting")
    /\ UNCHANGED <<clocks, items, at, mine, toRead, rivals, heldId>>

\* Mutant: any rival ahead is deleted.
BreakAny(o) ==
    /\ pc[o] = "contesting"
    /\ \E r \in used :
          /\ FirstAhead(o, r)
          /\ stored' = stored \ {r}
          /\ rivals' = [rivals EXCEPT ![o] = @ \ {r}]
    /\ UNCHANGED <<clocks, used, created, acquired, pc, at, mine, toRead, byServer, heldId>>

(* contest: a stale rival ahead is deleted by id *)
BreakStale(o) ==
    /\ pc[o] = "contesting"
    /\ \E r \in used :
          /\ FirstAhead(o, r)
          /\ IsStale(ProcOf[o], r)
          /\ stored' = stored \ {r}
          /\ rivals' = [rivals EXCEPT ![o] = @ \ {r}]
    /\ UNCHANGED <<clocks, used, created, acquired, pc, at, mine, toRead, byServer, heldId>>

(* contest: a live rival ahead wins *)
Yield(o) ==
    /\ pc[o] = "contesting"
    /\ \E r \in used : FirstAhead(o, r) /\ ~IsStale(ProcOf[o], r)
    /\ Goto(o, "losing")
    /\ UNCHANGED <<clocks, items, at, mine, contest, heldId>>

(* contest: a list, read or delete fails, the delete perhaps having worked *)
ContestFails(o) ==
    /\ Faults
    /\ \/ pc[o] \in {"created", "reading"} /\ UNCHANGED stored
       \/ /\ pc[o] = "contesting"
          /\ \E r \in used :
                /\ FirstAhead(o, r)
                /\ IsStale(ProcOf[o], r)
                /\ stored' \in {stored, stored \ {r}}
    /\ Goto(o, "losing")
    /\ UNCHANGED <<clocks, used, created, acquired, at, mine, contest, heldId>>

(* acquire: no rival is ahead; `held` is set *)
Win(o) ==
    /\ pc[o] = "contesting"
    /\ ~ \E r \in rivals[o] : Ahead(byServer[o], r, mine[o])
    /\ heldId' = [heldId EXCEPT ![ProcOf[o]] = mine[o]]
    /\ Goto(o, "running")
    /\ UNCHANGED <<clocks, items, at, mine, contest>>

\* Mutant: the loser leaves its copy in the vault.
DropNothing(o) ==
    /\ pc[o] = "losing"
    /\ Return({o})
    /\ UNCHANGED <<clocks, items, heldId>>

(* acquire: the loser deletes its own copy, ignoring the outcome *)
DropOwn(o) ==
    /\ pc[o] = "losing"
    /\ stored' \in {stored \ {mine[o]}} \cup (IF Faults THEN {stored} ELSE {})
    /\ Return({o})
    /\ UNCHANGED <<clocks, used, created, acquired, heldId>>

(* release: deletes whatever item the process holds *)
Release(o) ==
    LET p == ProcOf[o] IN
    /\ pc[o] = "running"
    /\ MutexFree(p)
    /\ stored' = stored \ {heldId[p]}
    /\ heldId' = [heldId EXCEPT ![p] = NoId]
    /\ Return({o})
    /\ UNCHANGED <<clocks, used, created, acquired>>

(* release: the delete reports an error, so `held` stays; the operation ends *)
ReleaseFails(o) ==
    LET p == ProcOf[o] IN
    /\ Faults
    /\ pc[o] = "running"
    /\ MutexFree(p)
    /\ heldId[p] # NoId
    /\ stored' \in {stored, stored \ {heldId[p]}}
    /\ Return({o})
    /\ UNCHANGED <<clocks, used, created, acquired, heldId>>

(* a process dies: what it held and did is forgotten, its items stay *)
Crash(p) ==
    /\ Faults
    /\ \E o \in Op : ProcOf[o] = p /\ pc[o] # "idle"
    /\ Return({o \in Op : ProcOf[o] = p})
    /\ heldId' = [heldId EXCEPT ![p] = NoId]
    /\ UNCHANGED <<clocks, items>>

Tick ==
    /\ now < MaxTime
    /\ now' = now + 1
    /\ UNCHANGED <<stime, skew, items, pc, at, mine, contest, heldId>>

\* What an operation does on its own once it has asked for the lock.
AcquireStep(o) ==
    \/ Create(o) \/ CreateFails(o)
    \/ ListRivals(o) \/ ReadRival(o) \/ RankRivals(o)
    \/ BreakStale(o) \/ Yield(o) \/ ContestFails(o)
    \/ Win(o) \/ DropOwn(o)

Next ==
    \/ \E o \in Op : Stamp(o) \/ AcquireStep(o) \/ Release(o) \/ ReleaseFails(o)
    \/ \E p \in Proc : Crash(p)
    \/ Tick

Spec == Init /\ [][Next]_vars

\* Each call is a child process that ends with an answer or an error.
Fairness == \A o \in Op : WF_vars(AcquireStep(o))

FairSpec == Spec /\ Fairness

-----------------------------------------------------------------------------
(* Properties *)

\* No clock within the skew bound judges item i stale yet.
FreshToAll(i) == acquired[i] # Unreadable /\ now + MaxSkew - acquired[i] <= TTL

Guarded(o) == pc[o] = "running" /\ FreshToAll(mine[o])

(***************************************************************************)
(* Mutual exclusion of acquire (vault_lock.rs 104-169): two operations     *)
(* never both run under locks that no clock calls stale, whatever the      *)
(* order of creates, listings, reads and deletes, and whatever fails.      *)
(***************************************************************************)
MutualExclusion ==
    \A o1, o2 \in Op : Guarded(o1) /\ Guarded(o2) => o1 = o2

(***************************************************************************)
(* A running operation's lock item is in the vault while it is fresh:      *)
(* contest deletes only stale rivals and release only its own lock.        *)
(***************************************************************************)
GuardedLockStored ==
    \A o \in Op : Guarded(o) => mine[o] \in stored

(***************************************************************************)
(* Without failures no CA_Lock outlives its operation: the winner releases *)
(* it, and a loser deletes its own copy (acquire's error arm).             *)
(***************************************************************************)
NoOrphanedLock ==
    ~Faults => \A i \in stored \ Leftover :
                  \E o \in Op : pc[o] # "idle" /\ (mine[o] = i \/ heldId[ProcOf[o]] = i)

(***************************************************************************)
(* Every acquire ends, with the lock or an error, even when the rivals it  *)
(* listed are deleted before it reads or breaks them.                      *)
(***************************************************************************)
AcquireTerminates ==
    \A o \in Op : Acquiring(o) ~> ~Acquiring(o)

-----------------------------------------------------------------------------
(* The inductive invariant behind MutualExclusion.  It needs one operation *)
(* at a time per process and readable creation stamps.                     *)

OneOpPerProcess == \A o1, o2 \in Op : ProcOf[o1] = ProcOf[o2] => o1 = o2

\* Its item is in the vault and not yet withdrawn.
Contender(o) == pc[o] \in {"created", "reading", "contesting", "running"}

Listed(o) == pc[o] \in {"reading", "contesting", "running"}

Owner(o) == Contender(o) \/ pc[o] = "losing"

StampsKnown == \A i \in used : created[i] \in Nat /\ created[i] <= stime

OwnItem == \A o \in Op : Owner(o) => mine[o] \in used

OwnItemsDiffer ==
    \A o1, o2 \in Op : Owner(o1) /\ Owner(o2) /\ mine[o1] = mine[o2] => o1 = o2

\* Items created after a listing are stamped later than the lister's own.
ListedEarlier == \A o \in Op : Listed(o) => created[mine[o]] < stime

FreshStored ==
    \A o \in Op : Contender(o) /\ FreshToAll(mine[o]) => mine[o] \in stored

HeldIsMine == \A o \in Op : pc[o] = "running" => heldId[ProcOf[o]] = mine[o]

RankedByServer == \A o \in Op : pc[o] = "contesting" => byServer[o]

\* Whoever has listed still has every fresh lock ahead of its own to face.
FacesAhead(o1, o2) ==
    Contender(o1) /\ Listed(o2) /\ FreshToAll(mine[o1]) /\ Ahead(TRUE, mine[o1], mine[o2])
      => \/ pc[o2] = "reading" /\ mine[o1] \in toRead[o2] \cup rivals[o2]
         \/ pc[o2] = "contesting" /\ mine[o1] \in rivals[o2]

AllFacesAhead == \A o1, o2 \in Op : FacesAhead(o1, o2)

LockInv ==
    /\ TypeOK
    /\ StampsKnown
    /\ OwnItem
    /\ OwnItemsDiffer
    /\ ListedEarlier
    /\ FreshStored
    /\ HeldIsMine
    /\ RankedByServer
    /\ AllFacesAhead

=============================================================================
