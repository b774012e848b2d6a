-------------------------- MODULE VaultLockProofs --------------------------
(* Proofs about VaultLock, for any operations, ids, TTL and skew bound. *)
EXTENDS VaultLock, TLAPS

-----------------------------------------------------------------------------
(***************************************************************************)
(* Every step keeps the types of the lock's state: among them that an      *)
(* operation's own item, its rivals and the held id are ids 1Password did  *)
(* hand out.                                                               *)
(***************************************************************************)
LEMMA TypeStep == TypeOK /\ [Next]_vars => TypeOK'
<1> SUFFICES ASSUME TypeOK, [Next]_vars PROVE TypeOK'
  OBVIOUS
<1> USE OpAssumption, IdAssumption, TimeAssumption, ModeAssumption
<1>c. \A p \in Proc : Clock(p) \in Nat
  BY DEF TypeOK, Clock
<1>1. ASSUME NEW o \in Op, Stamp(o) PROVE TypeOK'
  <2>1. ProcOf[o] \in Proc
    OBVIOUS
  <2>2. Clock(ProcOf[o]) \in Nat
    BY <1>c, <2>1
  <2>3. QED
    BY <1>1, <2>2 DEF TypeOK, Stamp, Goto, clocks, items, contest, PCs
<1>n. ASSUME NEW o \in Op, NEW i \in Id, NewItem(o, i)
      PROVE  /\ used' \subseteq Id /\ stored' \subseteq used' /\ used \subseteq used' /\ i \in used'
             /\ created' \in [Id -> Nat \cup {NoStamp}]
             /\ acquired' \in [Id -> Nat \cup {Unreadable}]
  BY <1>n DEF TypeOK, NewItem
<1>2. ASSUME NEW o \in Op, Create(o) PROVE TypeOK'
  <2>1. PICK i \in Id : NewItem(o, i) /\ mine' = [mine EXCEPT ![o] = i]
    BY <1>2 DEF Create
  <2>2. QED
    BY <1>2, <1>n, <2>1 DEF TypeOK, Create, Goto, clocks, contest, PCs
<1>r. ASSUME NEW O, Return(O), used \subseteq used'
      PROVE  /\ pc' \in [Op -> PCs] /\ at' \in [Op -> Nat]
             /\ mine' \in [Op -> used' \cup {NoId}]
             /\ toRead' \in [Op -> SUBSET used'] /\ rivals' \in [Op -> SUBSET used']
             /\ byServer' \in [Op -> BOOLEAN]
  BY <1>r DEF TypeOK, Return, PCs
<1>3. ASSUME NEW o \in Op, CreateFails(o) PROVE TypeOK'
  <2>1. used \subseteq used'
    BY <1>3, <1>n DEF CreateFails, items
  <2>2. CASE UNCHANGED items
    BY <1>3, <1>r, <2>1, <2>2 DEF TypeOK, CreateFails, items, clocks
  <2>3. CASE \E i \in Id : NewItem(o, i)
    BY <1>3, <1>r, <1>n, <2>1, <2>3 DEF TypeOK, CreateFails, clocks
  <2>4. QED
    BY <1>3, <2>2, <2>3 DEF CreateFails
<1>4. ASSUME NEW o \in Op, ListRivals(o) PROVE TypeOK'
  <2>1. stored \ {mine[o]} \in SUBSET used /\ {} \in SUBSET used
    BY DEF TypeOK
  <2>2. toRead' \in [Op -> SUBSET used] /\ rivals' \in [Op -> SUBSET used]
    BY <1>4, <2>1 DEF TypeOK, ListRivals
  <2>3. QED
    BY <1>4, <2>2 DEF TypeOK, ListRivals, Goto, items, PCs
<1>5. ASSUME NEW o \in Op, ReadRival(o) PROVE TypeOK'
  BY <1>5 DEF TypeOK, ReadRival, clocks, items, PCs
<1>6. ASSUME NEW o \in Op, RankRivals(o) PROVE TypeOK'
  BY <1>6 DEF TypeOK, RankRivals, Goto, clocks, items, PCs
<1>7. ASSUME NEW o \in Op, BreakStale(o) PROVE TypeOK'
  BY <1>7 DEF TypeOK, BreakStale, clocks, PCs
<1>8. ASSUME NEW o \in Op, Yield(o) PROVE TypeOK'
  BY <1>8 DEF TypeOK, Yield, Goto, clocks, items, contest, PCs
<1>9. ASSUME NEW o \in Op, ContestFails(o) PROVE TypeOK'
  BY <1>9 DEF TypeOK, ContestFails, Goto, clocks, contest, PCs
<1>10. ASSUME NEW o \in Op, Win(o) PROVE TypeOK'
  BY <1>10 DEF TypeOK, Win, Goto, clocks, items, contest, PCs
<1>11. ASSUME NEW o \in Op, DropOwn(o) PROVE TypeOK'
  BY <1>11, <1>r DEF TypeOK, DropOwn, clocks
<1>12. ASSUME NEW o \in Op, Release(o) PROVE TypeOK'
  BY <1>12, <1>r DEF TypeOK, Release, clocks
<1>13. ASSUME NEW o \in Op, ReleaseFails(o) PROVE TypeOK'
  BY <1>13, <1>r DEF TypeOK, ReleaseFails, clocks
<1>14. ASSUME NEW p \in Proc, Crash(p) PROVE TypeOK'
  BY <1>14, <1>r DEF TypeOK, Crash, clocks, items
<1>15. CASE Tick
  BY <1>15 DEF TypeOK, Tick, items, contest, PCs
<1>16. CASE UNCHANGED vars
  BY <1>16 DEF TypeOK, vars, PCs
<1>17. QED
  BY <1>1, <1>2, <1>3, <1>4, <1>5, <1>6, <1>7, <1>8, <1>9, <1>10, <1>11, <1>12,
     <1>13, <1>14, <1>15, <1>16 DEF Next, AcquireStep

(***************************************************************************)
(* The type invariant of the lock holds in every reachable state.          *)
(***************************************************************************)
THEOREM TypeCorrect == Spec => []TypeOK
<1>1. Init => TypeOK
  BY OpAssumption, IdAssumption, TimeAssumption, ModeAssumption
     DEF Init, TypeOK, PCs, NoStamp, Unreadable, NoId
<1>2. QED
  BY <1>1, TypeStep, PTL DEF Spec

-----------------------------------------------------------------------------
(* Mutual exclusion *)

(***************************************************************************)
(* Locks are immutable once created, ids are never reused, and a lock that *)
(* is fresh after a step was fresh before it: time only moves forward.     *)
(***************************************************************************)
LEMMA ItemsKept ==
  ASSUME TypeOK, [Next]_vars
  PROVE  /\ used \subseteq used' /\ stime <= stime'
         /\ \A i \in used : created'[i] = created[i] /\ acquired'[i] = acquired[i]
         /\ \A i \in used : FreshToAll(i)' => FreshToAll(i)
<1> USE OpAssumption, IdAssumption, TimeAssumption, ModeAssumption DEF TypeOK
<1>f. ASSUME now' >= now, now' \in Nat, NEW i \in used, acquired'[i] = acquired[i]
      PROVE  FreshToAll(i)' => FreshToAll(i)
  BY <1>f DEF FreshToAll, Unreadable
<1>n. ASSUME NEW o \in Op, NEW j \in Id, NewItem(o, j)
      PROVE  /\ used \subseteq used'
             /\ \A i \in used : created'[i] = created[i] /\ acquired'[i] = acquired[i]
  BY <1>n DEF NewItem
<1>1. ASSUME NEW o \in Op, Stamp(o) \/ AcquireStep(o) \/ Release(o) \/ ReleaseFails(o)
      PROVE  /\ used \subseteq used' /\ stime <= stime' /\ now' = now
             /\ \A i \in used : created'[i] = created[i] /\ acquired'[i] = acquired[i]
  BY <1>1, <1>n DEF AcquireStep, Stamp, Create, CreateFails, ListRivals, ReadRival, RankRivals,
     BreakStale, Yield, ContestFails, Win, DropOwn, Release, ReleaseFails, clocks, items
<1>2. ASSUME (\E p \in Proc : Crash(p)) \/ Tick \/ UNCHANGED vars
      PROVE  /\ used \subseteq used' /\ stime <= stime' /\ now' \in Nat /\ now <= now'
             /\ \A i \in used : created'[i] = created[i] /\ acquired'[i] = acquired[i]
  <2>1. CASE \E p \in Proc : Crash(p)
    BY <2>1 DEF Crash, clocks, items
  <2>2. CASE Tick
    BY <2>2 DEF Tick, items
  <2>3. CASE UNCHANGED vars
    BY <2>3 DEF vars
  <2>4. QED
    BY <1>2, <2>1, <2>2, <2>3
<1>3. QED
  BY <1>1, <1>2, <1>f DEF Next

(***************************************************************************)
(* Every step keeps LockInv, given readable creation stamps and one        *)
(* operation at a time in each process.                                    *)
(***************************************************************************)
LEMMA LockInvStep ==
  ASSUME ServerStamps, OneOpPerProcess, LockInv, [Next]_vars
  PROVE  LockInv'
<1> USE OpAssumption, IdAssumption, TimeAssumption, ModeAssumption
<1>t. TypeOK /\ TypeOK'
  BY TypeStep DEF LockInv
<1>k. /\ used \subseteq used' /\ stime <= stime'
      /\ \A i \in used : created'[i] = created[i] /\ acquired'[i] = acquired[i]
      /\ \A i \in used : FreshToAll(i)' => FreshToAll(i)
  BY <1>t, ItemsKept
<1>p. /\ StampsKnown /\ OwnItem /\ OwnItemsDiffer /\ ListedEarlier /\ FreshStored
      /\ HeldIsMine /\ RankedByServer /\ AllFacesAhead
  BY DEF LockInv
<1>a. ASSUME NEW x \in Op, Owner(x), mine'[x] = mine[x] PROVE ~Ahead(TRUE, mine[x], mine[x])'
  <2>1. mine[x] \in used /\ mine[x] \in Nat
    BY <1>a, <1>t, <1>p DEF OwnItem, TypeOK
  <2>2. created'[mine'[x]] \in Nat
    BY <1>a, <1>k, <1>p, <2>1 DEF StampsKnown
  <2>3. QED
    BY <1>a, <2>1, <2>2 DEF Ahead, RankTime
<1>s. ASSUME NEW o1 \in Op, NEW o2 \in Op, Contender(o1)' => Contender(o1), mine'[o1] = mine[o1],
             pc'[o2] = pc[o2], mine'[o2] = mine[o2], toRead'[o2] = toRead[o2], rivals'[o2] = rivals[o2]
      PROVE  FacesAhead(o1, o2)'
  <2> DEFINE i == mine[o1]
             j == mine[o2]
  <2>1. CASE ~(Contender(o1) /\ Listed(o2))
    BY <1>s, <2>1 DEF FacesAhead, Listed, Contender
  <2>2. CASE Contender(o1) /\ Listed(o2)
    <3>1. i \in used /\ j \in used
      BY <1>p, <2>2 DEF OwnItem, Owner, Contender, Listed
    <3>2. /\ created'[i] = created[i] /\ created'[j] = created[j] /\ acquired'[i] = acquired[i]
          /\ FreshToAll(mine[o1])' => FreshToAll(mine[o1])
      BY <1>s, <1>k, <3>1 DEF FreshToAll
    <3>3. FacesAhead(o1, o2)
      BY <1>p DEF AllFacesAhead
    <3>4. QED
      BY <1>s, <2>2, <3>1, <3>2, <3>3 DEF FacesAhead, Ahead, RankTime, Contender, Listed
  <2>3. QED
    BY <2>1, <2>2
<1>e. ASSUME NEW x \in Op, Listed(x), mine'[x] = mine[x] PROVE created'[mine'[x]] < stime'
  <2>1. mine[x] \in used /\ created[mine[x]] < stime
    BY <1>e, <1>p DEF ListedEarlier, OwnItem, Owner, Contender, Listed
  <2>2. created'[mine'[x]] = created[mine[x]] /\ created[mine[x]] \in Nat
    BY <1>e, <1>k, <1>p, <2>1 DEF StampsKnown
  <2>3. QED
    BY <1>t, <1>k, <2>1, <2>2 DEF TypeOK
<1>1. ASSUME NEW o \in Op, Stamp(o) PROVE LockInv'
  <2>1. StampsKnown'
    BY <1>1, <1>t, <1>k, <1>p
       DEF Stamp, Goto, clocks, items, contest, TypeOK, StampsKnown, NoId,
           NoStamp, Unreadable
  <2>2. OwnItem'
    BY <1>1, <1>t, <1>k, <1>p
       DEF Stamp, Goto, clocks, items, contest, TypeOK, OwnItem, Owner,
           Contender, NoId, NoStamp, Unreadable
  <2>3. OwnItemsDiffer'
    BY <1>1, <1>t, <1>k, <1>p
       DEF Stamp, Goto, clocks, items, contest, TypeOK, OwnItemsDiffer,
           OwnItem, Owner, Contender, NoId, NoStamp, Unreadable
  <2>4. ListedEarlier'
    BY <1>1, <1>t, <1>k, <1>p
       DEF Stamp, Goto, clocks, items, contest, TypeOK, ListedEarlier, Listed,
           StampsKnown, OwnItem, Owner, Contender, NoId, NoStamp, Unreadable
  <2>5. FreshStored'
    BY <1>1, <1>t, <1>k, <1>p
       DEF Stamp, Goto, clocks, items, contest, TypeOK, FreshStored,
           FreshToAll, OwnItem, OwnItemsDiffer, HeldIsMine, Owner, Contender, NoId,
           NoStamp, Unreadable
  <2>6. HeldIsMine'
    BY <1>1, <1>t, <1>k, <1>p
       DEF Stamp, Goto, clocks, items, contest, TypeOK, HeldIsMine,
           OneOpPerProcess, NoId, NoStamp, Unreadable
  <2>7. RankedByServer'
    BY <1>1, <1>t, <1>k, <1>p
       DEF Stamp, Goto, clocks, items, contest, TypeOK, RankedByServer,
           StampsKnown, OwnItem, Owner, Contender, NoId, NoStamp, Unreadable
  <2>8. AllFacesAhead'
    BY <1>1, <1>t, <1>k, <1>p
       DEF Stamp, Goto, clocks, items, contest, TypeOK, AllFacesAhead,
           FacesAhead, FirstAhead, Ahead, RankTime, FreshStored, RankedByServer,
           ListedEarlier, StampsKnown, OwnItem, Owner, Contender, Listed, FreshToAll,
           NoId, NoStamp, Unreadable
  <2>9. QED
    BY <1>t, <2>1, <2>2, <2>3, <2>4, <2>5, <2>6, <2>7, <2>8 DEF LockInv
<1>2. ASSUME NEW o \in Op, Create(o) PROVE LockInv'
  <2>i. PICK i \in Id : NewItem(o, i) /\ mine' = [mine EXCEPT ![o] = i]
    BY <1>2 DEF Create
  <2>f. /\ i \notin used /\ used' = used \cup {i} /\ created'[i] = stime /\ stime' = stime
        /\ mine'[o] = i /\ pc'[o] = "created" /\ UNCHANGED <<toRead, rivals>>
        /\ \A x \in Op \ {o} : pc'[x] = pc[x] /\ mine'[x] = mine[x]
    BY <1>2, <1>t, <2>i DEF Create, NewItem, Goto, TypeOK, clocks, contest
  <2>1. StampsKnown'
    BY <1>t, <1>k, <1>p, <2>f DEF TypeOK, StampsKnown
  <2>2. OwnItem'
    BY <1>2, <1>t, <1>k, <1>p
       DEF Create, Goto, clocks, contest, NewItem, TypeOK, OwnItem, Owner,
           Contender, NoId, NoStamp, Unreadable
  <2>3. OwnItemsDiffer'
    BY <1>2, <1>t, <1>k, <1>p
       DEF Create, Goto, clocks, contest, NewItem, TypeOK, OwnItemsDiffer,
           OwnItem, Owner, Contender, NoId, NoStamp, Unreadable
  <2>4. ListedEarlier'
    BY <1>2, <1>t, <1>k, <1>p
       DEF Create, Goto, clocks, contest, NewItem, TypeOK, ListedEarlier,
           Listed, StampsKnown, OwnItem, Owner, Contender, NoId, NoStamp, Unreadable
  <2>5. FreshStored'
    BY <1>2, <1>t, <1>k, <1>p
       DEF Create, Goto, clocks, contest, NewItem, TypeOK, FreshStored,
           FreshToAll, OwnItem, OwnItemsDiffer, HeldIsMine, Owner, Contender, NoId,
           NoStamp, Unreadable
  <2>6. HeldIsMine'
    BY <1>2, <1>t, <1>k, <1>p
       DEF Create, Goto, clocks, contest, NewItem, TypeOK, HeldIsMine,
           OneOpPerProcess, NoId, NoStamp, Unreadable
  <2>7. RankedByServer'
    BY <1>2, <1>t, <1>k, <1>p
       DEF Create, Goto, clocks, contest, NewItem, TypeOK, RankedByServer,
           StampsKnown, OwnItem, Owner, Contender, NoId, NoStamp, Unreadable
  <2>8. AllFacesAhead'
    <3> SUFFICES ASSUME NEW o1 \in Op, NEW o2 \in Op PROVE FacesAhead(o1, o2)'
      BY DEF AllFacesAhead
    <3>1. CASE o2 = o
      BY <2>f, <3>1 DEF FacesAhead, Listed
    <3>2. CASE o1 = o /\ o2 # o
      <4>1. SUFFICES ASSUME Listed(o2) PROVE ~Ahead(TRUE, mine[o1], mine[o2])'
        BY <2>f, <3>2 DEF FacesAhead, Listed
      <4>2. created'[mine'[o2]] < stime /\ created'[mine'[o1]] = stime
        BY <1>e, <2>f, <3>2, <4>1
      <4>3. stime \in Nat /\ created'[mine'[o2]] \in Nat
        <5>1. mine'[o2] \in used
          BY <1>p, <2>f, <3>2, <4>1 DEF OwnItem, Owner, Contender, Listed
        <5>2. QED
          BY <1>t, <1>k, <1>p, <5>1 DEF TypeOK, StampsKnown
      <4>4. QED
        BY <4>2, <4>3 DEF Ahead, RankTime
    <3>3. CASE o1 # o /\ o2 # o
      BY <1>s, <2>f, <3>3 DEF Contender
    <3>4. QED
      BY <3>1, <3>2, <3>3
  <2>9. QED
    BY <1>t, <2>1, <2>2, <2>3, <2>4, <2>5, <2>6, <2>7, <2>8 DEF LockInv
<1>3. ASSUME NEW o \in Op, CreateFails(o) PROVE LockInv'
  <2>f. /\ pc'[o] = "idle" /\ stime' = stime /\ stored \subseteq stored'
        /\ \A x \in Op \ {o} : /\ pc'[x] = pc[x] /\ mine'[x] = mine[x]
                               /\ toRead'[x] = toRead[x] /\ rivals'[x] = rivals[x]
    BY <1>3 DEF CreateFails, Return, NewItem, clocks, items
  <2>1. StampsKnown'
    BY <1>3, <1>t, <1>k, <1>p
       DEF CreateFails, Return, clocks, items, NewItem, TypeOK, StampsKnown,
           NoId, NoStamp, Unreadable
  <2>2. OwnItem'
    BY <1>3, <1>t, <1>k, <1>p
       DEF CreateFails, Return, clocks, items, NewItem, TypeOK, OwnItem, Owner,
           Contender, NoId, NoStamp, Unreadable
  <2>3. OwnItemsDiffer'
    BY <1>3, <1>t, <1>k, <1>p
       DEF CreateFails, Return, clocks, items, NewItem, TypeOK, OwnItemsDiffer,
           OwnItem, Owner, Contender, NoId, NoStamp, Unreadable
  <2>4. ListedEarlier'
    BY <1>e, <2>f DEF ListedEarlier, Listed
  <2>5. FreshStored'
    BY <1>t, <1>k, <1>p, <2>f
       DEF FreshStored, OwnItem, Owner, Contender, FreshToAll, NoId, NoStamp, Unreadable
  <2>6. HeldIsMine'
    BY <1>3, <1>t, <1>k, <1>p
       DEF CreateFails, Return, clocks, items, NewItem, TypeOK, HeldIsMine,
           OneOpPerProcess, NoId, NoStamp, Unreadable
  <2>7. RankedByServer'
    BY <1>3, <1>t, <1>k, <1>p
       DEF CreateFails, Return, clocks, items, NewItem, TypeOK, RankedByServer,
           StampsKnown, OwnItem, Owner, Contender, NoId, NoStamp, Unreadable
  <2>8. AllFacesAhead'
    <3> SUFFICES ASSUME NEW o1 \in Op, NEW o2 \in Op PROVE FacesAhead(o1, o2)'
      BY DEF AllFacesAhead
    <3>1. CASE o1 = o \/ o2 = o
      BY <2>f, <3>1 DEF FacesAhead, Listed, Contender
    <3>2. CASE o1 # o /\ o2 # o
      BY <1>s, <2>f, <3>2 DEF Contender
    <3>3. QED
      BY <3>1, <3>2
  <2>9. QED
    BY <1>t, <2>1, <2>2, <2>3, <2>4, <2>5, <2>6, <2>7, <2>8 DEF LockInv
<1>4. ASSUME NEW o \in Op, ListRivals(o) PROVE LockInv'
  <2>f. /\ pc[o] = "created" /\ pc'[o] = "reading" /\ stime' = stime + 1 /\ mine' = mine
        /\ toRead'[o] = stored \ {mine[o]} /\ UNCHANGED items
        /\ \A x \in Op \ {o} : pc'[x] = pc[x] /\ toRead'[x] = toRead[x] /\ rivals'[x] = rivals[x]
    BY <1>4, <1>t DEF ListRivals, Goto, TypeOK
  <2>1. StampsKnown'
    BY <1>4, <1>t, <1>k, <1>p
       DEF ListRivals, Goto, items, TypeOK, StampsKnown, NoId, NoStamp,
           Unreadable
  <2>2. OwnItem'
    BY <1>4, <1>t, <1>k, <1>p
       DEF ListRivals, Goto, items, TypeOK, OwnItem, Owner, Contender, NoId,
           NoStamp, Unreadable
  <2>3. OwnItemsDiffer'
    BY <1>4, <1>t, <1>k, <1>p
       DEF ListRivals, Goto, items, TypeOK, OwnItemsDiffer, OwnItem, Owner,
           Contender, NoId, NoStamp, Unreadable
  <2>4. ListedEarlier'
    <3>1. created'[mine'[o]] < stime'
      <4>1. mine[o] \in used
        BY <1>p, <2>f DEF OwnItem, Owner, Contender
      <4>2. created'[mine'[o]] = created[mine[o]] /\ created[mine[o]] \in Nat /\ created[mine[o]] <= stime
        BY <1>k, <1>p, <2>f, <4>1 DEF StampsKnown
      <4>3. QED
        BY <1>t, <2>f, <4>2 DEF TypeOK
    <3>2. QED
      BY <1>e, <2>f, <3>1 DEF ListedEarlier, Listed
  <2>5. FreshStored'
    BY <1>4, <1>t, <1>k, <1>p
       DEF ListRivals, Goto, items, TypeOK, FreshStored, FreshToAll, OwnItem,
           OwnItemsDiffer, HeldIsMine, Owner, Contender, NoId, NoStamp, Unreadable
  <2>6. HeldIsMine'
    BY <1>4, <1>t, <1>k, <1>p
       DEF ListRivals, Goto, items, TypeOK, HeldIsMine, OneOpPerProcess, NoId,
           NoStamp, Unreadable
  <2>7. RankedByServer'
    BY <1>4, <1>t, <1>k, <1>p
       DEF ListRivals, Goto, items, TypeOK, RankedByServer, StampsKnown,
           OwnItem, Owner, Contender, NoId, NoStamp, Unreadable
  <2>8. AllFacesAhead'
    <3> SUFFICES ASSUME NEW o1 \in Op, NEW o2 \in Op PROVE FacesAhead(o1, o2)'
      BY DEF AllFacesAhead
    <3>1. CASE o2 = o /\ o1 = o
      BY <1>a, <2>f, <3>1 DEF FacesAhead, Owner, Contender
    <3>2. CASE o2 = o /\ o1 # o
      BY <1>t, <1>k, <1>p, <2>f, <3>2
         DEF FacesAhead, FreshStored, OwnItem, OwnItemsDiffer, Owner, Contender, FreshToAll, NoId, NoStamp, Unreadable
    <3>3. CASE o2 # o
      BY <1>s, <2>f, <3>3 DEF Contender
    <3>4. QED
      BY <3>1, <3>2, <3>3
  <2>9. QED
    BY <1>t, <2>1, <2>2, <2>3, <2>4, <2>5, <2>6, <2>7, <2>8 DEF LockInv
<1>5. ASSUME NEW o \in Op, ReadRival(o) PROVE LockInv'
  <2>1. StampsKnown'
    BY <1>5, <1>t, <1>k, <1>p
       DEF ReadRival, clocks, items, TypeOK, StampsKnown, NoId, NoStamp,
           Unreadable
  <2>2. OwnItem'
    BY <1>5, <1>t, <1>k, <1>p
       DEF ReadRival, clocks, items, TypeOK, OwnItem, Owner, Contender, NoId,
           NoStamp, Unreadable
  <2>3. OwnItemsDiffer'
    BY <1>5, <1>t, <1>k, <1>p
       DEF ReadRival, clocks, items, TypeOK, OwnItemsDiffer, OwnItem, Owner,
           Contender, NoId, NoStamp, Unreadable
  <2>4. ListedEarlier'
    BY <1>5, <1>t, <1>k, <1>p
       DEF ReadRival, clocks, items, TypeOK, ListedEarlier, Listed,
           StampsKnown, OwnItem, Owner, Contender, NoId, NoStamp, Unreadable
  <2>5. FreshStored'
    BY <1>5, <1>t, <1>k, <1>p
       DEF ReadRival, clocks, items, TypeOK, FreshStored, FreshToAll, OwnItem,
           OwnItemsDiffer, HeldIsMine, Owner, Contender, NoId, NoStamp, Unreadable
  <2>6. HeldIsMine'
    BY <1>5, <1>t, <1>k, <1>p
       DEF ReadRival, clocks, items, TypeOK, HeldIsMine, OneOpPerProcess, NoId,
           NoStamp, Unreadable
  <2>7. RankedByServer'
    BY <1>5, <1>t, <1>k, <1>p
       DEF ReadRival, clocks, items, TypeOK, RankedByServer, StampsKnown,
           OwnItem, Owner, Contender, NoId, NoStamp, Unreadable
  <2>8. AllFacesAhead'
    BY <1>5, <1>t, <1>k, <1>p
       DEF ReadRival, clocks, items, TypeOK, AllFacesAhead, FacesAhead,
           FirstAhead, Ahead, RankTime, FreshStored, RankedByServer, ListedEarlier,
           StampsKnown, OwnItem, Owner, Contender, Listed, FreshToAll, NoId, NoStamp,
           Unreadable
  <2>9. QED
    BY <1>t, <2>1, <2>2, <2>3, <2>4, <2>5, <2>6, <2>7, <2>8 DEF LockInv
<1>6. ASSUME NEW o \in Op, RankRivals(o) PROVE LockInv'
  <2>1. StampsKnown'
    BY <1>6, <1>t, <1>k, <1>p
       DEF RankRivals, Goto, clocks, items, TypeOK, StampsKnown, NoId, NoStamp,
           Unreadable
  <2>2. OwnItem'
    BY <1>6, <1>t, <1>k, <1>p
       DEF RankRivals, Goto, clocks, items, TypeOK, OwnItem, Owner, Contender,
           NoId, NoStamp, Unreadable
  <2>3. OwnItemsDiffer'
    BY <1>6, <1>t, <1>k, <1>p
       DEF RankRivals, Goto, clocks, items, TypeOK, OwnItemsDiffer, OwnItem,
           Owner, Contender, NoId, NoStamp, Unreadable
  <2>4. ListedEarlier'
    BY <1>6, <1>t, <1>k, <1>p
       DEF RankRivals, Goto, clocks, items, TypeOK, ListedEarlier, Listed,
           StampsKnown, OwnItem, Owner, Contender, NoId, NoStamp, Unreadable
  <2>5. FreshStored'
    BY <1>6, <1>t, <1>k, <1>p
       DEF RankRivals, Goto, clocks, items, TypeOK, FreshStored, FreshToAll,
           OwnItem, OwnItemsDiffer, HeldIsMine, Owner, Contender, NoId, NoStamp,
           Unreadable
  <2>6. HeldIsMine'
    BY <1>6, <1>t, <1>k, <1>p
       DEF RankRivals, Goto, clocks, items, TypeOK, HeldIsMine,
           OneOpPerProcess, NoId, NoStamp, Unreadable
  <2>7. RankedByServer'
    BY <1>6, <1>t, <1>k, <1>p
       DEF RankRivals, Goto, clocks, items, TypeOK, RankedByServer,
           StampsKnown, OwnItem, Owner, Contender, NoId, NoStamp, Unreadable
  <2>8. AllFacesAhead'
    BY <1>6, <1>t, <1>k, <1>p
       DEF RankRivals, Goto, clocks, items, TypeOK, AllFacesAhead, FacesAhead,
           FirstAhead, Ahead, RankTime, FreshStored, RankedByServer, ListedEarlier,
           StampsKnown, OwnItem, Owner, Contender, Listed, FreshToAll, NoId, NoStamp,
           Unreadable
  <2>9. QED
    BY <1>t, <2>1, <2>2, <2>3, <2>4, <2>5, <2>6, <2>7, <2>8 DEF LockInv
<1>7. ASSUME NEW o \in Op, BreakStale(o) PROVE LockInv'
  <2>1. StampsKnown'
    BY <1>7, <1>t, <1>k, <1>p
       DEF BreakStale, clocks, IsStale, Clock, TypeOK, StampsKnown, NoId,
           NoStamp, Unreadable
  <2>2. OwnItem'
    BY <1>7, <1>t, <1>k, <1>p
       DEF BreakStale, clocks, IsStale, Clock, TypeOK, OwnItem, Owner,
           Contender, NoId, NoStamp, Unreadable
  <2>3. OwnItemsDiffer'
    BY <1>7, <1>t, <1>k, <1>p
       DEF BreakStale, clocks, IsStale, Clock, TypeOK, OwnItemsDiffer, OwnItem,
           Owner, Contender, NoId, NoStamp, Unreadable
  <2>4. ListedEarlier'
    BY <1>7, <1>t, <1>k, <1>p
       DEF BreakStale, clocks, IsStale, Clock, TypeOK, ListedEarlier, Listed,
           StampsKnown, OwnItem, Owner, Contender, NoId, NoStamp, Unreadable
  <2>5. FreshStored'
    BY <1>7, <1>t, <1>k, <1>p
       DEF BreakStale, clocks, IsStale, Clock, TypeOK, FreshStored, FreshToAll,
           OwnItem, OwnItemsDiffer, HeldIsMine, Owner, Contender, NoId, NoStamp,
           Unreadable
  <2>6. HeldIsMine'
    BY <1>7, <1>t, <1>k, <1>p
       DEF BreakStale, clocks, IsStale, Clock, TypeOK, HeldIsMine,
           OneOpPerProcess, NoId, NoStamp, Unreadable
  <2>7. RankedByServer'
    BY <1>7, <1>t, <1>k, <1>p
       DEF BreakStale, clocks, IsStale, Clock, TypeOK, RankedByServer,
           StampsKnown, OwnItem, Owner, Contender, NoId, NoStamp, Unreadable
  <2>8. AllFacesAhead'
    BY <1>7, <1>t, <1>k, <1>p
       DEF BreakStale, clocks, IsStale, Clock, TypeOK, AllFacesAhead,
           FacesAhead, FirstAhead, Ahead, RankTime, FreshStored, RankedByServer,
           ListedEarlier, StampsKnown, OwnItem, Owner, Contender, Listed, FreshToAll,
           NoId, NoStamp, Unreadable
  <2>9. QED
    BY <1>t, <2>1, <2>2, <2>3, <2>4, <2>5, <2>6, <2>7, <2>8 DEF LockInv
<1>8. ASSUME NEW o \in Op, Yield(o) PROVE LockInv'
  <2>1. StampsKnown'
    BY <1>8, <1>t, <1>k, <1>p
       DEF Yield, Goto, clocks, items, contest, TypeOK, StampsKnown, NoId,
           NoStamp, Unreadable
  <2>2. OwnItem'
    BY <1>8, <1>t, <1>k, <1>p
       DEF Yield, Goto, clocks, items, contest, TypeOK, OwnItem, Owner,
           Contender, NoId, NoStamp, Unreadable
  <2>3. OwnItemsDiffer'
    BY <1>8, <1>t, <1>k, <1>p
       DEF Yield, Goto, clocks, items, contest, TypeOK, OwnItemsDiffer,
           OwnItem, Owner, Contender, NoId, NoStamp, Unreadable
  <2>4. ListedEarlier'
    BY <1>8, <1>t, <1>k, <1>p
       DEF Yield, Goto, clocks, items, contest, TypeOK, ListedEarlier, Listed,
           StampsKnown, OwnItem, Owner, Contender, NoId, NoStamp, Unreadable
  <2>5. FreshStored'
    BY <1>8, <1>t, <1>k, <1>p
       DEF Yield, Goto, clocks, items, contest, TypeOK, FreshStored,
           FreshToAll, OwnItem, OwnItemsDiffer, HeldIsMine, Owner, Contender, NoId,
           NoStamp, Unreadable
  <2>6. HeldIsMine'
    BY <1>8, <1>t, <1>k, <1>p
       DEF Yield, Goto, clocks, items, contest, TypeOK, HeldIsMine,
           OneOpPerProcess, NoId, NoStamp, Unreadable
  <2>7. RankedByServer'
    BY <1>8, <1>t, <1>k, <1>p
       DEF Yield, Goto, clocks, items, contest, TypeOK, RankedByServer,
           StampsKnown, OwnItem, Owner, Contender, NoId, NoStamp, Unreadable
  <2>8. AllFacesAhead'
    BY <1>8, <1>t, <1>k, <1>p
       DEF Yield, Goto, clocks, items, contest, TypeOK, AllFacesAhead,
           FacesAhead, FirstAhead, Ahead, RankTime, FreshStored, RankedByServer,
           ListedEarlier, StampsKnown, OwnItem, Owner, Contender, Listed, FreshToAll,
           NoId, NoStamp, Unreadable
  <2>9. QED
    BY <1>t, <2>1, <2>2, <2>3, <2>4, <2>5, <2>6, <2>7, <2>8 DEF LockInv
<1>9. ASSUME NEW o \in Op, ContestFails(o) PROVE LockInv'
  <2>1. StampsKnown'
    BY <1>9, <1>t, <1>k, <1>p
       DEF ContestFails, Goto, clocks, contest, IsStale, Clock, TypeOK,
           StampsKnown, NoId, NoStamp, Unreadable
  <2>2. OwnItem'
    BY <1>9, <1>t, <1>k, <1>p
       DEF ContestFails, Goto, clocks, contest, IsStale, Clock, TypeOK,
           OwnItem, Owner, Contender, NoId, NoStamp, Unreadable
  <2>3. OwnItemsDiffer'
    BY <1>9, <1>t, <1>k, <1>p
       DEF ContestFails, Goto, clocks, contest, IsStale, Clock, TypeOK,
           OwnItemsDiffer, OwnItem, Owner, Contender, NoId, NoStamp, Unreadable
  <2>4. ListedEarlier'
    BY <1>9, <1>t, <1>k, <1>p
       DEF ContestFails, Goto, clocks, contest, IsStale, Clock, TypeOK,
           ListedEarlier, Listed, StampsKnown, OwnItem, Owner, Contender, NoId, NoStamp,
           Unreadable
  <2>5. FreshStored'
    BY <1>9, <1>t, <1>k, <1>p
       DEF ContestFails, Goto, clocks, contest, IsStale, Clock, TypeOK,
           FreshStored, FreshToAll, OwnItem, OwnItemsDiffer, HeldIsMine, Owner,
           Contender, NoId, NoStamp, Unreadable
  <2>6. HeldIsMine'
    BY <1>9, <1>t, <1>k, <1>p
       DEF ContestFails, Goto, clocks, contest, IsStale, Clock, TypeOK,
           HeldIsMine, OneOpPerProcess, NoId, NoStamp, Unreadable
  <2>7. RankedByServer'
    BY <1>9, <1>t, <1>k, <1>p
       DEF ContestFails, Goto, clocks, contest, IsStale, Clock, TypeOK,
           RankedByServer, StampsKnown, OwnItem, Owner, Contender, NoId, NoStamp,
           Unreadable
  <2>8. AllFacesAhead'
    BY <1>9, <1>t, <1>k, <1>p
       DEF ContestFails, Goto, clocks, contest, IsStale, Clock, TypeOK,
           AllFacesAhead, FacesAhead, FirstAhead, Ahead, RankTime, FreshStored,
           RankedByServer, ListedEarlier, StampsKnown, OwnItem, Owner, Contender,
           Listed, FreshToAll, NoId, NoStamp, Unreadable
  <2>9. QED
    BY <1>t, <2>1, <2>2, <2>3, <2>4, <2>5, <2>6, <2>7, <2>8 DEF LockInv
<1>10. ASSUME NEW o \in Op, Win(o) PROVE LockInv'
  <2>f. /\ pc[o] = "contesting" /\ pc'[o] = "running" /\ mine' = mine /\ UNCHANGED <<toRead, rivals, items>>
        /\ heldId'[ProcOf[o]] = mine[o]
        /\ \A x \in Op \ {o} : pc'[x] = pc[x]
        /\ \A p \in Proc \ {ProcOf[o]} : heldId'[p] = heldId[p]
    BY <1>10, <1>t DEF Win, Goto, TypeOK, contest
  <2>1. StampsKnown'
    BY <1>10, <1>t, <1>k, <1>p
       DEF Win, Goto, clocks, items, contest, TypeOK, StampsKnown, NoId, NoStamp,
           Unreadable
  <2>2. OwnItem'
    BY <1>10, <1>t, <1>k, <1>p
       DEF Win, Goto, clocks, items, contest, TypeOK, OwnItem, Owner, Contender, NoId,
           NoStamp, Unreadable
  <2>3. OwnItemsDiffer'
    BY <1>10, <1>t, <1>k, <1>p
       DEF Win, Goto, clocks, items, contest, TypeOK, OwnItemsDiffer, OwnItem, Owner,
           Contender, NoId, NoStamp, Unreadable
  <2>4. ListedEarlier'
    BY <1>10, <1>t, <1>k, <1>p
       DEF Win, Goto, clocks, items, contest, TypeOK, ListedEarlier, Listed,
           StampsKnown, OwnItem, Owner, Contender, NoId, NoStamp, Unreadable
  <2>5. FreshStored'
    BY <1>10, <1>t, <1>k, <1>p
       DEF Win, Goto, clocks, items, contest, TypeOK, FreshStored, FreshToAll, OwnItem,
           OwnItemsDiffer, HeldIsMine, Owner, Contender, NoId, NoStamp, Unreadable
  <2>6. HeldIsMine'
    BY <1>p, <2>f DEF HeldIsMine, OneOpPerProcess
  <2>7. RankedByServer'
    BY <1>10, <1>t, <1>k, <1>p
       DEF Win, Goto, clocks, items, contest, TypeOK, RankedByServer, StampsKnown,
           OwnItem, Owner, Contender, NoId, NoStamp, Unreadable
  <2>8. AllFacesAhead'
    <3> SUFFICES ASSUME NEW o1 \in Op, NEW o2 \in Op PROVE FacesAhead(o1, o2)'
      BY DEF AllFacesAhead
    <3>1. CASE o2 = o /\ o1 = o
      BY <1>a, <2>f, <3>1 DEF FacesAhead, Owner, Contender
    <3>2. CASE o2 = o /\ o1 # o
      <4>1. SUFFICES ASSUME Contender(o1), FreshToAll(mine[o1]), Ahead(TRUE, mine[o1], mine[o]) PROVE FALSE
        BY <1>t, <1>k, <1>p, <2>f, <3>2
           DEF FacesAhead, Ahead, RankTime, OwnItem, Owner, Contender, items
      <4>2. mine[o1] \in rivals[o] /\ byServer[o] = TRUE
        BY <1>t, <1>p, <2>f, <4>1 DEF TypeOK, AllFacesAhead, FacesAhead, Listed, RankedByServer
      <4>3. QED
        BY <1>10, <4>1, <4>2 DEF Win
    <3>3. CASE o2 # o
      BY <1>s, <2>f, <3>3 DEF Contender
    <3>4. QED
      BY <3>1, <3>2, <3>3
  <2>9. QED
    BY <1>t, <2>1, <2>2, <2>3, <2>4, <2>5, <2>6, <2>7, <2>8 DEF LockInv
<1>11. ASSUME NEW o \in Op, DropOwn(o) PROVE LockInv'
  <2>1. StampsKnown'
    BY <1>11, <1>t, <1>k, <1>p
       DEF DropOwn, Return, clocks, TypeOK, StampsKnown, NoId, NoStamp,
           Unreadable
  <2>2. OwnItem'
    BY <1>11, <1>t, <1>k, <1>p
       DEF DropOwn, Return, clocks, TypeOK, OwnItem, Owner, Contender, NoId,
           NoStamp, Unreadable
  <2>3. OwnItemsDiffer'
    BY <1>11, <1>t, <1>k, <1>p
       DEF DropOwn, Return, clocks, TypeOK, OwnItemsDiffer, OwnItem, Owner,
           Contender, NoId, NoStamp, Unreadable
  <2>4. ListedEarlier'
    BY <1>11, <1>t, <1>k, <1>p
       DEF DropOwn, Return, clocks, TypeOK, ListedEarlier, Listed, StampsKnown,
           OwnItem, Owner, Contender, NoId, NoStamp, Unreadable
  <2>5. FreshStored'
    BY <1>11, <1>t, <1>k, <1>p
       DEF DropOwn, Return, clocks, TypeOK, FreshStored, FreshToAll, OwnItem,
           OwnItemsDiffer, HeldIsMine, Owner, Contender, NoId, NoStamp, Unreadable
  <2>6. HeldIsMine'
    BY <1>11, <1>t, <1>k, <1>p
       DEF DropOwn, Return, clocks, TypeOK, HeldIsMine, OneOpPerProcess, NoId,
           NoStamp, Unreadable
  <2>7. RankedByServer'
    BY <1>11, <1>t, <1>k, <1>p
       DEF DropOwn, Return, clocks, TypeOK, RankedByServer, StampsKnown,
           OwnItem, Owner, Contender, NoId, NoStamp, Unreadable
  <2>8. AllFacesAhead'
    BY <1>11, <1>t, <1>k, <1>p
       DEF DropOwn, Return, clocks, TypeOK, AllFacesAhead, FacesAhead,
           FirstAhead, Ahead, RankTime, FreshStored, RankedByServer, ListedEarlier,
           StampsKnown, OwnItem, Owner, Contender, Listed, FreshToAll, NoId, NoStamp,
           Unreadable
  <2>9. QED
    BY <1>t, <2>1, <2>2, <2>3, <2>4, <2>5, <2>6, <2>7, <2>8 DEF LockInv
<1>12. ASSUME NEW o \in Op, Release(o) PROVE LockInv'
  <2>f. /\ pc'[o] = "idle" /\ \A x \in Op \ {o} : pc'[x] = pc[x] /\ mine'[x] = mine[x]
        /\ \A p \in Proc \ {ProcOf[o]} : heldId'[p] = heldId[p]
    BY <1>12, <1>t DEF Release, Return, TypeOK
  <2>1. StampsKnown'
    BY <1>12, <1>t, <1>k, <1>p
       DEF Release, Return, clocks, TypeOK, StampsKnown, NoId, NoStamp, Unreadable
  <2>2. OwnItem'
    BY <1>12, <1>t, <1>k, <1>p
       DEF Release, Return, clocks, TypeOK, OwnItem, Owner, Contender, NoId, NoStamp,
           Unreadable
  <2>3. OwnItemsDiffer'
    BY <1>12, <1>t, <1>k, <1>p
       DEF Release, Return, clocks, TypeOK, OwnItemsDiffer, OwnItem, Owner, Contender,
           NoId, NoStamp, Unreadable
  <2>4. ListedEarlier'
    BY <1>12, <1>t, <1>k, <1>p
       DEF Release, Return, clocks, TypeOK, ListedEarlier, Listed, StampsKnown, OwnItem,
           Owner, Contender, NoId, NoStamp, Unreadable
  <2>5. FreshStored'
    BY <1>12, <1>t, <1>k, <1>p
       DEF Release, Return, clocks, TypeOK, FreshStored, FreshToAll, OwnItem,
           OwnItemsDiffer, HeldIsMine, Owner, Contender, NoId, NoStamp, Unreadable
  <2>6. HeldIsMine'
    BY <1>p, <2>f DEF HeldIsMine, OneOpPerProcess
  <2>7. RankedByServer'
    BY <1>12, <1>t, <1>k, <1>p
       DEF Release, Return, clocks, TypeOK, RankedByServer, StampsKnown, OwnItem, Owner,
           Contender, NoId, NoStamp, Unreadable
  <2>8. AllFacesAhead'
    BY <1>12, <1>t, <1>k, <1>p
       DEF Release, Return, clocks, TypeOK, AllFacesAhead, FacesAhead, FirstAhead,
           Ahead, RankTime, FreshStored, RankedByServer, ListedEarlier, StampsKnown,
           OwnItem, Owner, Contender, Listed, FreshToAll, NoId, NoStamp, Unreadable
  <2>9. QED
    BY <1>t, <2>1, <2>2, <2>3, <2>4, <2>5, <2>6, <2>7, <2>8 DEF LockInv
<1>13. ASSUME NEW o \in Op, ReleaseFails(o) PROVE LockInv'
  <2>1. StampsKnown'
    BY <1>13, <1>t, <1>k, <1>p
       DEF ReleaseFails, Return, clocks, TypeOK, StampsKnown, NoId, NoStamp,
           Unreadable
  <2>2. OwnItem'
    BY <1>13, <1>t, <1>k, <1>p
       DEF ReleaseFails, Return, clocks, TypeOK, OwnItem, Owner, Contender,
           NoId, NoStamp, Unreadable
  <2>3. OwnItemsDiffer'
    BY <1>13, <1>t, <1>k, <1>p
       DEF ReleaseFails, Return, clocks, TypeOK, OwnItemsDiffer, OwnItem,
           Owner, Contender, NoId, NoStamp, Unreadable
  <2>4. ListedEarlier'
    BY <1>13, <1>t, <1>k, <1>p
       DEF ReleaseFails, Return, clocks, TypeOK, ListedEarlier, Listed,
           StampsKnown, OwnItem, Owner, Contender, NoId, NoStamp, Unreadable
  <2>5. FreshStored'
    BY <1>13, <1>t, <1>k, <1>p
       DEF ReleaseFails, Return, clocks, TypeOK, FreshStored, FreshToAll,
           OwnItem, OwnItemsDiffer, HeldIsMine, Owner, Contender, NoId, NoStamp,
           Unreadable
  <2>6. HeldIsMine'
    BY <1>13, <1>t, <1>k, <1>p
       DEF ReleaseFails, Return, clocks, TypeOK, HeldIsMine, OneOpPerProcess,
           NoId, NoStamp, Unreadable
  <2>7. RankedByServer'
    BY <1>13, <1>t, <1>k, <1>p
       DEF ReleaseFails, Return, clocks, TypeOK, RankedByServer, StampsKnown,
           OwnItem, Owner, Contender, NoId, NoStamp, Unreadable
  <2>8. AllFacesAhead'
    BY <1>13, <1>t, <1>k, <1>p
       DEF ReleaseFails, Return, clocks, TypeOK, AllFacesAhead, FacesAhead,
           FirstAhead, Ahead, RankTime, FreshStored, RankedByServer, ListedEarlier,
           StampsKnown, OwnItem, Owner, Contender, Listed, FreshToAll, NoId, NoStamp,
           Unreadable
  <2>9. QED
    BY <1>t, <2>1, <2>2, <2>3, <2>4, <2>5, <2>6, <2>7, <2>8 DEF LockInv
<1>14. ASSUME NEW p \in Proc, Crash(p) PROVE LockInv'
  <2>1. StampsKnown'
    BY <1>14, <1>t, <1>k, <1>p DEF Crash, Return, clocks, items, TypeOK, StampsKnown
  <2>2. OwnItem'
    BY <1>14, <1>t, <1>k, <1>p
       DEF Crash, Return, clocks, items, TypeOK, OwnItem, Owner, Contender
  <2>3. OwnItemsDiffer'
    BY <1>14, <1>t, <1>k, <1>p
       DEF Crash, Return, clocks, items, TypeOK, OwnItemsDiffer, OwnItem, Owner,
           Contender
  <2>4. ListedEarlier'
    BY <1>14, <1>t, <1>k, <1>p
       DEF Crash, Return, clocks, items, TypeOK, ListedEarlier, Listed, StampsKnown,
           OwnItem, Owner, Contender
  <2>5. FreshStored'
    BY <1>14, <1>t, <1>k, <1>p
       DEF Crash, Return, clocks, items, TypeOK, FreshStored, FreshToAll, OwnItem,
           OwnItemsDiffer, HeldIsMine, Owner, Contender
  <2>6. HeldIsMine'
    BY <1>14, <1>t, <1>k, <1>p
       DEF Crash, Return, clocks, items, TypeOK, HeldIsMine, OneOpPerProcess
  <2>7. RankedByServer'
    BY <1>14, <1>t, <1>k, <1>p
       DEF Crash, Return, clocks, items, TypeOK, RankedByServer, StampsKnown, OwnItem,
           Owner, Contender
  <2>8. AllFacesAhead'
    BY <1>14, <1>t, <1>k, <1>p
       DEF Crash, Return, clocks, items, TypeOK, AllFacesAhead, FacesAhead, FirstAhead,
           Ahead, RankTime, FreshStored, RankedByServer, ListedEarlier, StampsKnown,
           OwnItem, Owner, Contender, Listed, FreshToAll
  <2>9. QED
    BY <1>t, <2>1, <2>2, <2>3, <2>4, <2>5, <2>6, <2>7, <2>8 DEF LockInv
<1>15. CASE Tick
  <2>1. StampsKnown'
    BY <1>15, <1>t, <1>k, <1>p DEF Tick, items, contest, TypeOK, StampsKnown
  <2>2. OwnItem'
    BY <1>15, <1>t, <1>k, <1>p
       DEF Tick, items, contest, TypeOK, OwnItem, Owner, Contender
  <2>3. OwnItemsDiffer'
    BY <1>15, <1>t, <1>k, <1>p
       DEF Tick, items, contest, TypeOK, OwnItemsDiffer, OwnItem, Owner,
           Contender
  <2>4. ListedEarlier'
    BY <1>15, <1>t, <1>k, <1>p
       DEF Tick, items, contest, TypeOK, ListedEarlier, Listed, StampsKnown,
           OwnItem, Owner, Contender
  <2>5. FreshStored'
    BY <1>15, <1>t, <1>k, <1>p
       DEF Tick, items, contest, TypeOK, FreshStored, FreshToAll, OwnItem,
           OwnItemsDiffer, HeldIsMine, Owner, Contender
  <2>6. HeldIsMine'
    BY <1>15, <1>t, <1>k, <1>p
       DEF Tick, items, contest, TypeOK, HeldIsMine, OneOpPerProcess
  <2>7. RankedByServer'
    BY <1>15, <1>t, <1>k, <1>p
       DEF Tick, items, contest, TypeOK, RankedByServer, StampsKnown, OwnItem,
           Owner, Contender
  <2>8. AllFacesAhead'
    BY <1>15, <1>t, <1>k, <1>p
       DEF Tick, items, contest, TypeOK, AllFacesAhead, FacesAhead, FirstAhead,
           Ahead, RankTime, FreshStored, RankedByServer, ListedEarlier, StampsKnown,
           OwnItem, Owner, Contender, Listed, FreshToAll
  <2>9. QED
    BY <1>t, <2>1, <2>2, <2>3, <2>4, <2>5, <2>6, <2>7, <2>8 DEF LockInv
<1>16. CASE UNCHANGED vars
  BY <1>16, <1>t, <1>p DEF vars, LockInv, StampsKnown, OwnItem, OwnItemsDiffer, ListedEarlier,
     FreshStored, FreshToAll, HeldIsMine, RankedByServer, AllFacesAhead, FacesAhead, Ahead, RankTime,
     Owner, Contender, Listed
<1>17. QED
  BY <1>1, <1>2, <1>3, <1>4, <1>5, <1>6, <1>7, <1>8, <1>9, <1>10, <1>11, <1>12,
     <1>13, <1>14, <1>15, <1>16 DEF Next, AcquireStep

\* The invariant holds at the start, whatever was left in the vault.
LEMMA LockInvInit == ServerStamps /\ Init => LockInv
<1>1. Init => TypeOK
  BY OpAssumption, IdAssumption, TimeAssumption, ModeAssumption
     DEF Init, TypeOK, PCs, NoStamp, Unreadable, NoId
<1>2. Init => ~ \E o \in Op : Owner(o) \/ Listed(o)
  BY DEF Init, Owner, Contender, Listed
<1>3. ServerStamps /\ Init => StampsKnown
  BY ModeAssumption, IdAssumption DEF Init, StampsKnown
<1>4. QED
  BY <1>1, <1>2, <1>3 DEF LockInv, OwnItem, OwnItemsDiffer, ListedEarlier, FreshStored, HeldIsMine,
     RankedByServer, AllFacesAhead, FacesAhead, Owner, Contender, Listed

(***************************************************************************)
(* Where LockInv holds, two operations whose locks are both fresh cannot   *)
(* both run: the ranks of their items are totally ordered, and the later   *)
(* one would still have the earlier one to face.                           *)
(***************************************************************************)
LEMMA LockInvExcludes == LockInv => MutualExclusion
<1> SUFFICES ASSUME LockInv, NEW o1 \in Op, NEW o2 \in Op, Guarded(o1), Guarded(o2), o1 # o2
             PROVE  FALSE
  BY DEF MutualExclusion
<1>1. mine[o1] \in used /\ mine[o2] \in used /\ mine[o1] # mine[o2]
  BY DEF LockInv, OwnItem, OwnItemsDiffer, Owner, Contender, Guarded
<1>2. created[mine[o1]] \in Nat /\ created[mine[o2]] \in Nat /\ mine[o1] \in Nat /\ mine[o2] \in Nat
  BY <1>1, IdAssumption DEF LockInv, StampsKnown, TypeOK
<1>3. Ahead(TRUE, mine[o1], mine[o2]) \/ Ahead(TRUE, mine[o2], mine[o1])
  BY <1>1, <1>2 DEF Ahead, RankTime
<1>4. FacesAhead(o1, o2) /\ FacesAhead(o2, o1)
  BY DEF LockInv, AllFacesAhead
<1>5. QED
  BY <1>3, <1>4 DEF FacesAhead, Guarded, Contender, Listed

(***************************************************************************)
(* acquire excludes: for any operations, machines, clock skew, TTL and     *)
(* pattern of failed calls and crashes, two operations never both run      *)
(* under fresh locks, provided 1Password's creation times can be read and  *)
(* each process runs one operation at a time.                              *)
(***************************************************************************)
THEOREM MutualExclusionHolds ==
  ASSUME ServerStamps, OneOpPerProcess
  PROVE  Spec => []MutualExclusion
<1>1. LockInv /\ [Next]_vars => LockInv'
  BY LockInvStep
<1>2. QED
  BY <1>1, LockInvInit, LockInvExcludes, PTL DEF Spec

(***************************************************************************)
(* No failure, crash or rival takes a fresh lock away from the operation   *)
(* it guards: contest deletes only stale items, release only its own.      *)
(***************************************************************************)
THEOREM FreshLockIsKept ==
  ASSUME ServerStamps, OneOpPerProcess
  PROVE  Spec => []GuardedLockStored
<1>1. LockInv /\ [Next]_vars => LockInv'
  BY LockInvStep
<1>2. LockInv => GuardedLockStored
  BY DEF LockInv, FreshStored, GuardedLockStored, Guarded, Contender
<1>3. QED
  BY <1>1, <1>2, LockInvInit, PTL DEF Spec

-----------------------------------------------------------------------------
(* Without failures every item in the vault, but for those left over from  *)
(* before, is that of an operation between its create and its end.         *)
ItemsOwned ==
    ~Faults => /\ \A i \in stored \ Leftover : \E o \in Op : Owner(o) /\ mine[o] = i
               /\ HeldIsMine

(***************************************************************************)
(* Only the end of an operation can leave an item without its owner, and   *)
(* it ends with its item deleted: a loser's own, or what `held` names,     *)
(* which is the winner's own as no other operation of its process is on.   *)
(***************************************************************************)
LEMMA ItemsOwnedStep ==
  ASSUME OneOpPerProcess, ~Faults
  PROVE  TypeOK /\ ItemsOwned /\ [Next]_vars => ItemsOwned'
<1> SUFFICES ASSUME TypeOK, ItemsOwned, [Next]_vars PROVE ItemsOwned'
  OBVIOUS
<1> USE OpAssumption, IdAssumption
<1> DEFINE OwnedBy(i, o) == Owner(o) /\ mine[o] = i
           Owned == \A i \in stored \ Leftover : \E o \in Op : OwnedBy(i, o)
<1>h. Owned /\ HeldIsMine
  BY DEF ItemsOwned
<1>t. /\ pc \in [Op -> PCs] /\ mine \in [Op -> used \cup {NoId}] /\ heldId \in [Proc -> used \cup {NoId}]
      /\ stored \subseteq used
  BY DEF TypeOK
<1>s. SUFFICES Owned' /\ HeldIsMine'
  BY DEF ItemsOwned
<1>k. ASSUME \A o \in Op : Owner(o) => Owner(o)' /\ mine'[o] = mine[o], stored' \subseteq stored
      PROVE  Owned'
  BY <1>h, <1>k
<1>m. ASSUME UNCHANGED heldId, \A o \in Op : pc'[o] = "running" => pc[o] = "running" /\ mine'[o] = mine[o]
      PROVE  HeldIsMine'
  BY <1>h, <1>m DEF HeldIsMine
\* o ends, and what it owned is deleted.
<1>e. ASSUME NEW o \in Op, Return({o}), stored' \subseteq stored \ {mine[o]} PROVE Owned'
  <2> SUFFICES ASSUME NEW i \in stored' \ Leftover PROVE \E x \in Op : OwnedBy(i, x)'
    OBVIOUS
  <2>1. PICK x \in Op : OwnedBy(i, x)
    BY <1>h, <1>e
  <2>2. x # o
    BY <2>1, <1>e
  <2>3. OwnedBy(i, x)'
    BY <2>1, <2>2, <1>e, <1>t DEF Return, Owner, Contender
  <2>4. QED
    BY <2>3
<1>1. ASSUME NEW o \in Op, Stamp(o) PROVE Owned' /\ HeldIsMine'
  BY <1>1, <1>k, <1>m, <1>t DEF Stamp, Goto, items, Owner, Contender
<1>2. ASSUME NEW o \in Op, Create(o) PROVE Owned' /\ HeldIsMine'
  <2>1. PICK i \in Id : NewItem(o, i) /\ mine' = [mine EXCEPT ![o] = i]
    BY <1>2 DEF Create
  <2>2. pc[o] = "stamped" /\ pc' = [pc EXCEPT ![o] = "created"] /\ heldId' = heldId
    BY <1>2 DEF Create, Goto
  <2>3. stored' = stored \cup {i}
    BY <2>1 DEF NewItem
  <2>4. OwnedBy(i, o)'
    BY <2>1, <2>2, <1>t DEF Owner, Contender
  <2>5. \A x \in Op : Owner(x) => x # o /\ Owner(x)' /\ mine'[x] = mine[x]
    BY <2>1, <2>2, <1>t DEF Owner, Contender
  <2>6. Owned'
    BY <2>3, <2>4, <2>5, <1>h
  <2>7. HeldIsMine'
    BY <1>m, <2>1, <2>2, <1>t
  <2>8. QED
    BY <2>6, <2>7
<1>3. ASSUME NEW o \in Op, CreateFails(o) PROVE Owned' /\ HeldIsMine'
  BY <1>3 DEF CreateFails
<1>4. ASSUME NEW o \in Op, ListRivals(o) \/ ReadRival(o) \/ RankRivals(o) \/ Yield(o)
      PROVE  Owned' /\ HeldIsMine'
  BY <1>4, <1>k, <1>m, <1>t DEF ListRivals, ReadRival, RankRivals, Yield, Goto, items, contest, Owner, Contender
<1>5. ASSUME NEW o \in Op, BreakStale(o) PROVE Owned' /\ HeldIsMine'
  BY <1>5, <1>k, <1>m, <1>t DEF BreakStale, Owner, Contender
<1>6. ASSUME NEW o \in Op, ContestFails(o) PROVE Owned' /\ HeldIsMine'
  BY <1>6 DEF ContestFails
<1>7. ASSUME NEW o \in Op, Win(o) PROVE Owned' /\ HeldIsMine'
  <2>1. /\ heldId' = [heldId EXCEPT ![ProcOf[o]] = mine[o]] /\ pc' = [pc EXCEPT ![o] = "running"]
        /\ pc[o] = "contesting" /\ mine' = mine /\ stored' = stored
    BY <1>7 DEF Win, Goto, items
  <2>2. Owned'
    BY <2>1, <1>k, <1>t DEF Owner, Contender
  <2>3. HeldIsMine'
    BY <2>1, <1>h, <1>t DEF HeldIsMine, OneOpPerProcess
  <2>4. QED
    BY <2>2, <2>3
<1>8. ASSUME NEW o \in Op, DropOwn(o) PROVE Owned' /\ HeldIsMine'
  <2>1. Return({o}) /\ stored' = stored \ {mine[o]} /\ heldId' = heldId
    BY <1>8 DEF DropOwn
  <2>2. HeldIsMine'
    BY <2>1, <1>m, <1>t DEF Return
  <2>3. QED
    BY <2>1, <2>2, <1>e
<1>9. ASSUME NEW o \in Op, Release(o) PROVE Owned' /\ HeldIsMine'
  <2>1. /\ Return({o}) /\ stored' = stored \ {heldId[ProcOf[o]]} /\ pc[o] = "running"
        /\ heldId' = [heldId EXCEPT ![ProcOf[o]] = NoId]
    BY <1>9 DEF Release
  <2>2. heldId[ProcOf[o]] = mine[o]
    BY <2>1, <1>h DEF HeldIsMine
  <2>3. \A x \in Op : pc'[x] = "running" => x # o /\ pc[x] = "running" /\ mine'[x] = mine[x]
    BY <2>1, <1>t DEF Return
  <2>4. HeldIsMine'
    BY <2>1, <2>3, <1>h, <1>t DEF HeldIsMine, OneOpPerProcess
  <2>5. QED
    BY <2>1, <2>2, <2>4, <1>e
<1>10. ASSUME NEW o \in Op, ReleaseFails(o) PROVE Owned' /\ HeldIsMine'
  BY <1>10 DEF ReleaseFails
<1>11. ASSUME NEW p \in Proc, Crash(p) PROVE Owned' /\ HeldIsMine'
  BY <1>11 DEF Crash
<1>12. CASE Tick
  BY <1>12, <1>k, <1>m, <1>t DEF Tick, items, Owner, Contender
<1>13. CASE UNCHANGED vars
  BY <1>13, <1>k, <1>m, <1>t DEF vars, Owner, Contender
<1>14. QED
  BY <1>1, <1>2, <1>3, <1>4, <1>5, <1>6, <1>7, <1>8, <1>9, <1>10, <1>11, <1>12, <1>13
     DEF Next, AcquireStep

(***************************************************************************)
(* While nothing fails nobody leaves a lock behind for others to wait on:  *)
(* acquire's error arm deletes a loser's item and release the winner's.    *)
(* With two operations of one app at once this is false where creation     *)
(* times cannot be read: `held` then names only the second winner's item.  *)
(***************************************************************************)
THEOREM NoLockOrphaned ==
  ASSUME OneOpPerProcess
  PROVE  Spec => []NoOrphanedLock
<1>1. CASE Faults
  <2>1. NoOrphanedLock
    BY <1>1 DEF NoOrphanedLock
  <2>2. QED
    BY <2>1, PTL
<1>2. CASE ~Faults
  <2>1. Init => ItemsOwned
    BY OpAssumption DEF Init, ItemsOwned, HeldIsMine
  <2>2. TypeOK /\ ItemsOwned /\ [Next]_vars => ItemsOwned'
    BY <1>2, ItemsOwnedStep
  <2>3. ItemsOwned => NoOrphanedLock
    BY DEF ItemsOwned, NoOrphanedLock, Owner, Contender
  <2>4. QED
    BY <2>1, <2>2, <2>3, TypeCorrect, PTL DEF Spec
<1>3. QED
  BY <1>1, <1>2

=============================================================================
