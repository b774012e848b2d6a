----------------------------- MODULE LocalCopies -----------------------------
(***************************************************************************)
(* The rolling local copies of the CA database (services/local_backup.rs): *)
(* one file per save, named after the second it is written in; the oldest  *)
(* names go when there are more than KeepCopies.  A copy of what was       *)
(* unreadable has another name and is never listed or pruned.              *)
(***************************************************************************)
EXTENDS Naturals, FiniteSets

CONSTANTS
    KeepCopies, \* KEEP_LOCAL_BACKUPS
    Dump,       \* dumps that differ
    MaxClock    \* bound on seconds

VARIABLES
    files,      \* by second: what the file named after it holds, or NoCopy
    unreadable, \* the seconds that a file of the other name is named after
    clock,
    saves       \* history: what was saved last in each second

copyVars == <<files, unreadable, clock, saves>>

NoCopy == "none"
Second == 1..MaxClock

ASSUME CopiesAssumption == KeepCopies \in Nat \ {0} /\ MaxClock \in Nat \ {0} /\ NoCopy \notin Dump

CopiesInit ==
    /\ files = [s \in Second |-> NoCopy] /\ unreadable = {} /\ clock = 1
    /\ saves = files

Tick ==
    /\ clock < MaxClock /\ clock' = clock + 1
    /\ UNCHANGED <<files, unreadable, saves>>

\* backup_files are sorted by name.
Newest(dir) ==
    LET named == {s \in Second : dir[s] # NoCopy}
    IN  IF named = {} THEN NoCopy ELSE dir[CHOOSE s \in named : \A k \in named : k <= s]

Later(dir, s) == {k \in Second : k > s /\ dir[k] # NoCopy}

\* prune: all but the newest KeepCopies.
Pruned(dir) == [s \in Second |-> IF Cardinality(Later(dir, s)) >= KeepCopies THEN NoCopy ELSE dir[s]]

\* Mutant: what any copy has is not written again.
IsKnown(c) == \E s \in Second : files[s] = c

Unchanged(c) == Newest(files) = c

\* write: unless it matches the newest; a file of this second is replaced.
Write(c) ==
    /\ files' = IF Unchanged(c) THEN files ELSE Pruned([files EXCEPT ![clock] = c])
    /\ saves' = [saves EXCEPT ![clock] = c]
    /\ UNCHANGED <<unreadable, clock>>

WriteUnreadable ==
    /\ unreadable' = unreadable \cup {clock}
    /\ UNCHANGED <<files, clock, saves>>

CopiesNext == Tick \/ WriteUnreadable \/ \E c \in Dump : Write(c)

-----------------------------------------------------------------------------
(* Properties *)

(* What was saved last in each of the latest KeepCopies seconds with a     *)
(* save is in a copy, whether it was written then or before, and although  *)
(* copies are skipped, replaced within a second and pruned.                *)
RecentKept ==
    \A s \in Second :
        (saves[s] # NoCopy /\ Cardinality({k \in Second : k > s /\ saves[k] # NoCopy}) < KeepCopies)
            => \E f \in Second : files[f] = saves[s]

=============================================================================
