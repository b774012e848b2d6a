---------------------------- MODULE CommandCalls ----------------------------
(***************************************************************************)
(* How a command of opCA runs: the command line (crates/opca-cli) and the  *)
(* desktop app (crates/opca-tauri) are lists of calls on 1Password, the    *)
(* stores and the CA database in memory.  Each call may fail, with or      *)
(* without having had its effect, and the process may die between any two. *)
(*                                                                         *)
(* One client is at work at a time; what two of them do to each other is   *)
(* in VaultLock and CaStore.  The app keeps the database in memory from    *)
(* one command to the next, so a failed save leaves it ahead of the vault. *)
(* A run of the model is about one area of the program.                    *)
(***************************************************************************)
EXTENDS Integers, Sequences, FiniteSets

CONSTANTS
    Name,       \* common names, domains, template names or serials
    MaxFault    \* bound on failures

ASSUME NameAssumption == IsFiniteSet(Name) /\ Name = 1..Cardinality(Name) /\ MaxFault \in Nat

VARIABLES
    area,       \* the commands this behaviour is about
    vault,      \* 1Password, the public store and the operator's disk
    db,         \* rows of the database in memory
    client,     \* who is at work: none, the app, a command line
    run,        \* the command and the calls left
    past,       \* certificates past their end date
    faults      \* failures so far

vars == <<area, vault, db, client, run, past, faults>>

Title == {"CSR", "EXT", "DKIM", "VPN", "SENT", "CRT"} \X Name
         \cup {"OpenVPN", "CRL", "CA", "DB"} \X {0}
CaItem == <<"CA", 0>>
DbItem == <<"DB", 0>>

Idle == [cmd |-> "idle", calls |-> <<>>, todo |-> <<>>, at |-> 0, done |-> {}, ok |-> TRUE]

\* An encrypted backup: the titles in it, the database, and what there was to take.
NoFile == [titles |-> {}, rows |-> {}, was |-> <<>>]

\* `bad` says the stored database cannot be read, `saved` is then the last good one;
\* `kept` are the local copies of it, `draft` and `file` a backup being made and made.
Empty == [items |-> [t \in Title |-> 0], fields |-> {}, notes |-> {}, copy |-> {},
          crl |-> {}, public |-> {}, saved |-> {}, bad |-> FALSE,
          kept |-> <<>>, draft |-> NoFile, file |-> NoFile]

KeepLocal == 2  \* KEEP_LOCAL_BACKUPS

TypeOK ==
    /\ vault.items \in [Title -> 0..2]
    /\ {vault.fields, vault.notes, vault.copy, vault.crl, vault.public, past} \subseteq SUBSET Name
    /\ Len(vault.kept) <= KeepLocal /\ vault.bad \in BOOLEAN
    /\ client \in {"none", "app", "cli"} /\ (client = "none" => run = Idle)
    /\ run.ok \in BOOLEAN /\ run.done \subseteq Name \cup {0} /\ faults \in 0..MaxFault

-----------------------------------------------------------------------------
(* Calls.  A call is what it does, to what, and what its caller does when  *)
(* it fails: return the error, or report it and carry on.                  *)

Call(do, of) == [do |-> do, of |-> of, on |-> "stop"]
Softly(c) == [c EXCEPT !.on = "go"]
Silently(c) == [c EXCEPT !.on = "ignore"]

Create(t) == Call("create", t)
Put(t) == Call("put", t)
Read(t) == Call("read", t)
Look(t) == Call("look", t)  \* no item is no error
Archive(t) == Call("archive", t)
ArchiveIfThere(t) == Call("archive_if_there", t)
Rows(old, new) == Call("rows", [old |-> old, new |-> new])
Store(old, new) == Call("store", [old |-> old, new |-> new])  \* rows, then store_ca_database
Save == Store({}, {})
Refuse == Call("refuse", 0)     \* an early return with an error

\* A title that names no item, or more than one, cannot be read or archived.
Possible(c) ==
    CASE c.do \in {"read", "archive", "remove_fields", "take"} -> vault.items[c.of] = 1
      [] c.do \in {"store", "new_db"} -> vault.items[DbItem] # 2
      [] c.do = "replace_db" -> vault.items[DbItem] = 1
      [] c.do \in {"put", "archive_if_there", "look"} -> vault.items[c.of] # 2
      [] OTHER -> c.do # "refuse"

\* create_item and create_document do not mind a title in use.
More(n) == IF n = 2 THEN 2 ELSE n + 1

\* The database in memory, which a call may change before it goes out.
Written(c) == IF c.do \in {"rows", "store"} THEN (db \ c.of.old) \cup c.of.new ELSE db

\* put_document of CA_Database, whole or cut short.
Saved(rows) == [vault EXCEPT !.items[DbItem] = 1, !.saved = rows, !.bad = FALSE]
Damaged == [vault EXCEPT !.items[DbItem] = 1, !.bad = TRUE]

\* LocalBackup::write: unless it is the newest already; the oldest go.
Keep(kept, rows) ==
    IF kept # <<>> /\ kept[Len(kept)] = rows THEN kept
    ELSE LET all == Append(kept, rows)
         IN  SubSeq(all, IF Len(all) > KeepLocal THEN 2 ELSE 1, Len(all))

\* VaultBackup::create_backup, one item; the first is the CA's.
Take(draft, t) ==
    [titles |-> (IF t = CaItem THEN {} ELSE draft.titles) \cup {t},
     rows |-> CASE t = CaItem -> {} [] t = DbItem -> vault.saved [] OTHER -> draft.rows,
     was |-> <<vault.items, vault.saved>>]

\* What a call leaves in 1Password, in the public store and on disk.
VaultAfter(c) ==
    CASE c.do = "create" -> [vault EXCEPT !.items[c.of] = More(@)]
      [] c.do = "put" -> [vault EXCEPT !.items[c.of] = 1]
      [] c.do \in {"archive", "archive_if_there"} -> [vault EXCEPT !.items[c.of] = 0]
      [] c.do = "store" -> Saved(Written(c))
      [] c.do \in {"new_db", "replace_db"} -> Saved(c.of)
      [] c.do = "keep" -> [vault EXCEPT !.kept = Keep(@, db)]
      [] c.do = "take" -> [vault EXCEPT !.draft = Take(@, c.of)]
      [] c.do = "write_file" -> [vault EXCEPT !.file = vault.draft, !.draft = NoFile]
      [] c.do = "put_crl" -> [vault EXCEPT !.items[<<"CRL", 0>>] = 1, !.crl = c.of]
      [] c.do = "publish" -> [vault EXCEPT !.public = @ \cup {c.of}]
      [] c.do = "note_fields" -> [vault EXCEPT !.copy = @ \cup vault.fields]
      [] c.do = "archive_note" -> [vault EXCEPT !.notes = @ \cup vault.copy, !.copy = {}]
      [] c.do = "remove_fields" -> [vault EXCEPT !.fields = {}]
      [] OTHER -> vault

\* upload_published stamps the row once the upload is done.
DbAfter(c) ==
    IF c.do = "publish" THEN {r \in db : r[1] # "published"} \cup {<<"published", c.of>>}
    ELSE Written(c)

-----------------------------------------------------------------------------
(* Running a command *)

Started(cmd, calls, todo) == [Idle EXCEPT !.cmd = cmd, !.calls = calls, !.todo = todo]

\* A Tauri command: ensure_ca has the database in memory already.
InApp(cmd, calls) ==
    /\ client = "app" /\ run = Idle
    /\ run' = Started(cmd, calls, <<>>)
    /\ UNCHANGED <<area, vault, db, client, past, faults>>

\* A bulk command goes through its items one after the other.
BulkInApp(cmd, todo) ==
    /\ client = "app" /\ run = Idle
    /\ run' = Started(cmd, <<>>, todo)
    /\ UNCHANGED <<area, vault, db, client, past, faults>>

\* CertificateAuthority::retrieve, which fails on a database it cannot read.
Retrieved == IF vault.bad THEN {} ELSE vault.saved

\* A command line loads the CA, does its work and exits.
InCli(cmd, calls, todo) ==
    /\ client = "none" /\ client' = "cli"
    /\ db' = Retrieved
    /\ run' = Started(cmd, calls, todo)
    /\ UNCHANGED <<area, vault, past, faults>>

Busy == client # "none" /\ run.calls # <<>>

Succeeds ==
    /\ Busy /\ Possible(Head(run.calls))
    /\ vault' = VaultAfter(Head(run.calls)) /\ db' = DbAfter(Head(run.calls))
    /\ run' = [run EXCEPT !.calls = Tail(@)]
    /\ UNCHANGED <<area, client, past, faults>>

\* The caller returns the error; a bulk command goes on with its next item.
Reported(c) ==
    run' = [run EXCEPT !.calls = IF c.on = "stop" THEN <<>> ELSE Tail(@),
                       !.ok = @ /\ c.on = "ignore"]

\* The call names nothing, or more than one item.
Refused ==
    /\ Busy /\ ~Possible(Head(run.calls))
    /\ Reported(Head(run.calls))
    /\ UNCHANGED <<area, vault, db, client, past, faults>>

\* The call fails, whether or not it took effect; SQLite in memory does not.
Fails ==
    /\ Busy /\ faults < MaxFault /\ faults' = faults + 1
    /\ LET c == Head(run.calls)
       IN  /\ c.do \notin {"rows", "refuse"}
           /\ \/ vault' = vault
              \/ Possible(c) /\ vault' = VaultAfter(c)
              \/ c.do \in {"store", "new_db", "replace_db"} /\ area = "ca" /\ vault' = Damaged
           /\ db' = Written(c)
           /\ Reported(c)
    /\ UNCHANGED <<area, client, past>>

\* The next item of a bulk command, and what it calls.
NextItem(calls) ==
    /\ client # "none" /\ run.calls = <<>> /\ run.todo # <<>>
    /\ run' = [run EXCEPT !.calls = calls, !.todo = Tail(@), !.at = Head(run.todo), !.ok = TRUE,
                          !.done = IF run.ok /\ run.at # 0 THEN @ \cup {run.at} ELSE @]
    /\ UNCHANGED <<area, vault, db, client, past, faults>>

\* The command returns; a command line ends with it.
Ends ==
    /\ run # Idle /\ run.calls = <<>> /\ run.todo = <<>>
    /\ run' = Idle
    /\ client' = IF client = "cli" THEN "none" ELSE client
    /\ db' = IF client = "cli" THEN {} ELSE db
    /\ UNCHANGED <<area, vault, past, faults>>

OpenApp ==
    /\ client = "none" /\ client' = "app" /\ db' = Retrieved
    /\ UNCHANGED <<area, vault, run, past, faults>>

\* The connection is dropped, and with it the database in memory.
Leave == client' = "none" /\ db' = {} /\ run' = Idle /\ UNCHANGED <<area, vault, past>>

CloseApp == client = "app" /\ run = Idle /\ Leave /\ UNCHANGED faults

Crash == run # Idle /\ faults < MaxFault /\ faults' = faults + 1 /\ Leave

=============================================================================
