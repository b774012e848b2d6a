----------------------------- MODULE CaCommands -----------------------------
(***************************************************************************)
(* The certificate authority itself, from an empty vault: init, import,    *)
(* re-sign, configuration and rebuild (services/ca.rs, commands/ca.rs and  *)
(* commands/database.rs), local copies of the database                     *)
(* (services/local_backup.rs) and encrypted backups of the whole vault     *)
(* (services/vault.rs, commands/vault.rs).  In this area a failed write of *)
(* CA_Database may leave it unreadable.                                    *)
(***************************************************************************)
EXTENDS CertCommands

CONSTANT ImportSerial   \* what `ca import --serial` may give; 1 when it is left out

CrlItem == <<"CRL", 0>>
CaSerial == 1

\* The CA's serial is a name; a next serial is one, or the one after them all.
ASSUME CaAssumption == CaSerial \in Name /\ ImportSerial \subseteq 1..(Cardinality(Name) + 1)

NewRows(next) == {Cert(CaSerial, "Valid"), Serial(next)}
Loaded == db # {}

\* Mutant: the local copy is made of what was stored.
KeepAfter(old, new) == <<Store(old, new), Softly(Call("keep", 0))>>

\* store_ca_database: the local copy first, and a failure of it is only logged.
Stored(old, new) == <<Rows(old, new), Softly(Call("keep", 0)), Save>>

\* init and import_ca: only in a vault without a CA; what fails is dropped from memory.
FirstCalls(next) ==
    IF vault.items[CaItem] # 0 THEN <<Refuse>>
    ELSE <<Create(CaItem), Call("new_db", NewRows(next)), Rows({}, NewRows(next))>>

\* A bound: once there is a backup, a new vault is one to restore into, and the configuration stays.
NoBackupYet == vault.file = NoFile

InitCa == ~Loaded /\ NoBackupYet /\ InApp("init_ca", FirstCalls(CaSerial + 1))
CliInit == NoBackupYet /\ InCli("ca init", FirstCalls(CaSerial + 1), <<>>)
CliImport(next) == NoBackupYet /\ InCli("ca import", FirstCalls(next), <<>>)

\* ensure_ca: tried again by every command until it works.
LoadCa ==
    /\ client = "app" /\ run = Idle /\ ~Loaded /\ Retrieved # {}
    /\ db' = Retrieved
    /\ UNCHANGED <<area, vault, client, run, past, faults>>

\* A certificate; a serial that has a row already fails once the item is there.
SignCalls(d) ==
    IssueCalls(d)
    \o (IF NextSerial(d) \in Known(d) THEN <<Refuse>> ELSE Stored({}, {Cert(NextSerial(d), "Valid")}))
Sign == Loaded /\ CanIssue(db) /\ InApp("create_cert", SignCalls(db))
CliSign == Retrieved # {} /\ CanIssue(Retrieved) /\ InCli("cert create", SignCalls(Retrieved), <<>>)

\* update_config: the values given, in the one row there is.
ConfigRow == <<"config", 1>>

\* update_ca_config, refused for a CRL batch that has no public store.
ConfigCalls == {<<Refuse>>, Stored({}, {ConfigRow})}
UpdateConfig == NoBackupYet /\ Loaded /\ \E calls \in ConfigCalls : InApp("update_ca_config", calls)
CliConfigSet ==
    NoBackupYet /\ Retrieved # {} /\ \E calls \in ConfigCalls : InCli("config-set", calls, <<>>)

\* re_sign_ca: the item, then the database.
ResignCalls == <<Read(CaItem), Put(CaItem)>> \o Stored({}, {})
ResignCa == Loaded /\ InApp("resign_ca", ResignCalls)
CliResign == Retrieved # {} /\ InCli("ca resign", ResignCalls, <<>>)

\* The CRL of a CA that has revoked nothing.
MakeCrl == Loaded /\ InApp("generate_crl", <<Call("put_crl", {})>> \o Stored({}, {}))

-----------------------------------------------------------------------------
(* A database made anew from the items *)

InVault == {n \in Name : vault.items[CrtItem(n)] > 0}
Serials == InVault \cup {CaSerial}
MaxSerial == CHOOSE n \in Serials : \A k \in Serials : k <= n

\* do_rebuild_database: a serial given is kept when it is higher.
NextAfter(given) == IF MaxSerial < given THEN given ELSE MaxSerial + 1

\* rebuild_database: no database may be there; a serial found twice ends it.
RebuildCalls(given) ==
    LET rows == {Cert(n, "Valid") : n \in Serials} \cup {Serial(NextAfter(given))}
    IN  IF vault.items[CaItem] # 1 \/ vault.items[DbItem] # 0
           \/ CaSerial \in InVault \/ \E n \in InVault : vault.items[CrtItem(n)] > 1
        THEN <<Refuse>>
        ELSE <<Call("new_db", rows), Rows({}, rows)>> \o Stored({}, {})

CliRebuild(given) == InCli("database rebuild", RebuildCalls(given), <<>>)

\* The operator removes the document in 1Password, to have it rebuilt.
DatabaseRemoved ==
    /\ client = "none" /\ vault.bad
    /\ vault' = [vault EXCEPT !.items[DbItem] = 0, !.saved = {}, !.bad = FALSE]
    /\ UNCHANGED <<area, db, client, run, past, faults>>

-----------------------------------------------------------------------------
(* Local copies *)

\* restore_local_backup: only while the database is not loaded, and for this CA.
Restorable(copy) == ~Loaded /\ CaSerial \in Known(copy)

RestoreLocalBackup(copy) ==
    /\ Restorable(copy)
    /\ InApp("restore_local_backup", <<Read(CaItem), Call("unreadable", 0), Call("replace_db", copy),
                                       Rows({}, copy)>>)

-----------------------------------------------------------------------------
(* Backups of the whole vault *)

\* restore_order, and the order create_backup takes the items in.
Ordered == <<CaItem, DbItem, CrlItem>> \o [n \in 1..Cardinality(Name) |-> CrtItem(n)]

\* create_backup: what cannot be read is left out, all but the CA item; the notes are listed first.
BackupCalls ==
    LET taken == [i \in 2..Len(Ordered) |-> Silently(Call("take", Ordered[i]))]
    IN  <<Call("take", CaItem), taken[2], taken[3], Call("list_notes", 0)>>
        \o [n \in 1..Cardinality(Name) |-> taken[n + 3]] \o <<Call("write_file", 0)>>

BackUpVault == Loaded /\ InApp("vault_backup", BackupCalls)
CliBackUpVault == InCli("vault backup", BackupCalls, <<>>)

InFile(t) == t \in vault.file.titles
PutBack(t) ==
    CASE ~InFile(t) -> Rows({}, {})
      [] InFile(t) /\ t = DbItem -> Call("new_db", vault.file.rows)
      [] InFile(t) /\ t # DbItem -> Create(t)

\* Mutant: the CA comes last.
CaLast ==
    LET items == Tail(Ordered) \o <<CaItem>>
    IN  IF vault.items[CaItem] # 0 THEN <<Refuse>> ELSE [i \in 1..Len(items) |-> PutBack(items[i])]

\* restore_backup: into a vault without a CA, what is in the file, the CA first.
RestoreCalls ==
    IF vault.items[CaItem] # 0 THEN <<Refuse>> ELSE [i \in 1..Len(Ordered) |-> PutBack(Ordered[i])]

\* The app's connection is replaced by the one the restore made.
RestoreVault == InApp("vault_restore", RestoreCalls) /\ ~Loaded /\ vault.file # NoFile
CliRestoreVault == vault.file # NoFile /\ InCli("vault restore", RestoreCalls, <<>>)

\* create_vault: a new vault, on the same machine.
CreateVault ==
    /\ client = "none" /\ vault.file # NoFile /\ vault.items[CaItem] # 0
    /\ vault' = [Empty EXCEPT !.file = vault.file]
    /\ UNCHANGED <<area, db, client, run, past, faults>>

CaNext ==
    /\ area = "ca"
    /\ \/ InitCa \/ CliInit \/ LoadCa \/ Sign \/ CliSign \/ UpdateConfig \/ CliConfigSet
       \/ ResignCa \/ CliResign \/ MakeCrl \/ DatabaseRemoved \/ BackUpVault \/ CliBackUpVault
       \/ RestoreVault \/ CliRestoreVault \/ CreateVault
       \/ \E next \in ImportSerial : CliImport(next)
       \/ \E given \in {0} \cup Name : CliRebuild(given)
       \/ \E i \in 1..Len(vault.kept) : RestoreLocalBackup(vault.kept[i])

=============================================================================
