---------------------------- MODULE DkimCommands ---------------------------
(***************************************************************************)
(* DKIM keys: commands/dkim.rs of the command line and of the app.  The    *)
(* key is an item DKIM_<domain>_<selector>; the app keeps a row of it so   *)
(* that its list needs no call.  Older clients, and the command line,      *)
(* write items without a row, and `op` deletes them without one.           *)
(***************************************************************************)
EXTENDS CommandCalls

DkimItem(c) == <<"DKIM", c>>
DkimRow(c) == <<"dkim", c>>
DkimRows(d) == {r \in d : r[1] = "dkim"}

\* The keys whose items `op item list` returns; a title used twice is one key.
Live == {c \in Name : vault.items[DkimItem(c)] > 0}

\* create_dkim_key: refused when the item exists.
CreateDkimKey(c) ==
    /\ vault.items[DkimItem(c)] = 0
    /\ InApp("create_dkim_key", <<Create(DkimItem(c)), Store({}, {DkimRow(c)})>>)

CliCreateDkim(c) ==
    /\ vault.items[DkimItem(c)] = 0
    /\ InCli("dkim create", <<Create(DkimItem(c))>>, <<>>)

\* delete_dkim_key: an item that is not there is an error.
DeleteDkimKey(c) ==
    InApp("delete_dkim_key", <<Archive(DkimItem(c)), Store({DkimRow(c)}, {})>>)

\* sync_dkim: the rows become the live keys.
SyncedRows == {DkimRow(c) : c \in Live}

\* do_sync_dkim_keys: stored only if the rows in memory changed.
SyncCalls ==
    IF SyncedRows = DkimRows(db) THEN <<>>
    ELSE <<Store(DkimRows(db), SyncedRows)>>

SyncDkimKeys == InApp("sync_dkim_keys", SyncCalls)

\* list_dkim_keys: a first look, with no row yet, syncs.
ListDkimKeys == DkimRows(db) = {} /\ InApp("list_dkim_keys", SyncCalls)

\* backfill_dkim, behind the page of a listed key: the row is written, not stored.
BackfillDkim(c) ==
    /\ DkimRow(c) \in db
    /\ InApp("backfill_dkim", <<Read(DkimItem(c)), Rows({}, {DkimRow(c)})>>)

\* `op item delete`, or an older client.
DeletedElsewhere(c) ==
    /\ client = "none" /\ vault.items[DkimItem(c)] = 1
    /\ vault' = [vault EXCEPT !.items[DkimItem(c)] = 0]
    /\ UNCHANGED <<area, db, client, run, past, faults>>

DkimNext ==
    /\ area = "dkim"
    /\ \/ \E c \in Name : \/ CreateDkimKey(c) \/ CliCreateDkim(c) \/ DeleteDkimKey(c)
                          \/ BackfillDkim(c) \/ DeletedElsewhere(c)
       \/ SyncDkimKeys \/ ListDkimKeys

=============================================================================
