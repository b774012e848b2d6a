-------------------------- MODULE OpenVpnCommands --------------------------
(***************************************************************************)
(* OpenVPN: services/openvpn.rs and commands/openvpn.rs of the command     *)
(* line and of the app.  Templates live in the database; older versions    *)
(* kept them as fields of the OpenVPN item, next to the server's keys.     *)
(* They are imported once, and an operator then archives or keeps the      *)
(* fields.  A profile is a document VPN_... and a row.                     *)
(***************************************************************************)
EXTENDS CommandCalls

OpenVpn == <<"OpenVPN", 0>>
VpnItem(c) == <<"VPN", c>>
Sent(c) == <<"SENT", c>>       \* the document in another vault

Content == {"vault", "edited"}  \* as on the item, or as an operator saved it
Template(c, x) == <<"tpl", c, x>>
Copies(c) == {Template(c, x) : x \in Content}
Templates(d) == {c \in Name : Copies(c) \cap d # {}}

\* TemplateImport, which a database of an older version does not have.
ImportRows == {<<"import", "AwaitingCleanup">>, <<"import", "Settled">>}
NotImported(d) == ImportRows \cap d = {}
Settle == <<Store(ImportRows, {<<"import", "Settled">>})>>

\* import_templates_from_vault: once per CA, over what the database has.
ImportCalls(d) ==
    IF ~NotImported(d) THEN <<>>
    ELSE <<Look(OpenVpn),
           Store(UNION {Copies(c) : c \in vault.fields},
                {Template(c, "vault") : c \in vault.fields}
                \cup {<<"import", IF vault.fields = {} THEN "Settled" ELSE "AwaitingCleanup">>})>>

\* The templates once the import has run.
Imported(d) == Templates(d) \cup (IF NotImported(d) THEN vault.fields ELSE {})

\* copy_missing_templates: the database's copies are left alone.
CopyMissing(d) ==
    LET missing == vault.fields \ Templates(d)
    IN  IF missing = {} THEN <<>> ELSE <<Store({}, {Template(c, "vault") : c \in missing})>>

\* templates_awaiting_cleanup.
AwaitingCalls(d) ==
    IF <<"import", "AwaitingCleanup">> \notin d THEN <<>>
    ELSE <<Look(OpenVpn)>> \o (IF vault.fields = {} THEN Settle ELSE CopyMissing(d))

\* Mutant: the fields go before the note that keeps them.
RemoveFirst(d) ==
    <<Look(OpenVpn)>>
    \o (IF vault.fields = {} THEN <<>>
        ELSE CopyMissing(d) \o <<Call("remove_fields", OpenVpn), Call("note_fields", 0),
                                 Call("archive_note", 0)>>)
    \o Settle

\* archive_vault_templates: copied and archived before they are removed.
ArchiveCalls(d) ==
    <<Look(OpenVpn)>>
    \o (IF vault.fields = {} THEN <<>>
        ELSE CopyMissing(d) \o <<Call("note_fields", 0), Call("archive_note", 0),
                                 Call("remove_fields", OpenVpn)>>)
    \o Settle

\* save_template: imports first, so that the import cannot undo the write.
SaveTemplateCalls(d, c) == ImportCalls(d) \o <<Store(Copies(c), {Template(c, "edited")})>>

AddStarterCalls(d, c) ==
    IF c \in Imported(d) THEN ImportCalls(d) ELSE SaveTemplateCalls(d, c)

DeleteTemplateCalls(d, c) ==
    ImportCalls(d) \o (IF c \in Imported(d) THEN <<Store(Copies(c), {})>> ELSE <<>>)

ListTemplates == InApp("list_openvpn_templates", ImportCalls(db))
CliGetTemplate == InCli("openvpn get", ImportCalls(vault.saved), <<>>)
ListVaultTemplates == InApp("list_openvpn_vault_templates", AwaitingCalls(db))
ArchiveVaultTemplates == InApp("archive_openvpn_vault_templates", ArchiveCalls(db))
KeepVaultTemplates == InApp("keep_openvpn_vault_templates", Settle)
SaveTemplate(c) == InApp("save_openvpn_template", SaveTemplateCalls(db, c))
DeleteTemplate(c) == InApp("delete_openvpn_template", DeleteTemplateCalls(db, c))

-----------------------------------------------------------------------------
(* The server's parameters *)

\* generate_openvpn_dh and generate_openvpn_ta, also imported by the command line.
GenerateKeys == InApp("generate_openvpn_dh", <<Put(OpenVpn)>>)
CliStoreKeys == InCli("openvpn generate", <<Put(OpenVpn)>>, <<>>)

\* setup_openvpn_server writes only the fields that are missing.
SetupServer(c) ==
    \E calls \in {<<Put(OpenVpn)>>} \cup (IF vault.items[OpenVpn] = 1 THEN {<<>>} ELSE {}) :
        InApp("setup_openvpn_server", <<Look(OpenVpn)>> \o calls \o AddStarterCalls(db, c))
CliSetup(c) == InCli("openvpn setup", <<Put(OpenVpn)>> \o AddStarterCalls(vault.saved, c), <<>>)

-----------------------------------------------------------------------------
(* Profiles *)

Profile(c) == <<"vpn", c, "generated">>
Entry(c) == <<"vpn", c, "entry">>
ProfileRows(C) == {Profile(c) : c \in C} \cup {Entry(c) : c \in C}

\* do_generate_openvpn_profile, the document being t.
GenerateCalls(d, c, t) ==
    ImportCalls(d) \o <<Call("inject", 0), Put(t), Store(ProfileRows({c}), {Profile(c)})>>

GenerateProfile(c, t) ==
    Imported(db) # {} /\ InApp("generate_openvpn_profile", GenerateCalls(db, c, t))

BulkGenerateProfiles(todo) == Imported(db) # {} /\ BulkInApp("bulk_generate_profiles", todo)

\* The command line stores a new document each time, and no row.
CliGenerateProfile(c) ==
    /\ Imported(vault.saved) # {}
    /\ InCli("openvpn generate --profile",
             ImportCalls(vault.saved) \o <<Call("inject", 0), Create(VpnItem(c))>>, <<>>)

AddEntries(C) ==
    InApp("add_openvpn_profile_entries", <<Store(ProfileRows(C), {Entry(c) : c \in C})>>)

\* delete_openvpn_profile and bulk_delete_openvpn_profiles: the document stays.
DeleteProfiles(C) == InApp("delete_openvpn_profile", <<Store(ProfileRows(C), {})>>)

SendProfile(c) == InApp("send_profile_to_vault", <<Read(VpnItem(c)), Create(Sent(c))>>)

\* An older version puts a template on the item, as it always did.
OlderClientAdds(c) ==
    /\ client = "none" /\ c \notin vault.fields /\ vault.items[OpenVpn] # 2
    /\ vault' = [vault EXCEPT !.fields = @ \cup {c}, !.items[OpenVpn] = 1]
    /\ UNCHANGED <<area, db, client, run, past, faults>>

OpenVpnNext ==
    /\ area = "openvpn"
    /\ \/ ListTemplates \/ CliGetTemplate \/ ListVaultTemplates
       \/ ArchiveVaultTemplates \/ KeepVaultTemplates \/ GenerateKeys \/ CliStoreKeys
       \/ \E c \in Name : \/ SaveTemplate(c) \/ DeleteTemplate(c) \/ SetupServer(c) \/ CliSetup(c)
                          \/ OlderClientAdds(c)

ProfileNext ==
    /\ area = "profiles"
    /\ \/ \E c \in Name : \/ GenerateProfile(c, VpnItem(c)) \/ GenerateProfile(c, Sent(c))
                          \/ CliGenerateProfile(c) \/ SendProfile(c)
       \/ \E C \in SUBSET Name \ {{}} : AddEntries(C) \/ DeleteProfiles(C)
       \/ \E todo \in {<<c, d>> : c \in Name, d \in Name} : BulkGenerateProfiles(todo)
       \/ /\ run.cmd = "bulk_generate_profiles"
          /\ NextItem(GenerateCalls(db, Head(run.todo), VpnItem(Head(run.todo))))

=============================================================================
