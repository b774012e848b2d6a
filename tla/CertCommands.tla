---------------------------- MODULE CertCommands ---------------------------
(***************************************************************************)
(* A certificate from issue to delete, over its renewals: commands/cert.rs *)
(* and commands/crl.rs of the command line and of the app, their bulk      *)
(* forms, the dashboard, and services/ca/publish.rs.  The names of this    *)
(* area are the serials of one common name, in the order they are issued.  *)
(* Two sessions that issue or revoke at once are in CaStore.               *)
(***************************************************************************)
EXTENDS CommandCalls

CrtItem(n) == <<"CRT", n>>
Cert(n, status) == <<"cert", n, status>>
Ignored(n) == <<"ignored", n>>
Gone(n) == <<"gone", n>>
Published(n) == <<"published", n>>
Serial(n) == <<"next", n>>

NextSerial(d) == CHOOSE n \in 1..(Cardinality(Name) + 1) : Serial(n) \in d
Statuses(d, n) == {s \in {"Valid", "Expired", "Revoked"} : Cert(n, s) \in d}
Is(d, n, s) == Cert(n, s) \in d
Known(d) == {n \in Name : Statuses(d, n) # {}}

\* process_ca_database: what is past its end is Expired, whatever it was; R is revoked.
Process(d, R) ==
    LET old == {n \in Known(d) \cap past : ~Is(d, n, "Expired")}
        rev == {n \in R \ past : Is(d, n, "Valid")}
    IN  [old |-> UNION {{Cert(n, s) : s \in Statuses(d, n)} : n \in old \cup rev},
         new |-> {Cert(n, "Expired") : n \in old} \cup {Cert(n, "Revoked") : n \in rev}]
After(d, p) == (d \ p.old) \cup p.new

\* issue_certificate and store_certbundle_for: the serial is spent in memory first.
IssueCalls(d) == LET n == NextSerial(d) IN <<Rows({Serial(n)}, {Serial(n + 1)}), Create(CrtItem(n))>>
CanIssue(d) == NextSerial(d) \in Name
Issued(d, replaced) == {Cert(NextSerial(d), "Valid")} \cup {Ignored(o) : o \in replaced}

\* generate_certificate_bundle.
CreateCalls(d) == IssueCalls(d) \o <<Store({}, Issued(d, {}))>>
CreateCert == InApp("create_cert", CreateCalls(db)) /\ CanIssue(db)
CliCreateCert == CanIssue(vault.saved) /\ InCli("cert create", CreateCalls(vault.saved), <<>>)

\* renew_certificate_bundle: of a Valid row; a published one's renewal is published.
RenewCalls(d, o) ==
    <<Read(CrtItem(o))>> \o IssueCalls(d)
    \o (IF Published(o) \in d
        THEN <<Rows({}, Issued(d, {o})), Softly(Call("publish", NextSerial(d))), Save>>
        ELSE <<Store({}, Issued(d, {o}))>>)

\* rekey_certificate_bundle: of any row, and never published.
RekeyCalls(d, o) == <<Read(CrtItem(o))>> \o IssueCalls(d) \o <<Store({}, Issued(d, {o}))>>

\* revoke_certificate.
RevokeCalls(d, o) == <<Call("store", Process(d, {o}))>>

\* The items of the running command that went well.
Won == (run.done \cup (IF run.ok THEN {run.at} ELSE {})) \ {0}

\* Mutant: the CRL lists what this command revoked.
JustRevoked(d) == <<Call("put_crl", {n \in Won : Is(d, n, "Revoked")}), Save>>

\* generate_crl: the CRL item, then the database with its number.
CrlCalls(d) == <<Call("put_crl", {n \in Name : Is(d, n, "Revoked")}), Save>>

\* delete_certificate: a forced scan first, and only a revoked or expired one.
DeleteCalls(d, n) ==
    LET p == Process(d, {})
    IN  IF Is(After(d, p), n, "Valid") THEN <<Call("rows", p), Refuse>>
        ELSE <<Call("rows", p), ArchiveIfThere(CrtItem(n)), Store({}, {Ignored(n), Gone(n)})>>

IgnoreCalls(n) == <<Store({}, {Ignored(n)})>>
UnignoreCalls(n) == <<Store({Ignored(n)}, {})>>

\* publish_certificate.
PublishCalls(n) == <<Read(CrtItem(n)), Call("publish", n), Save>>
Publishable(d, n) == n \in Known(d) \ past /\ ~Is(d, n, "Revoked")

-----------------------------------------------------------------------------
(* Commands, each for one serial after the other *)

\* Whether the command is for the serial at all.
For(d, cmd, n) ==
    CASE cmd \in {"renew", "revoke"} -> Is(d, n, "Valid")
      [] cmd = "delete" -> n \in Known(d) /\ Gone(n) \notin d
      [] cmd = "publish" -> Publishable(d, n)
      [] OTHER -> n \in Known(d)

\* What it calls for one serial; 0 stands for the CRL after revocations.
ItemCalls(cmd, n) ==
    CASE n = 0 -> IF Won = {} THEN <<>> ELSE CrlCalls(db)
      [] n # 0 /\ ~For(db, cmd, n) -> <<Refuse>>
      [] OTHER -> CASE cmd = "revoke" -> RevokeCalls(db, n)
                    [] cmd = "renew" -> RenewCalls(db, n)
                    [] cmd = "rekey" -> RekeyCalls(db, n)
                    [] cmd = "delete" -> DeleteCalls(db, n)
                    [] cmd = "ignore" -> IgnoreCalls(n)
                    [] cmd = "unignore" -> UnignoreCalls(n)
                    [] cmd = "publish" -> PublishCalls(n)

\* The name bound: a renewal or rekey of every serial listed has a serial left.
Room(d, cmd, todo) ==
    cmd \in {"renew", "rekey"} => NextSerial(d) + Len(todo) - 1 \in Name

InAppFor(cmd, todo) == BulkInApp(cmd, todo) /\ Room(db, cmd, todo)
InCliFor(cmd, todo) == Room(vault.saved, cmd, todo) /\ InCli(cmd, <<>>, todo)

RevokeCert(n) == InAppFor("revoke", <<n, 0>>)
DeleteCert(n) == InAppFor("delete", <<n>>)
RenewCert(n) == InAppFor("renew", <<n>>)
RekeyCert(n) == InAppFor("rekey", <<n>>)
PublishCert(n) == InAppFor("publish", <<n>>)
IgnoreCert(n) == InAppFor("ignore", <<n>>)
UnignoreCert(n) == InAppFor("unignore", <<n>>)

\* run_bulk_cert_op: an item that fails is noted, and the loop goes on.
BulkCerts(cmd, n, k) ==
    InAppFor(cmd, IF cmd = "revoke" THEN <<n, k, 0>> ELSE <<n, k>>)

CliRevoke(todo) == InCliFor("revoke", Append(todo, 0))
CliRenew(n) == InCliFor("renew", <<n>>)
CliRekey(n) == InCliFor("rekey", <<n>>)

\* By name when exactly one certificate of it can be deleted, or by serial.
CliDelete(n) == InCliFor("delete", <<n>>)

\* By serial, or by name for the latest certificate.
CliPublish(n) == InCliFor("publish", <<n>>)

\* The scan that generate_crl starts with is skipped when nothing changed.
Scans(d) == {[old |-> {}, new |-> {}], Process(d, {})}
GenerateCrl == \E p \in Scans(db) : InApp("generate_crl", <<Call("rows", p)>> \o CrlCalls(After(db, p)))
CliCreateCrl ==
    LET p == Process(vault.saved, {})
    IN  InCli("crl create", <<Call("rows", p)>> \o CrlCalls(After(vault.saved, p)), <<>>)

\* list_certs and the other lists scan in memory.
ListCerts == \E p \in Scans(db) : InApp("list_certs", <<Call("rows", p)>>)

\* get_dashboard scans, and saves what the scan changed; a failure is logged.
GetDashboard ==
    LET p == Process(db, {})
    IN  InApp("get_dashboard", IF p.new = {} THEN <<>> ELSE <<Softly(Call("store", p))>>)

\* backfill_cert: the bundle if it can be read, and a save of what it filled in.
BackfillCert(n) ==
    n \in Known(db) /\ InApp("backfill_cert", <<Softly(Read(CrtItem(n))), Softly(Save)>>)

\* Time passes between commands.
Expire(n) ==
    /\ run = Idle /\ n \in (Known(db) \cup Known(vault.saved)) \ past
    /\ past' = past \cup {n}
    /\ UNCHANGED <<area, vault, db, client, run, faults>>

Issuing ==
    \/ CreateCert \/ CliCreateCert
    \/ \E n \in Name : RenewCert(n) \/ CliRenew(n) \/ RevokeCert(n) \/ Expire(n)
    \/ run.todo # <<>> /\ NextItem(ItemCalls(run.cmd, Head(run.todo)))

Bulk(cmds) == \E cmd \in cmds, n \in Name : \E k \in Name \ {n} : BulkCerts(cmd, n, k)

\* From issue to delete.
CertNext ==
    /\ area = "cert"
    /\ \/ Issuing \/ GenerateCrl \/ CliCreateCrl \/ ListCerts \/ GetDashboard
       \/ Bulk({"rekey", "revoke", "delete"})
       \/ \E n \in Name : \/ DeleteCert(n) \/ RekeyCert(n) \/ CliRevoke(<<n>>) \/ CliRekey(n)
                          \/ CliDelete(n)

\* The marks on a row: published, ignored.
MarkNext ==
    /\ area = "marks"
    /\ \/ Issuing \/ Bulk({"renew", "ignore", "unignore"})
       \/ \E n \in Name : \/ PublishCert(n) \/ CliPublish(n) \/ IgnoreCert(n) \/ UnignoreCert(n)
                          \/ BackfillCert(n)

=============================================================================
