------------------------- MODULE CommandCallsProofs -------------------------
(* Proofs about the commands on one vault, call by call, for any names and any number of failures. *)
EXTENDS Commands, FiniteSetTheorems, SequenceTheorems, WellFoundedInduction, TLAPS

-----------------------------------------------------------------------------
(* What a command leaves of a revocation *)

VaultFields == {"items", "fields", "notes", "copy", "crl", "public", "saved", "bad", "kept", "draft", "file"}
RunFields == {"cmd", "calls", "todo", "at", "done", "ok"}

(***************************************************************************)
(* A command is under way only with a client at work; what it is, and what *)
(* is in 1Password, have their fields.                                     *)
(***************************************************************************)
Formed ==
    /\ vault = [f \in VaultFields |-> vault[f]] /\ run = [f \in RunFields |-> run[f]]
    /\ client = "none" => run = Idle

\* A list of serials with the CRL at its end.
EndsInCrl(todo) == todo \in Seq(Nat) /\ todo # <<>> /\ todo[Len(todo)] = 0

(***************************************************************************)
(* The steps a command can take, by what they have in common.              *)
(***************************************************************************)
StartsInApp == \E cmd, calls : InApp(cmd, calls)
StartsInCli == \E cmd, calls : InCli(cmd, calls, <<>>)
StartsList ==
    \E cmd, todo : /\ BulkInApp(cmd, todo) \/ InCli(cmd, <<>>, todo)
                   /\ cmd = "revoke" => EndsInCrl(todo)
NextOfList ==
    \/ run.todo # <<>> /\ NextItem(ItemCalls(run.cmd, Head(run.todo)))
    \/ run.cmd = "bulk_generate_profiles" /\ \E calls : NextItem(calls)
Elsewhere ==
    \/ \E c \in Name : \/ area = "dkim" /\ DeletedElsewhere(c)
                       \/ area = "openvpn" /\ OlderClientAdds(c)
                       \/ area \in {"cert", "marks"} /\ Expire(c)
    \/ area = "ca" /\ (DatabaseRemoved \/ CreateVault \/ LoadCa)

(***************************************************************************)
(* The names are numbers from 1 on.                                        *)
(***************************************************************************)
LEMMA Names == Cardinality(Name) \in Nat /\ Name = 1..Cardinality(Name) /\ Name \subseteq Nat \ {0}
BY NameAssumption, FS_CardinalityType

(***************************************************************************)
(* Every command is of one of these kinds.                                 *)
(***************************************************************************)
LEMMA StepKinds ==
  ASSUME CommandNext
  PROVE  \/ StartsInApp \/ StartsInCli \/ StartsList \/ NextOfList \/ Elsewhere
         \/ Succeeds \/ Refused \/ Fails \/ Ends \/ OpenApp \/ CloseApp \/ Crash
<1>l. /\ \A n \in Name : <<n, 0>> \in Seq(Nat) /\ EndsInCrl(<<n, 0>>) /\ EndsInCrl(Append(<<n>>, 0))
      /\ \A n, k \in Name : EndsInCrl(<<n, k, 0>>)
  BY Names DEF EndsInCrl
<1>1. CASE CsrNext
  <2>1. ASSUME NEW c \in Name, CreateCsr(c) \/ GenerateCsrFromCert(c) \/ ImportCsrCert(c) \/ ImportCert(c)
        PROVE  StartsInApp
    BY <2>1 DEF CreateCsr, GenerateCsrFromCert, ImportCsrCert, ImportCert, StartsInApp
  <2>2. ASSUME NEW c \in Name, CliCreateCsr(c) \/ CliDeleteCsr(c) \/ CliImportCsrCert(c) \/ CliImportCert(c)
        PROVE  StartsInCli
    BY <2>2 DEF CliCreateCsr, CliDeleteCsr, CliImportCsrCert, CliImportCert, StartsInCli
  <2>3. ASSUME NEW r \in CsrRows(db), DeleteCsr(r) PROVE StartsInApp
    BY <2>3 DEF DeleteCsr, StartsInApp
  <2>4. QED
    BY <1>1, <2>1, <2>2, <2>3 DEF CsrNext
<1>2. CASE DkimNext
  <2>1. ASSUME NEW c \in Name, CreateDkimKey(c) \/ DeleteDkimKey(c) \/ BackfillDkim(c) PROVE StartsInApp
    BY <2>1 DEF CreateDkimKey, DeleteDkimKey, BackfillDkim, StartsInApp
  <2>2. ASSUME NEW c \in Name, CliCreateDkim(c) PROVE StartsInCli
    BY <2>2 DEF CliCreateDkim, StartsInCli
  <2>3. ASSUME SyncDkimKeys \/ ListDkimKeys PROVE StartsInApp
    BY <2>3 DEF SyncDkimKeys, ListDkimKeys, StartsInApp
  <2>4. QED
    BY <1>2, <2>1, <2>2, <2>3 DEF DkimNext, Elsewhere
<1>3. CASE OpenVpnNext
  <2>1. ASSUME ListTemplates \/ ListVaultTemplates \/ ArchiveVaultTemplates \/ KeepVaultTemplates \/ GenerateKeys
        PROVE  StartsInApp
    BY <2>1 DEF ListTemplates, ListVaultTemplates, ArchiveVaultTemplates, KeepVaultTemplates, GenerateKeys,
       StartsInApp
  <2>2. ASSUME CliGetTemplate \/ CliStoreKeys PROVE StartsInCli
    BY <2>2 DEF CliGetTemplate, CliStoreKeys, StartsInCli
  <2>3. ASSUME NEW c \in Name, SaveTemplate(c) \/ DeleteTemplate(c) \/ SetupServer(c) PROVE StartsInApp
    BY <2>3 DEF SaveTemplate, DeleteTemplate, SetupServer, StartsInApp
  <2>4. ASSUME NEW c \in Name, CliSetup(c) PROVE StartsInCli
    BY <2>4 DEF CliSetup, StartsInCli
  <2>5. QED
    BY <1>3, <2>1, <2>2, <2>3, <2>4 DEF OpenVpnNext, Elsewhere
<1>4. CASE ProfileNext
  <2>1. ASSUME NEW c \in Name, GenerateProfile(c, VpnItem(c)) \/ GenerateProfile(c, Sent(c)) \/ SendProfile(c)
        PROVE  StartsInApp
    BY <2>1 DEF GenerateProfile, SendProfile, StartsInApp
  <2>2. ASSUME NEW c \in Name, CliGenerateProfile(c) PROVE StartsInCli
    BY <2>2 DEF CliGenerateProfile, StartsInCli
  <2>3. ASSUME NEW C, AddEntries(C) \/ DeleteProfiles(C) PROVE StartsInApp
    BY <2>3 DEF AddEntries, DeleteProfiles, StartsInApp
  <2>4. ASSUME NEW todo, BulkGenerateProfiles(todo) PROVE StartsList
    BY <2>4 DEF BulkGenerateProfiles, StartsList
  <2>5. QED
    BY <1>4, <2>1, <2>2, <2>3, <2>4 DEF ProfileNext, NextOfList
\* Commands for one serial after the other.
<1>b. ASSUME NEW cmd, NEW todo, InAppFor(cmd, todo) \/ InCliFor(cmd, todo), cmd = "revoke" => EndsInCrl(todo)
      PROVE  StartsList
  BY <1>b DEF InAppFor, InCliFor, StartsList
<1>c. ASSUME NEW cmds, Bulk(cmds) PROVE StartsList
  <2>1. PICK cmd \in cmds, n \in Name, k \in Name : BulkCerts(cmd, n, k)
    BY <1>c DEF Bulk
  <2>2. InAppFor(cmd, IF cmd = "revoke" THEN <<n, k, 0>> ELSE <<n, k>>)
    BY <2>1 DEF BulkCerts
  <2>3. CASE cmd = "revoke"
    BY <2>2, <2>3, <1>b, <1>l
  <2>4. CASE cmd # "revoke"
    BY <2>2, <2>4, <1>b
  <2>5. QED
    BY <2>3, <2>4
<1>i. ASSUME Issuing, area \in {"cert", "marks"}
      PROVE  StartsInApp \/ StartsInCli \/ StartsList \/ NextOfList \/ Elsewhere
  <2>1. ASSUME CreateCert PROVE StartsInApp
    BY <2>1 DEF CreateCert, StartsInApp
  <2>2. ASSUME CliCreateCert PROVE StartsInCli
    BY <2>2 DEF CliCreateCert, StartsInCli
  <2>3. ASSUME NEW n \in Name, RenewCert(n) \/ CliRenew(n) PROVE StartsList
    BY <2>3, <1>b DEF RenewCert, CliRenew
  <2>4. ASSUME NEW n \in Name, RevokeCert(n) PROVE StartsList
    BY <2>4, <1>b, <1>l DEF RevokeCert
  <2>5. QED
    BY <1>i, <2>1, <2>2, <2>3, <2>4 DEF Issuing, Elsewhere, NextOfList
<1>5. CASE CertNext
  <2>1. ASSUME GenerateCrl \/ ListCerts \/ GetDashboard PROVE StartsInApp
    BY <2>1 DEF GenerateCrl, ListCerts, GetDashboard, StartsInApp
  <2>2. ASSUME CliCreateCrl PROVE StartsInCli
    BY <2>2 DEF CliCreateCrl, StartsInCli
  <2>3. ASSUME NEW n \in Name, DeleteCert(n) \/ RekeyCert(n) \/ CliRekey(n) \/ CliDelete(n) PROVE StartsList
    BY <2>3, <1>b DEF DeleteCert, RekeyCert, CliRekey, CliDelete
  <2>4. ASSUME NEW n \in Name, CliRevoke(<<n>>) PROVE StartsList
    BY <2>4, <1>b, <1>l DEF CliRevoke
  <2>5. QED
    BY <1>5, <1>i, <1>c, <2>1, <2>2, <2>3, <2>4 DEF CertNext
<1>6. CASE MarkNext
  <2>1. ASSUME NEW n \in Name, PublishCert(n) \/ CliPublish(n) \/ IgnoreCert(n) \/ UnignoreCert(n)
        PROVE  StartsList
    BY <2>1, <1>b DEF PublishCert, CliPublish, IgnoreCert, UnignoreCert
  <2>2. ASSUME NEW n \in Name, BackfillCert(n) PROVE StartsInApp
    BY <2>2 DEF BackfillCert, StartsInApp
  <2>3. QED
    BY <1>6, <1>i, <1>c, <2>1, <2>2 DEF MarkNext
<1>7. CASE CaNext
  <2>1. ASSUME InitCa \/ Sign \/ UpdateConfig \/ ResignCa \/ MakeCrl \/ BackUpVault \/ RestoreVault
        PROVE  StartsInApp
    BY <2>1 DEF InitCa, Sign, UpdateConfig, ResignCa, MakeCrl, BackUpVault, RestoreVault, StartsInApp
  <2>2. ASSUME CliInit \/ CliSign \/ CliConfigSet \/ CliResign \/ CliBackUpVault \/ CliRestoreVault
        PROVE  StartsInCli
    BY <2>2 DEF CliInit, CliSign, CliConfigSet, CliResign, CliBackUpVault, CliRestoreVault, StartsInCli
  <2>3. ASSUME NEW n, CliImport(n) \/ CliRebuild(n) PROVE StartsInCli
    BY <2>3 DEF CliImport, CliRebuild, StartsInCli
  <2>4. ASSUME NEW copy, RestoreLocalBackup(copy) PROVE StartsInApp
    BY <2>4 DEF RestoreLocalBackup, StartsInApp
  <2>5. QED
    BY <1>7, <2>1, <2>2, <2>3, <2>4 DEF CaNext, Elsewhere
<1>8. QED
  BY <1>1, <1>2, <1>3, <1>4, <1>5, <1>6, <1>7 DEF CommandNext

(***************************************************************************)
(* v has the fields of what is in 1Password.                               *)
(***************************************************************************)
Shape(v) == v = [f \in VaultFields |-> v[f]]

(***************************************************************************)
(* What each call does, of those that do anything.                         *)
(***************************************************************************)
LEMMA CallsDo ==
  ASSUME NEW c
  PROVE  /\ c.do = "create" => VaultAfter(c) = [vault EXCEPT !.items[c.of] = More(@)]
         /\ c.do = "put" => VaultAfter(c) = [vault EXCEPT !.items[c.of] = 1]
         /\ c.do \in {"archive", "archive_if_there"} => VaultAfter(c) = [vault EXCEPT !.items[c.of] = 0]
         /\ c.do = "store" => VaultAfter(c) = Saved(Written(c))
         /\ c.do \in {"new_db", "replace_db"} => VaultAfter(c) = Saved(c.of)
         /\ c.do = "keep" => VaultAfter(c) = [vault EXCEPT !.kept = Keep(@, db)]
         /\ c.do = "take" => VaultAfter(c) = [vault EXCEPT !.draft = Take(@, c.of)]
         /\ c.do = "write_file" => VaultAfter(c) = [vault EXCEPT !.file = vault.draft, !.draft = NoFile]
         /\ c.do = "put_crl" => VaultAfter(c) = [vault EXCEPT !.items[<<"CRL", 0>>] = 1, !.crl = c.of]
         /\ c.do = "publish" => VaultAfter(c) = [vault EXCEPT !.public = @ \cup {c.of}]
         /\ c.do = "note_fields" => VaultAfter(c) = [vault EXCEPT !.copy = @ \cup vault.fields]
         /\ c.do = "archive_note" => VaultAfter(c) = [vault EXCEPT !.notes = @ \cup vault.copy, !.copy = {}]
         /\ c.do = "remove_fields" => VaultAfter(c) = [vault EXCEPT !.fields = {}]
         /\ c.do \notin {"create", "put", "archive", "archive_if_there", "store", "new_db", "replace_db", "keep",
                         "take", "write_file", "put_crl", "publish", "note_fields", "archive_note",
                         "remove_fields"} => VaultAfter(c) = vault
BY DEF VaultAfter

(***************************************************************************)
(* Every call keeps the fields of what is in 1Password.                    *)
(***************************************************************************)
LEMMA CallsKeepShape ==
  ASSUME Shape(vault), NEW c
  PROVE  Shape(VaultAfter(c)) /\ Shape(Damaged)
<1> USE DEF VaultFields, Shape
<1>1. ASSUME NEW v, v = [vault EXCEPT !.items[c.of] = More(@)] \/ v = [vault EXCEPT !.items[c.of] = 1]
                        \/ v = [vault EXCEPT !.items[c.of] = 0]
      PROVE  Shape(v)
  BY <1>1
<1>2. Shape(Damaged) /\ \A rows : Shape(Saved(rows))
  BY DEF Damaged, Saved
<1>3. ASSUME NEW v, v = [vault EXCEPT !.kept = Keep(@, db)] \/ v = [vault EXCEPT !.draft = Take(@, c.of)]
                        \/ v = [vault EXCEPT !.file = vault.draft, !.draft = NoFile]
                        \/ v = [vault EXCEPT !.items[<<"CRL", 0>>] = 1, !.crl = c.of]
      PROVE  Shape(v)
  BY <1>3
<1>4. ASSUME NEW v, v = [vault EXCEPT !.public = @ \cup {c.of}]
                        \/ v = [vault EXCEPT !.copy = @ \cup vault.fields]
                        \/ v = [vault EXCEPT !.notes = @ \cup vault.copy, !.copy = {}]
                        \/ v = [vault EXCEPT !.fields = {}]
      PROVE  Shape(v)
  BY <1>4
<1>5. \/ VaultAfter(c) = [vault EXCEPT !.items[c.of] = More(@)] \/ VaultAfter(c) = [vault EXCEPT !.items[c.of] = 1]
      \/ VaultAfter(c) = [vault EXCEPT !.items[c.of] = 0] \/ (\E rows : VaultAfter(c) = Saved(rows))
      \/ VaultAfter(c) = [vault EXCEPT !.kept = Keep(@, db)] \/ VaultAfter(c) = [vault EXCEPT !.draft = Take(@, c.of)]
      \/ VaultAfter(c) = [vault EXCEPT !.file = vault.draft, !.draft = NoFile]
      \/ VaultAfter(c) = [vault EXCEPT !.items[<<"CRL", 0>>] = 1, !.crl = c.of]
      \/ VaultAfter(c) = [vault EXCEPT !.public = @ \cup {c.of}]
      \/ VaultAfter(c) = [vault EXCEPT !.copy = @ \cup vault.fields]
      \/ VaultAfter(c) = [vault EXCEPT !.notes = @ \cup vault.copy, !.copy = {}]
      \/ VaultAfter(c) = [vault EXCEPT !.fields = {}] \/ VaultAfter(c) = vault
  BY ZenonT(60), CallsDo
<1>6. QED
  BY <1>1, <1>2, <1>3, <1>4, <1>5

(***************************************************************************)
(* Every step keeps that a command is formed.                              *)
(***************************************************************************)
LEMMA StepFormed ==
  ASSUME Formed, CommandNext
  PROVE  Formed'
<1>v. Shape(vault) /\ run = [f \in RunFields |-> run[f]] /\ (client = "none" => run = Idle)
  BY DEF Formed, Shape
<1>s. ASSUME NEW cmd, NEW calls, NEW todo
      PROVE  Started(cmd, calls, todo) = [f \in RunFields |-> Started(cmd, calls, todo)[f]]
  BY DEF Started, Idle, RunFields
<1>i. Idle = [f \in RunFields |-> Idle[f]]
  BY DEF Idle, RunFields
<1>1. CASE StartsInApp
  BY <1>1, <1>v, <1>s DEF StartsInApp, InApp, Formed, Shape
<1>2. CASE StartsInCli
  BY <1>2, <1>v, <1>s DEF StartsInCli, InCli, Formed, Shape
<1>3. CASE StartsList
  BY <1>3, <1>v, <1>s DEF StartsList, BulkInApp, InCli, Formed, Shape
<1>4. CASE NextOfList
  <2>1. PICK calls : NextItem(calls)
    BY <1>4 DEF NextOfList
  <2>2. run' = [f \in RunFields |-> run'[f]]
    BY <2>1, <1>v DEF NextItem, RunFields
  <2>3. QED
    BY <2>1, <2>2, <1>v DEF NextItem, Formed, Shape
<1>5. CASE Elsewhere
  <2>1. ASSUME NEW c \in Name, DeletedElsewhere(c) PROVE Formed'
    BY <2>1, <1>v DEF DeletedElsewhere, Formed, Shape, VaultFields
  <2>2. ASSUME NEW c \in Name, OlderClientAdds(c) PROVE Formed'
    BY <2>2, <1>v DEF OlderClientAdds, Formed, Shape, VaultFields
  <2>3. ASSUME NEW c \in Name, Expire(c) PROVE Formed'
    BY <2>3, <1>v DEF Expire, Formed, Shape
  <2>4. CASE DatabaseRemoved
    BY <2>4, <1>v DEF DatabaseRemoved, Formed, Shape, VaultFields
  <2>5. CASE CreateVault
    BY <2>5, <1>v DEF CreateVault, Formed, Shape, VaultFields, Empty
  <2>6. CASE LoadCa
    BY <2>6, <1>v DEF LoadCa, Formed, Shape
  <2>7. QED
    BY <1>5, <2>1, <2>2, <2>3, <2>4, <2>5, <2>6 DEF Elsewhere
\* What is left of a command after a call.
<1>r. ASSUME NEW c, Reported(c) PROVE run' = [f \in RunFields |-> run'[f]]
  BY <1>r, <1>v DEF Reported, RunFields
<1>6. CASE Succeeds
  <2>1. run' = [f \in RunFields |-> run'[f]]
    BY <1>6, <1>v DEF Succeeds, RunFields
  <2>2. Shape(vault)' /\ client' = client /\ client # "none"
    BY <1>6, <1>v, CallsKeepShape DEF Succeeds, Busy, Shape
  <2>3. QED
    BY <2>1, <2>2 DEF Formed, Shape
<1>7. CASE Refused
  BY <1>7, <1>v, <1>r DEF Refused, Busy, Formed, Shape
<1>8. CASE Fails
  <2>1. run' = [f \in RunFields |-> run'[f]]
    BY <1>8, <1>r DEF Fails
  <2>2. Shape(vault)' /\ client' = client /\ client # "none"
    BY <1>8, <1>v, CallsKeepShape DEF Fails, Busy, Shape
  <2>3. QED
    BY <2>1, <2>2 DEF Formed, Shape
<1>9. CASE Ends \/ OpenApp \/ CloseApp \/ Crash
  BY <1>9, <1>v, <1>i DEF Ends, OpenApp, CloseApp, Crash, Leave, Formed, Shape
<1>10. QED
  BY <1>1, <1>2, <1>3, <1>4, <1>5, <1>6, <1>7, <1>8, <1>9, StepKinds

RevokedOf(d) == {n \in Name : Is(d, n, "Revoked")}

(***************************************************************************)
(* How far the end of a command that revoked something has come: the CRL,  *)
(* of all that memory has as revoked, then the save of that memory.        *)
(***************************************************************************)
CrlDue ==
    \/ run.calls = CrlCalls(db)
    \/ run.calls = <<Save>> /\ vault.crl = RevokedOf(db)
    \/ run.calls = <<>> /\ vault.crl = RevokedOf(db) /\ vault.saved = db

(***************************************************************************)
(* A command that revokes ends with the CRL, after its serials, and has    *)
(* the CRL, then the save, before it if it revoked one.                    *)
(***************************************************************************)
RevokeInv ==
    /\ Formed /\ 0 \notin run.done
    /\ run.cmd = "revoke" =>
          /\ run.todo # <<>> => EndsInCrl(run.todo)
          /\ run.todo = <<>> /\ run.ok /\ run.done # {} => CrlDue

(***************************************************************************)
(* No command is under way at first.                                       *)
(***************************************************************************)
LEMMA RevokeStarts == Init => RevokeInv
<1> SUFFICES ASSUME Init PROVE RevokeInv
  OBVIOUS
<1>1. client = "none" /\ run = Idle
  BY DEF Init
<1>2. PICK F : vault = [Empty EXCEPT !.fields = F, !.items[OpenVpn] = IF F = {} THEN 0 ELSE 1,
                                 !.saved = IF area \in {"cert", "marks"} THEN {Serial(1)} ELSE {}]
  BY DEF Init
<1>3. vault = [f \in VaultFields |-> vault[f]]
  BY <1>2 DEF VaultFields, Empty
<1>4. Idle = [f \in RunFields |-> Idle[f]] /\ Idle.done = {} /\ Idle.cmd # "revoke"
  BY DEF Idle, RunFields
<1>5. QED
  BY <1>1, <1>3, <1>4 DEF RevokeInv, Formed

(***************************************************************************)
(* Every step keeps RevokeInv: an error of the CRL or of the save after it *)
(* is reported.                                                            *)
(***************************************************************************)
LEMMA RevokeStep ==
  ASSUME RevokeInv, CommandNext
  PROVE  RevokeInv'
<1>f. Formed /\ Formed'
  BY StepFormed DEF RevokeInv
<1>v. Shape(vault) /\ run = [f \in RunFields |-> run[f]] /\ (client = "none" => run = Idle)
  BY <1>f DEF Formed, Shape
<1>s. ASSUME NEW cmd, NEW calls, NEW todo, run' = Started(cmd, calls, todo),
             cmd = "revoke" => todo = <<>> \/ EndsInCrl(todo)
      PROVE  RevokeInv'
  <2>1. run'.done = {} /\ run'.cmd = cmd /\ run'.todo = todo
    BY <1>s DEF Started, Idle
  <2>2. QED
    BY <1>f, <1>s, <2>1 DEF RevokeInv
<1>e. ASSUME run' = Idle PROVE RevokeInv'
  BY <1>f, <1>e DEF RevokeInv, Idle
<1>u. ASSUME run' = run, run = Idle PROVE RevokeInv'
  BY <1>e, <1>u
<1>1. CASE StartsInApp
  BY <1>1, <1>s DEF StartsInApp, InApp
<1>2. CASE StartsInCli
  BY <1>2, <1>s DEF StartsInCli, InCli
<1>3. CASE StartsList
  BY <1>3, <1>s DEF StartsList, BulkInApp, InCli
<1>4. CASE NextOfList
  <2>1. PICK calls : NextItem(calls)
    BY <1>4 DEF NextOfList
  <2>2. /\ run'.cmd = run.cmd /\ run'.todo = Tail(run.todo) /\ run'.at = Head(run.todo) /\ run'.calls = calls
        /\ run'.done = IF run.ok /\ run.at # 0 THEN run.done \cup {run.at} ELSE run.done
        /\ run.todo # <<>> /\ UNCHANGED <<vault, db>>
    BY <2>1, <1>v DEF NextItem, RunFields
  <2>3. 0 \notin run'.done
    BY <2>2 DEF RevokeInv
  <2>4. CASE run.cmd # "revoke"
    BY <2>2, <2>3, <2>4, <1>f DEF RevokeInv
  <2>5. CASE run.cmd = "revoke"
    <3>1. PICK t : t = run.todo
      OBVIOUS
    <3>2. t \in Seq(Nat) /\ t # <<>> /\ t[Len(t)] = 0
      BY <2>2, <2>5, <3>1 DEF RevokeInv, EndsInCrl
    <3>3. Tail(t) # <<>> => EndsInCrl(Tail(t))
      BY <3>2 DEF EndsInCrl
    <3>4. Tail(t) = <<>> => Head(t) = 0
      <4>1. Len(t) \in Nat /\ Len(t) # 0 /\ Len(Tail(t)) = Len(t) - 1
        BY <3>2
      <4>2. Tail(t) = <<>> => Len(t) = 1
        BY <4>1
      <4>3. QED
        BY <3>2, <4>2
    <3>5. NextItem(ItemCalls(run.cmd, Head(run.todo)))
      BY <1>4, <2>5 DEF NextOfList
    <3>6. run'.calls = ItemCalls("revoke", Head(t))
      BY <3>5, <2>5, <3>1, <1>v DEF NextItem, RunFields
    <3>7. ASSUME Tail(t) = <<>>, run'.done # {} PROVE run'.calls = CrlCalls(db)
      <4>1. Won = {} => run'.done = {}
        BY <2>2 DEF Won, RevokeInv
      <4>2. QED
        BY <3>4, <3>6, <3>7, <4>1 DEF ItemCalls
    <3>8. run'.todo = <<>> /\ run'.done # {} => CrlDue'
      BY <2>2, <3>1, <3>7 DEF CrlDue, CrlCalls, Is, Save, Store
    <3>9. QED
      BY <1>f, <2>2, <2>3, <3>1, <3>3, <3>8 DEF RevokeInv
  <2>6. QED
    BY <2>4, <2>5
<1>5. CASE Elsewhere
  <2>1. run' = run /\ run = Idle
    BY <1>5, <1>v DEF Elsewhere, DeletedElsewhere, OlderClientAdds, Expire, DatabaseRemoved, CreateVault, LoadCa
  <2>2. QED
    BY <2>1, <1>u
\* The call that was made, and what the command keeps.
<1>k. ASSUME NEW c, NEW calls, run'.cmd = run.cmd, run'.todo = run.todo, run'.done = run.done,
             run.cmd = "revoke" /\ run.todo = <<>> /\ run.ok /\ run.done # {} /\ run'.ok => CrlDue',
             run'.ok => run.ok
      PROVE  RevokeInv'
  BY <1>f, <1>k DEF RevokeInv
<1>6. CASE Succeeds
  <2>1. /\ run' = [run EXCEPT !.calls = Tail(@)] /\ run.calls # <<>>
        /\ vault' = VaultAfter(Head(run.calls)) /\ db' = DbAfter(Head(run.calls))
    BY <1>6 DEF Succeeds, Busy
  <2>2. /\ run'.cmd = run.cmd /\ run'.todo = run.todo /\ run'.done = run.done /\ run'.ok = run.ok
        /\ run'.calls = Tail(run.calls)
    BY <2>1, <1>v DEF RunFields
  <2>3. ASSUME run.calls = CrlCalls(db) PROVE CrlDue'
    <3>1. Head(run.calls) = Call("put_crl", RevokedOf(db)) /\ Tail(run.calls) = <<Save>>
      BY <2>3 DEF CrlCalls, RevokedOf
    <3>2. vault' = [vault EXCEPT !.items[<<"CRL", 0>>] = 1, !.crl = RevokedOf(db)]
      <4>1. PICK c : c = Head(run.calls)
        OBVIOUS
      <4>2. c.do = "put_crl" /\ c.of = RevokedOf(db)
        BY <3>1, <4>1 DEF Call
      <4>3. vault' = VaultAfter(c)
        BY <2>1, <4>1
      <4>4. VaultAfter(c) = [vault EXCEPT !.items[<<"CRL", 0>>] = 1, !.crl = c.of]
        BY <4>2, CallsDo
      <4>5. QED
        BY <4>2, <4>3, <4>4
    <3>6. vault'.crl = RevokedOf(db)
      BY <3>2, <1>v DEF Shape, VaultFields
    <3>3. db' = db
      BY <2>1, <3>1 DEF DbAfter, Written, Call
    <3>4. RevokedOf(db)' = RevokedOf(db) /\ run'.calls = <<Save>>
      BY <3>3, <3>1, <2>2 DEF RevokedOf, Is
    <3>5. QED
      BY <3>6, <3>4 DEF CrlDue, Save, Store, Call
  <2>4. ASSUME run.calls = <<Save>>, vault.crl = RevokedOf(db) PROVE CrlDue'
    <3>1. Head(run.calls) = Call("store", [old |-> {}, new |-> {}]) /\ Tail(run.calls) = <<>>
      BY <2>4 DEF Save, Store
    <3>2. Written(Head(run.calls)) = db
      BY <3>1 DEF Written, Call
    <3>3. db' = db /\ vault' = Saved(db)
      <4>1. PICK c : c = Head(run.calls)
        OBVIOUS
      <4>2. c.do = "store" /\ Written(c) = db
        BY <3>1, <3>2, <4>1 DEF Call
      <4>3. vault' = VaultAfter(c) /\ db' = DbAfter(c)
        BY <2>1, <4>1
      <4>4. vault' = Saved(Written(c))
        BY <4>2, <4>3, CallsDo
      <4>5. db' = Written(c)
        BY <4>2, <4>3 DEF DbAfter
      <4>6. QED
        BY <4>2, <4>4, <4>5
    <3>4. vault'.saved = db /\ vault'.crl = vault.crl
      BY <3>3, <1>v DEF Saved, Shape, VaultFields
    <3>5. QED
      BY <3>3, <3>4, <3>1, <2>2, <2>4 DEF CrlDue, RevokedOf, Is
  <2>5. run.cmd = "revoke" /\ run.todo = <<>> /\ run.ok /\ run.done # {} => CrlDue'
    BY <2>1, <2>3, <2>4 DEF RevokeInv, CrlDue
  <2>6. QED
    BY <2>2, <2>5, <1>k
\* An error of these calls is reported.
<1>7. ASSUME run.calls # <<>>, Reported(Head(run.calls)) PROVE RevokeInv'
  <2>1. /\ run'.cmd = run.cmd /\ run'.todo = run.todo /\ run'.done = run.done
        /\ run'.ok = (run.ok /\ Head(run.calls).on = "ignore")
    BY <1>7, <1>v DEF Reported, RunFields
  <2>2. CrlDue => Head(run.calls).on = "stop"
    BY <1>7 DEF CrlDue, CrlCalls, Save, Store, Call
  <2>3. (run.ok /\ Head(run.calls).on = "ignore") => run.ok /\ Head(run.calls).on # "stop"
    OBVIOUS
  <2>4. run'.ok => run.ok /\ ~CrlDue
    BY <2>1, <2>2, <2>3
  <2>5. QED
    BY <2>1, <2>4, <1>k DEF RevokeInv
<1>8. CASE Refused \/ Fails
  BY <1>7, <1>8 DEF Refused, Fails, Busy
<1>9. CASE Ends \/ CloseApp \/ Crash
  BY <1>9, <1>e DEF Ends, CloseApp, Crash, Leave
<1>10. CASE OpenApp
  BY <1>10, <1>v, <1>u DEF OpenApp
<1>11. QED
  BY <1>1, <1>2, <1>3, <1>4, <1>5, <1>6, <1>8, <1>9, <1>10, StepKinds

(***************************************************************************)
(* However often a revocation, its CRL or its save failed before, the CRL  *)
(* lists all revocations once a command that revoked reports no failure.   *)
(***************************************************************************)
THEOREM RevocationsListed == Spec => RevokedInCrl
<1>1. RevokeInv /\ [Next]_<<vars, sessionVars, schemaVars, copyVars, watchVars>> => RevokeInv'
  <2>1. UNCHANGED vars => (RevokeInv' <=> RevokeInv)
    BY DEF vars, RevokeInv, Formed, CrlDue, CrlCalls, Save, Store, RevokedOf, Is
  <2>2. QED
    BY <2>1, RevokeStep DEF Next
<1>2. RevokeInv => (run.cmd = "revoke" /\ run.calls = <<>> /\ run.todo = <<>> /\ run.ok /\ run.done # {}
                      => {n \in Name : Is(vault.saved, n, "Revoked")} \subseteq vault.crl)
  BY DEF RevokeInv, CrlDue, CrlCalls, RevokedOf
<1>3. RevokeInv => [(run.cmd = "revoke" /\ run.calls = <<>> /\ run.todo = <<>> /\ run' = Idle
                     /\ faults' = faults /\ run.ok /\ run.done # {})
                      => {n \in Name : Is(vault.saved, n, "Revoked")} \subseteq vault.crl]_vars
  BY <1>2
<1>4. QED
  BY <1>1, <1>3, RevokeStarts, PTL DEF Spec, RevokedInCrl

-----------------------------------------------------------------------------
(* A call, done or lost *)

\* What a call leaves when it is done, and when it is refused or fails.
Done(c) ==
    /\ Possible(c) /\ vault' = VaultAfter(c) /\ db' = DbAfter(c) /\ faults' = faults
    /\ run'.calls = Tail(run.calls) /\ run'.ok = run.ok
Lost(c) ==
    /\ run'.calls = (IF c.on = "stop" THEN <<>> ELSE Tail(run.calls))
    /\ run'.ok = (run.ok /\ c.on = "ignore")
    /\ \/ ~Possible(c) /\ UNCHANGED <<vault, db, faults>>
       \/ /\ faults' = faults + 1 /\ c.do \notin {"rows", "refuse"} /\ db' = Written(c)
          /\ \/ vault' = vault
             \/ Possible(c) /\ vault' = VaultAfter(c)
             \/ area = "ca" /\ c.do \in {"store", "new_db", "replace_db"} /\ vault' = Damaged

(***************************************************************************)
(* While a command runs, its next call is done or lost.                    *)
(***************************************************************************)
LEMMA CallSteps ==
  ASSUME Formed, Succeeds \/ Refused \/ Fails
  PROVE  /\ run.calls # <<>> /\ client # "none" /\ UNCHANGED <<client, area, past>>
         /\ run'.cmd = run.cmd /\ run'.todo = run.todo /\ run'.at = run.at /\ run'.done = run.done
         /\ \E c : c = Head(run.calls) /\ (Done(c) \/ Lost(c))
<1>1. run = [f \in RunFields |-> run[f]]
  BY DEF Formed
<1>2. PICK c : c = Head(run.calls)
  OBVIOUS
<1>3. CASE Succeeds
  BY <1>1, <1>2, <1>3 DEF Succeeds, Busy, RunFields, Done
<1>4. ASSUME Reported(c)
      PROVE  /\ run'.cmd = run.cmd /\ run'.todo = run.todo /\ run'.at = run.at /\ run'.done = run.done
             /\ run'.calls = (IF c.on = "stop" THEN <<>> ELSE Tail(run.calls))
             /\ run'.ok = (run.ok /\ c.on = "ignore")
  BY <1>1, <1>4 DEF Reported, RunFields
<1>5. CASE Refused
  BY <1>2, <1>4, <1>5 DEF Refused, Busy, Lost
<1>6. CASE Fails
  BY <1>2, <1>4, <1>6 DEF Fails, Busy, Lost
<1>7. QED
  BY <1>3, <1>5, <1>6

(***************************************************************************)
(* What is there between commands: the database is loaded, kept or lost.   *)
(***************************************************************************)
Rests == Ends \/ OpenApp \/ CloseApp \/ Crash

LEMMA RestSteps ==
  ASSUME Formed, Rests
  PROVE  /\ UNCHANGED <<vault, area, past>> /\ run' = Idle /\ faults' \in {faults, faults + 1}
         /\ \/ db' = db /\ client' = client /\ client # "none" /\ Ends
            \/ db' = {} /\ client' = "none"
            \/ db' = Retrieved /\ client' = "app" /\ client = "none" /\ UNCHANGED faults
         /\ Ends => run.calls = <<>> /\ run.todo = <<>> /\ UNCHANGED faults
         /\ faults' = faults => run.calls = <<>> /\ run.todo = <<>>
<1>i. Idle.calls = <<>> /\ Idle.todo = <<>>
  BY DEF Idle
<1>f. client = "none" => run = Idle
  BY DEF Formed
<1>1. CASE Ends
  BY <1>1, <1>f DEF Ends
<1>2. CASE OpenApp
  BY <1>2, <1>f, <1>i DEF OpenApp, Ends
<1>3. CASE CloseApp
  BY <1>3, <1>i DEF CloseApp, Leave, Ends
<1>4. CASE Crash
  <2>1. faults' # faults
    BY <1>4 DEF Crash
  <2>2. QED
    BY <1>4, <2>1 DEF Crash, Leave, Ends
<1>5. QED
  BY <1>1, <1>2, <1>3, <1>4 DEF Rests

(***************************************************************************)
(* A command starts with its list of calls, the app's on the database it   *)
(* has in memory, a command line's on the one it loads.                    *)
(***************************************************************************)
Starts(calls, d) ==
    /\ UNCHANGED <<vault, area, past, faults>> /\ run'.calls = calls /\ run'.todo = <<>>
    /\ db' = d /\ client' # "none" /\ run = Idle
    /\ \/ d = db /\ client = "app"
       \/ d = Retrieved /\ client = "none"

(***************************************************************************)
(* So does a command of the app.                                           *)
(***************************************************************************)
LEMMA AppStarts ==
  ASSUME NEW cmd, NEW calls, InApp(cmd, calls)
  PROVE  Starts(calls, db) /\ run'.cmd = cmd
BY DEF InApp, Starts, Started, Idle

(***************************************************************************)
(* And one of a command line, on the database it loads.                    *)
(***************************************************************************)
LEMMA CliStarts ==
  ASSUME Formed, NEW cmd, NEW calls, InCli(cmd, calls, <<>>)
  PROVE  Starts(calls, Retrieved) /\ run'.cmd = cmd
BY DEF Formed, InCli, Starts, Started, Idle

\* How many items a title names.
Counted == vault.items \in [Title -> 0..2]

(***************************************************************************)
(* The titles of the commands' items.                                      *)
(***************************************************************************)
LEMMA Titles ==
  /\ \A c \in Name : {CsrItem(c), ExtItem(c), DkimItem(c), VpnItem(c), Sent(c), CrtItem(c)} \subseteq Title
  /\ {OpenVpn, CaItem, DbItem, CrlItem} \subseteq Title
BY DEF Title, CsrItem, ExtItem, DkimItem, VpnItem, Sent, CrtItem, OpenVpn, CaItem, DbItem, CrlItem

\* The titles that may not name two items.
Unique == {CsrItem(c) : c \in Name} \cup {DkimItem(c) : c \in Name} \cup {OpenVpn, CrlItem, DbItem}

(***************************************************************************)
(* The titles of Unique are titles.                                        *)
(***************************************************************************)
LEMMA UniqueTitles == Unique \subseteq Title
BY Titles DEF Unique

(***************************************************************************)
(* Short lists of calls joined into one.                                   *)
(***************************************************************************)
LEMMA Joined ==
  ASSUME NEW a, NEW b
  PROVE  <<a>> \o <<b>> = <<a, b>> /\ <<>> \o <<a>> = <<a>> /\ <<a>> \o <<>> = <<a>>
         /\ <<>> \o <<a, b>> = <<a, b>>
<1>1. <<a>> \in Seq({a, b}) /\ <<b>> \in Seq({a, b}) /\ <<a, b>> \in Seq({a, b})
  OBVIOUS
<1>2. Len(<<a>> \o <<b>>) = 2 /\ <<a>> \o <<b>> \in Seq({a, b})
      /\ \A i \in 1..2 : (<<a>> \o <<b>>)[i] = IF i <= 1 THEN <<a>>[i] ELSE <<b>>[i - 1]
  BY <1>1, ConcatProperties
<1>3. \A i \in 1..2 : (<<a>> \o <<b>>)[i] = <<a, b>>[i]
  BY <1>2
<1>4. <<a>> \o <<b>> = <<a, b>>
  BY <1>1, <1>2, <1>3, SeqEqual
<1>5. QED
  BY <1>1, <1>4, ConcatEmptySeq

(***************************************************************************)
(* A title's count after it was created, written or archived.              *)
(***************************************************************************)
LEMMA Counts ==
  ASSUME Formed, Counted, NEW t \in Title
  PROVE  /\ [vault EXCEPT !.items[t] = More(@)].items = [vault.items EXCEPT ![t] = More(@)]
         /\ [vault EXCEPT !.items[t] = 1].items = [vault.items EXCEPT ![t] = 1]
         /\ [vault EXCEPT !.items[t] = 0].items = [vault.items EXCEPT ![t] = 0]
         /\ \A u : [vault EXCEPT !.items[t] = u].saved = vault.saved
                   /\ [vault EXCEPT !.items[t] = u].bad = vault.bad
         /\ [vault EXCEPT !.items[t] = More(@)].saved = vault.saved
         /\ [vault EXCEPT !.items[t] = More(@)].bad = vault.bad
         /\ [vault.items EXCEPT ![t] = More(@)] \in [Title -> 0..2]
         /\ [vault.items EXCEPT ![t] = 1] \in [Title -> 0..2]
         /\ [vault.items EXCEPT ![t] = 0] \in [Title -> 0..2]
         /\ More(vault.items[t]) > 0 /\ (vault.items[t] = 0 => More(vault.items[t]) = 1)
BY DEF Formed, VaultFields, Counted, More

\* What a title's call leaves of the titles, and a write of the database.
ItemsAre(f) == vault'.items = f /\ vault'.saved = vault.saved /\ vault'.bad = vault.bad
SavedIs(d) ==
    vault'.items = [vault.items EXCEPT ![DbItem] = 1] /\ vault'.saved = d /\ vault'.bad = FALSE

(***************************************************************************)
(* What the calls on items and on the database leave.                      *)
(***************************************************************************)
LEMMA CallsLeave ==
  ASSUME Formed, Counted, NEW c, vault' = VaultAfter(c)
  PROVE  /\ c.do = "create" /\ c.of \in Title => ItemsAre([vault.items EXCEPT ![c.of] = More(@)])
         /\ c.do = "put" /\ c.of \in Title => ItemsAre([vault.items EXCEPT ![c.of] = 1])
         /\ c.do \in {"archive", "archive_if_there"} /\ c.of \in Title => ItemsAre([vault.items EXCEPT ![c.of] = 0])
         /\ c.do = "store" => SavedIs(Written(c))
         /\ c.do \in {"new_db", "replace_db"} => SavedIs(c.of)
<1>s. \A d : /\ Saved(d).items = [vault.items EXCEPT ![DbItem] = 1]
             /\ Saved(d).saved = d /\ Saved(d).bad = FALSE
  BY DEF Saved, Formed, VaultFields
<1>1. CASE c.do = "create" /\ c.of \in Title
  <2>1. vault' = [vault EXCEPT !.items[c.of] = More(@)]
    BY <1>1, CallsDo
  <2>2. QED
    BY <1>1, <2>1, Counts DEF ItemsAre
<1>2. CASE c.do = "put" /\ c.of \in Title
  <2>1. vault' = [vault EXCEPT !.items[c.of] = 1]
    BY <1>2, CallsDo
  <2>2. QED
    BY <1>2, <2>1, Counts DEF ItemsAre
<1>3. CASE c.do \in {"archive", "archive_if_there"} /\ c.of \in Title
  <2>1. vault' = [vault EXCEPT !.items[c.of] = 0]
    BY <1>3, CallsDo
  <2>2. QED
    BY <1>3, <2>1, Counts DEF ItemsAre
<1>4. CASE c.do = "store"
  <2>1. vault' = Saved(Written(c))
    BY <1>4, CallsDo
  <2>2. QED
    BY <1>4, <1>s, <2>1 DEF SavedIs
<1>5. CASE c.do \in {"new_db", "replace_db"}
  <2>1. vault' = Saved(c.of)
    BY <1>5, CallsDo
  <2>2. QED
    BY <1>5, <1>s, <2>1 DEF SavedIs
<1>6. QED
  BY <1>1, <1>2, <1>3, <1>4, <1>5

-----------------------------------------------------------------------------
(* Requests and external certificates *)

\* Rows of this area, and what a complete one goes with.
CsrRowsOnly(d) == \A r \in d : \E c \in Name : r = External(c) \/ \E i : r \in {Pending(i, c), Complete(i, c)}
HaveCertificates(d) == \A i, c : Complete(i, c) \in d => External(c) \in d
Backed(d) == \A i, c : Complete(i, c) \in d => vault.items[ExtItem(c)] > 0

OfName(d, c) == {r \in CsrRows(d) : r[3] = c}

(***************************************************************************)
(* What can be left to do of a command: a key and its row; a row to        *)
(* delete; a certificate, its row and those of its request.                *)
(***************************************************************************)
NewKey(calls, c) ==
    /\ vault.items[CsrItem(c)] = 0
    /\ calls = <<Create(CsrItem(c))>>
       \/ \E i : calls = <<Create(CsrItem(c)), Store({}, {Pending(i, c)})>>
NewRow(calls, c) == \E i : calls = <<Store({}, {Pending(i, c)})>>
KeyGoes(calls, c) ==
    \E r : r[1] = "csr" /\ calls = <<ArchiveIfThere(CsrItem(c)), Store({r}, {})>>
RowGoes(calls) == \E r : r[1] = "csr" /\ calls = <<Store({r}, {})>>
Completing(old, new, c) ==
    /\ \A r \in old : r[1] = "csr"
    /\ \A r \in new : \E i : r \in {Complete(i, c), External(c)}
    /\ External(c) \in new
ImportFirst(calls, c) ==
    \E old, new : /\ calls = <<Archive(CsrItem(c)), Create(ExtItem(c)), Store(old, new)>>
                  /\ Completing(old, new, c)
ImportNext(calls, c) ==
    \E old, new : calls = <<Create(ExtItem(c)), Store(old, new)>> /\ Completing(old, new, c)
ImportLast(calls, c) ==
    \E old, new : /\ calls = <<Store(old, new)>> /\ vault.items[ExtItem(c)] > 0
                  /\ Completing(old, new, c)
ImportStops(calls, c) == calls = <<Archive(CsrItem(c)), Refuse>>

CsrToDo(calls) ==
    \/ calls = <<>> \/ calls = <<Refuse>> \/ RowGoes(calls)
    \/ \E c \in Name : \/ NewKey(calls, c) \/ NewRow(calls, c) \/ KeyGoes(calls, c) \/ ImportStops(calls, c)
                       \/ ImportFirst(calls, c) \/ ImportNext(calls, c) \/ ImportLast(calls, c)

CsrSound(d) == CsrRowsOnly(d) /\ HaveCertificates(d) /\ Backed(d)

CsrInv ==
    /\ Formed /\ Counted /\ CsrSound(db) /\ CsrSound(vault.saved) /\ ~vault.bad
    /\ \A t \in Unique : vault.items[t] < 2
    /\ faults \in Nat /\ run.todo = <<>> /\ CsrToDo(run.calls)

(***************************************************************************)
(* The lists the commands start with.                                      *)
(***************************************************************************)
LEMMA CsrStarts ==
  ASSUME CsrInv, CsrNext
  PROVE  \E calls, d : Starts(calls, d) /\ d \in {db, vault.saved} /\ CsrToDo(calls)'
<1> USE DEF CsrInv
<1>r. Retrieved = vault.saved
  BY DEF Retrieved
<1>k. ASSUME NEW calls, NEW d, Starts(calls, d)
      PROVE  d \in {db, vault.saved} /\ db' = d /\ vault' = vault /\ CsrSound(d)
  BY <1>k, <1>r DEF Starts
\* A new key.
<1>1. ASSUME NEW c \in Name, NEW calls, NEW d, Starts(calls, d), vault.items[CsrItem(c)] = 0,
             calls = <<Create(CsrItem(c))>> \/ \E i : calls = <<Create(CsrItem(c)), Store({}, {Pending(i, c)})>>
      PROVE  CsrToDo(calls)'
  <2>1. NewKey(calls, c)'
    BY <1>1, <1>k DEF NewKey
  <2>2. QED
    BY <2>1 DEF CsrToDo
<1>2. ASSUME NEW c \in Name, CreateCsr(c) \/ GenerateCsrFromCert(c)
      PROVE  \E calls, d : Starts(calls, d) /\ d \in {db, vault.saved} /\ CsrToDo(calls)'
  <2>1. vault.items[CsrItem(c)] = 0
    BY <1>2 DEF CreateCsr, GenerateCsrFromCert
  <2>2. Starts(NewCsr(c), db)
    BY <1>2, AppStarts DEF CreateCsr, GenerateCsrFromCert
  <2>3. QED
    BY <2>1, <2>2, <1>1, <1>k DEF NewCsr
<1>3. ASSUME NEW c \in Name, CliCreateCsr(c)
      PROVE  \E calls, d : Starts(calls, d) /\ d \in {db, vault.saved} /\ CsrToDo(calls)'
  <2>1. Starts(<<Create(CsrItem(c))>>, Retrieved) /\ vault.items[CsrItem(c)] = 0
    BY <1>3, CliStarts DEF CliCreateCsr
  <2>2. QED
    BY <2>1, <1>1, <1>k
\* A row to delete.
<1>4. ASSUME NEW d, NEW r \in CsrRows(d), Starts(DeleteCsrCalls(r), d) PROVE CsrToDo(DeleteCsrCalls(r))'
  <2>0. PICK c \in Name : \E i : r \in {Pending(i, c), Complete(i, c)}
    BY <1>4, <1>k DEF CsrRows, CsrSound, CsrRowsOnly, External
  <2>1. PICK i : r \in {Pending(i, c), Complete(i, c)}
    BY <2>0
  <2>2. CASE r = Pending(i, c)
    <3>1. DeleteCsrCalls(r) = <<ArchiveIfThere(CsrItem(c)), Store({r}, {})>>
      <4>1. r[4] = "Pending" /\ r[3] = c
        BY <2>2 DEF Pending
      <4>2. DeleteCsrCalls(r) = <<ArchiveIfThere(CsrItem(c))>> \o <<Store({r}, {})>>
        BY <4>1 DEF DeleteCsrCalls
      <4>3. QED
        BY <4>2, Joined
    <3>2. KeyGoes(DeleteCsrCalls(r), c)'
      <4>1. r[1] = "csr"
        BY <2>2 DEF Pending
      <4>2. QED
        BY <3>1, <4>1 DEF KeyGoes
    <3>3. QED
      BY <3>2 DEF CsrToDo
  <2>3. CASE r = Complete(i, c)
    <3>1. DeleteCsrCalls(r) = <<Store({r}, {})>>
      BY <2>3 DEF DeleteCsrCalls, Complete
    <3>2. r[1] = "csr"
      BY <2>3 DEF Complete
    <3>3. RowGoes(DeleteCsrCalls(r))'
      BY <3>1, <3>2 DEF RowGoes
    <3>4. QED
      BY <3>3 DEF CsrToDo
  <2>4. QED
    BY <2>1, <2>2, <2>3
<1>5. ASSUME NEW r \in CsrRows(db), DeleteCsr(r)
      PROVE  \E calls, d : Starts(calls, d) /\ d \in {db, vault.saved} /\ CsrToDo(calls)'
  BY <1>4, <1>5, <1>k, AppStarts DEF DeleteCsr
<1>6. ASSUME NEW c \in Name, CliDeleteCsr(c)
      PROVE  \E calls, d : Starts(calls, d) /\ d \in {db, vault.saved} /\ CsrToDo(calls)'
  <2>1. PICK r \in CsrRows(vault.saved) : InCli("csr delete", DeleteCsrCalls(r), <<>>)
    BY <1>6 DEF CliDeleteCsr
  <2>2. Starts(DeleteCsrCalls(r), vault.saved)
    BY <2>1, <1>r, CliStarts
  <2>3. QED
    BY <2>2, <1>4, <1>k
\* A certificate for a request, or without one.
<1>7. ASSUME NEW c \in Name, NEW d PROVE CsrToDo(ImportCsrCalls(d, c))' /\ CsrToDo(ImportRefused(c))'
  <2> DEFINE new == {Complete(r[2], c) : r \in {q \in CsrRows(d) : q[3] = c}} \cup {External(c)}
  <2>1. ImportCsrCalls(d, c) = <<Archive(CsrItem(c)), Create(ExtItem(c)), Store(OfName(d, c), new)>>
    BY DEF ImportCsrCalls, OfName
  <2>2. Completing(OfName(d, c), new, c)
    BY DEF Completing, OfName, CsrRows
  <2> HIDE DEF new
  <2>3. ImportFirst(ImportCsrCalls(d, c), c)'
    BY <2>1, <2>2 DEF ImportFirst, Completing
  <2>4. ImportStops(ImportRefused(c), c)'
    BY DEF ImportStops, ImportRefused
  <2>5. QED
    BY <2>3, <2>4 DEF CsrToDo
<1>8. ASSUME NEW c \in Name, ImportCsrCert(c) \/ CliImportCsrCert(c)
      PROVE  \E calls, d : Starts(calls, d) /\ d \in {db, vault.saved} /\ CsrToDo(calls)'
  <2>1. PICK calls, d : Starts(calls, d) /\ calls \in {ImportCsrCalls(d, c), ImportRefused(c)}
    <3>1. CASE ImportCsrCert(c)
      BY <3>1, AppStarts DEF ImportCsrCert
    <3>2. CASE CliImportCsrCert(c)
      BY <3>2, <1>r, CliStarts DEF CliImportCsrCert
    <3>3. QED
      BY <1>8, <3>1, <3>2
  <2>2. CsrToDo(ImportCsrCalls(d, c))' /\ CsrToDo(ImportRefused(c))'
    BY <1>7
  <2>3. QED
    BY <2>1, <2>2, <1>k
<1>9. ASSUME NEW c \in Name, ImportCert(c) \/ CliImportCert(c)
      PROVE  \E calls, d : Starts(calls, d) /\ d \in {db, vault.saved} /\ CsrToDo(calls)'
  <2>1. PICK d : Starts(ImportExternalCalls(c), d)
    BY <1>9, AppStarts, CliStarts DEF ImportCert, CliImportCert
  <2>2. Completing({}, {External(c)}, c)'
    BY DEF Completing
  <2>3. ImportNext(ImportExternalCalls(c), c)'
    BY <2>2 DEF ImportNext, ImportExternalCalls
  <2>4. QED
    BY <2>1, <2>3, <1>k DEF CsrToDo
<1>10. QED
  BY <1>2, <1>3, <1>5, <1>6, <1>8, <1>9 DEF CsrNext

(***************************************************************************)
(* Whatever becomes of a call, the rows stay sound, in memory and saved.   *)
(***************************************************************************)
LEMMA CsrEffect ==
  ASSUME CsrInv, NEW c, run.calls # <<>>, c = Head(run.calls),
         vault' = vault \/ vault' = VaultAfter(c), db' \in {db, Written(c), DbAfter(c)}
  PROVE  /\ Counted' /\ CsrSound(db)' /\ CsrSound(vault.saved)' /\ ~vault'.bad
         /\ \A t \in Unique : vault'.items[t] < 2
         /\ c.on = "stop" /\ c.do # "publish"
<1> USE DEF CsrInv
<1> DEFINE Goal == /\ Counted' /\ CsrSound(db)' /\ CsrSound(vault.saved)' /\ ~vault'.bad
                   /\ \A t \in Unique : vault'.items[t] < 2
                   /\ c.on = "stop" /\ c.do # "publish"
\* The rows are sound after any change of the items that keeps the certificates'.
<1>q. Unique \subseteq Title /\ DbItem \in Unique /\ \A k \in Name : ExtItem(k) \notin Unique
  BY UniqueTitles DEF Unique, ExtItem, CsrItem, DkimItem, OpenVpn, CrlItem, DbItem
<1>d. \A k, n \in Name : CsrItem(k) # ExtItem(n) /\ CsrItem(k) # DbItem /\ ExtItem(k) # DbItem
                         /\ (n # k => CsrItem(k) # CsrItem(n) /\ ExtItem(k) # ExtItem(n))
  BY DEF CsrItem, ExtItem, DbItem
<1>m. ASSUME NEW d, CsrSound(d), \A k \in Name : vault.items[ExtItem(k)] > 0 => vault'.items[ExtItem(k)] > 0
      PROVE  CsrRowsOnly(d) /\ HaveCertificates(d) /\ \A i : \A k \in Name : Complete(i, k) \in d => vault'.items[ExtItem(k)] > 0
  BY <1>m DEF CsrSound, Backed
<1>n. ASSUME NEW d, NEW i, NEW k, CsrRowsOnly(d), Complete(i, k) \in d PROVE k \in Name
  BY <1>n DEF CsrRowsOnly, Complete, Pending, External
<1>o. ASSUME NEW d, CsrSound(d), \A k \in Name : vault.items[ExtItem(k)] > 0 => vault'.items[ExtItem(k)] > 0
      PROVE  CsrRowsOnly(d) /\ HaveCertificates(d) /\ \A i, k : Complete(i, k) \in d => vault'.items[ExtItem(k)] > 0
  BY <1>o, <1>m, <1>n
<1>p. ASSUME \A k \in Name : vault.items[ExtItem(k)] > 0 => vault'.items[ExtItem(k)] > 0,
             db' = db, vault'.saved = vault.saved
      PROVE  CsrSound(db)' /\ CsrSound(vault.saved)'
  BY <1>o, <1>p DEF CsrSound, CsrRowsOnly, HaveCertificates, Backed
\* A call on an item.
<1>i. ASSUME NEW k \in Name, c \in {Create(ExtItem(k)), ArchiveIfThere(CsrItem(k)), Archive(CsrItem(k))}
             \/ (c = Create(CsrItem(k)) /\ vault.items[CsrItem(k)] = 0)
      PROVE  Goal
  <2>1. c.of \in {CsrItem(k), ExtItem(k)} /\ c.of \in Title /\ c.on = "stop"
        /\ c.do \in {"create", "archive", "archive_if_there"}
    BY <1>i, Titles DEF Create, ArchiveIfThere, Archive, Call
  <2>2. db' = db
    BY <2>1 DEF Written, DbAfter
  <2>3. /\ Counted' /\ vault'.saved = vault.saved /\ ~vault'.bad
        /\ \A n \in Name : vault.items[ExtItem(n)] > 0 => vault'.items[ExtItem(n)] > 0
        /\ \A t \in Unique : vault'.items[t] < 2
    <3>1. CASE vault' = vault
      BY <3>1 DEF Counted
    <3>2. CASE vault' = VaultAfter(c) /\ c.do = "create"
      <4>1. ItemsAre([vault.items EXCEPT ![c.of] = More(@)])
        BY <2>1, <3>2, CallsLeave
      <4>2. More(vault.items[c.of]) \in 1..2 /\ (vault.items[c.of] = 0 => More(vault.items[c.of]) = 1)
        BY <2>1 DEF Counted, More
      <4>3. c.of = CsrItem(k) => vault.items[c.of] = 0
        BY <1>i, <2>1, <3>2, <1>d DEF Create, ArchiveIfThere, Archive, Call
      <4>4. QED
        BY <4>1, <4>2, <4>3, <2>1, <1>d, <1>q, Titles DEF ItemsAre, Counted
    <3>3. CASE vault' = VaultAfter(c) /\ c.do # "create"
      <4>0. c.of = CsrItem(k)
        BY <1>i, <3>3 DEF Create, ArchiveIfThere, Archive, Call
      <4>1. ItemsAre([vault.items EXCEPT ![c.of] = 0])
        BY <2>1, <3>3, CallsLeave
      <4>2. QED
        BY <4>0, <4>1, <2>1, <1>d, <1>q, Titles DEF ItemsAre, Counted
    <3>4. QED
      BY <2>1, <3>1, <3>2, <3>3
  <2>4. QED
    BY <2>1, <2>2, <2>3, <1>p
\* A write of the rows.
<1>s. ASSUME NEW old, NEW new, c = Store(old, new), CsrSound((db \ old) \cup new) PROVE Goal
  <2>1. c.do = "store" /\ c.on = "stop" /\ Written(c) = (db \ old) \cup new /\ DbAfter(c) = Written(c)
    BY <1>s DEF Store, Call, Written, DbAfter
  <2>2. CASE vault' = vault
    BY <2>1, <2>2, <1>s DEF CsrSound, CsrRowsOnly, HaveCertificates, Backed, Counted
  <2>3. CASE vault' = VaultAfter(c)
    <3>1. SavedIs((db \ old) \cup new)
      BY <2>1, <2>3, CallsLeave
    <3>2. Counted' /\ \A k \in Name : vault'.items[ExtItem(k)] = vault.items[ExtItem(k)]
                                      /\ vault'.items[CsrItem(k)] = vault.items[CsrItem(k)]
      BY <3>1, <1>d, Titles DEF SavedIs, Counted
    <3>4. ASSUME NEW d, CsrSound(d), d = (db \ old) \cup new \/ d = db PROVE CsrRowsOnly(d) /\ HaveCertificates(d)
             /\ \A i, k : Complete(i, k) \in d => vault'.items[ExtItem(k)] > 0
      BY <3>4, <3>2, <1>o
    <3>5. CsrSound(db)' /\ CsrSound(vault.saved)'
      BY <3>1, <3>4, <2>1, <1>s DEF SavedIs, CsrSound, CsrRowsOnly, HaveCertificates, Backed
    <3>6. QED
      BY <2>1, <3>1, <3>2, <3>5, <1>q, Titles DEF SavedIs, Counted
  <2>4. QED
    BY <2>2, <2>3
<1>t. ASSUME NEW old, NEW new, NEW k \in Name, Completing(old, new, k), vault.items[ExtItem(k)] > 0
      PROVE  CsrSound((db \ old) \cup new)
  <2>1. CsrRowsOnly((db \ old) \cup new)
    BY <1>t DEF CsrSound, CsrRowsOnly, Completing
  <2>2. \A i, n : External(n) # Complete(i, n) /\ External(n)[1] # "csr"
    BY DEF External, Complete
  <2>3. \A i, n : Complete(i, n) \in new => n = k
    BY <1>t DEF Completing, Complete, External
  <2>4. HaveCertificates((db \ old) \cup new)
    BY <1>t, <2>2, <2>3 DEF CsrSound, HaveCertificates, Completing
  <2>5. Backed((db \ old) \cup new)
    BY <1>t, <2>3 DEF CsrSound, Backed
  <2>6. QED
    BY <2>1, <2>4, <2>5 DEF CsrSound
<1>h. \A a, b, e : Head(<<a>>) = a /\ Head(<<a, b>>) = a /\ Head(<<a, b, e>>) = a
  OBVIOUS
<1>1. ASSUME NEW k \in Name, NewKey(run.calls, k) PROVE Goal
  <2>1. c = Create(CsrItem(k)) /\ vault.items[CsrItem(k)] = 0
    BY <1>1, <1>h DEF NewKey
  <2>2. QED
    BY <2>1, <1>i
<1>2. ASSUME NEW k \in Name, NewRow(run.calls, k) PROVE Goal
  <2>1. PICK i : c = Store({}, {Pending(i, k)})
    BY ZenonT(60), <1>2, <1>h DEF NewRow
  <2>2. CsrSound((db \ {}) \cup {Pending(i, k)})
    <3>1. CsrRowsOnly((db \ {}) \cup {Pending(i, k)})
      BY DEF CsrSound, CsrRowsOnly
    <3>2. \A j, n : Complete(j, n) # Pending(i, k)
      BY DEF Complete, Pending
    <3>3. QED
      BY <3>1, <3>2 DEF CsrSound, HaveCertificates, Backed
  <2>3. QED
    BY <2>1, <2>2, <1>s
<1>3. ASSUME NEW k \in Name, KeyGoes(run.calls, k) PROVE Goal
  <2>1. c = ArchiveIfThere(CsrItem(k))
    BY <1>3, <1>h DEF KeyGoes
  <2>2. QED
    BY <2>1, <1>i
<1>4. ASSUME RowGoes(run.calls) PROVE Goal
  <2>1. PICK r : c = Store({r}, {}) /\ r[1] = "csr"
    BY <1>4, <1>h DEF RowGoes
  <2>2. \A n : External(n) # r
    BY <2>1 DEF External
  <2>3. CsrSound((db \ {r}) \cup {})
    BY <2>2 DEF CsrSound, CsrRowsOnly, HaveCertificates, Backed
  <2>4. QED
    BY <2>1, <2>3, <1>s
<1>5. ASSUME NEW k \in Name, ImportFirst(run.calls, k) \/ ImportNext(run.calls, k) \/ ImportStops(run.calls, k)
      PROVE  Goal
  <2>1. c = Archive(CsrItem(k)) \/ c = Create(ExtItem(k))
    <3>1. CASE ImportFirst(run.calls, k)
      BY <3>1, <1>h DEF ImportFirst
    <3>2. CASE ImportNext(run.calls, k)
      BY <3>2, <1>h DEF ImportNext
    <3>3. CASE ImportStops(run.calls, k)
      BY <3>3, <1>h DEF ImportStops
    <3>4. QED
      BY <1>5, <3>1, <3>2, <3>3
  <2>2. QED
    BY <2>1, <1>i
<1>6. ASSUME NEW k \in Name, ImportLast(run.calls, k) PROVE Goal
  <2>1. PICK old, new : c = Store(old, new) /\ vault.items[ExtItem(k)] > 0 /\ Completing(old, new, k)
    BY <1>6, <1>h DEF ImportLast
  <2>2. QED
    BY <2>1, <1>t, <1>s
<1>7. CASE run.calls = <<Refuse>>
  <2>1. c = Refuse
    BY <1>7, <1>h
  <2>2. c.do = "refuse" /\ c.on = "stop"
    BY <2>1 DEF Refuse, Call
  <2>3. VaultAfter(c) = vault
    BY <2>2 DEF VaultAfter
  <2>4. DbAfter(c) = db /\ Written(c) = db
    BY <2>2 DEF DbAfter, Written
  <2>5. vault' = vault /\ db' = db
    BY <2>3, <2>4
  <2>6. QED
    BY <2>2, <2>5, <1>p DEF Counted
<1>8. QED
  BY <1>1, <1>2, <1>3, <1>4, <1>5, <1>6, <1>7 DEF CsrToDo

(***************************************************************************)
(* What is left to do once a call is done.                                 *)
(***************************************************************************)
LEMMA CsrDone ==
  ASSUME CsrInv, NEW c, run.calls # <<>>, c = Head(run.calls), Done(c)
  PROVE  CsrToDo(run.calls)'
<1> USE DEF CsrInv
<1>h. /\ \A a, b, e : Head(<<a>>) = a /\ Head(<<a, b>>) = a /\ Head(<<a, b, e>>) = a
      /\ \A a, b, e : Tail(<<a>>) = <<>> /\ Tail(<<a, b>>) = <<b>> /\ Tail(<<a, b, e>>) = <<b, e>>
  OBVIOUS
<1>d. vault' = VaultAfter(c) /\ run'.calls = Tail(run.calls)
  BY DEF Done
<1>e. ASSUME Tail(run.calls) = <<>> PROVE CsrToDo(run.calls)'
  BY <1>d, <1>e DEF CsrToDo
<1>1. ASSUME NEW k \in Name, NewKey(run.calls, k) PROVE CsrToDo(run.calls)'
  <2>1. Tail(run.calls) = <<>> \/ \E i : Tail(run.calls) = <<Store({}, {Pending(i, k)})>>
    BY <1>1, <1>h DEF NewKey
  <2>2. ASSUME NEW i, Tail(run.calls) = <<Store({}, {Pending(i, k)})>> PROVE CsrToDo(run.calls)'
    <3>1. NewRow(run.calls, k)'
      BY <2>2, <1>d DEF NewRow
    <3>2. QED
      BY <3>1 DEF CsrToDo
  <2>3. QED
    BY <2>1, <2>2, <1>e
<1>2. ASSUME NEW k \in Name, NewRow(run.calls, k) \/ ImportLast(run.calls, k) PROVE CsrToDo(run.calls)'
  <2>1. Tail(run.calls) = <<>>
    BY <1>2, <1>h DEF NewRow, ImportLast
  <2>2. QED
    BY <2>1, <1>e
<1>3. ASSUME NEW k \in Name, KeyGoes(run.calls, k) PROVE CsrToDo(run.calls)'
  <2>1. PICK r : r[1] = "csr" /\ run.calls = <<ArchiveIfThere(CsrItem(k)), Store({r}, {})>>
    BY <1>3 DEF KeyGoes
  <2>2. RowGoes(run.calls)'
    BY <2>1, <1>h, <1>d DEF RowGoes
  <2>3. QED
    BY <2>2 DEF CsrToDo
<1>4. ASSUME RowGoes(run.calls) \/ run.calls = <<Refuse>> PROVE CsrToDo(run.calls)'
  <2>1. Tail(run.calls) = <<>>
    BY <1>4, <1>h DEF RowGoes
  <2>2. QED
    BY <2>1, <1>e
<1>5. ASSUME NEW k \in Name, ImportFirst(run.calls, k) PROVE CsrToDo(run.calls)'
  <2>1. PICK old, new : /\ run.calls = <<Archive(CsrItem(k)), Create(ExtItem(k)), Store(old, new)>>
                        /\ Completing(old, new, k)
    BY <1>5 DEF ImportFirst
  <2>2. run'.calls = <<Create(ExtItem(k)), Store(old, new)>> /\ Completing(old, new, k)'
    BY <2>1, <1>h, <1>d DEF Completing
  <2>3. ImportNext(run.calls, k)'
    BY <2>2 DEF ImportNext
  <2>4. QED
    BY <2>3 DEF CsrToDo
<1>6. ASSUME NEW k \in Name, ImportNext(run.calls, k) PROVE CsrToDo(run.calls)'
  <2>1. PICK old, new : run.calls = <<Create(ExtItem(k)), Store(old, new)>> /\ Completing(old, new, k)
    BY <1>6 DEF ImportNext
  <2>2. c.of = ExtItem(k) /\ c.do = "create"
    BY <2>1, <1>h DEF Create, Call
  <2>3. ItemsAre([vault.items EXCEPT ![c.of] = More(@)])
    <3>1. c.of \in Title /\ vault' = VaultAfter(c)
      BY <2>2, <1>d, Titles
    <3>2. QED
      BY <2>2, <3>1, CallsLeave
  <2>4. vault'.items[ExtItem(k)] > 0
    BY <2>2, <2>3, Titles DEF ItemsAre, Counted, More
  <2>5. run'.calls = <<Store(old, new)>> /\ Completing(old, new, k)'
    BY <2>1, <1>h, <1>d DEF Completing
  <2>6. ImportLast(run.calls, k)'
    BY <2>4, <2>5 DEF ImportLast
  <2>7. QED
    BY <2>6 DEF CsrToDo
<1>7. ASSUME NEW k \in Name, ImportStops(run.calls, k) PROVE CsrToDo(run.calls)'
  <2>1. run'.calls = <<Refuse>>
    BY <1>7, <1>h, <1>d DEF ImportStops
  <2>2. QED
    BY <2>1 DEF CsrToDo
<1>8. QED
  BY <1>1, <1>2, <1>3, <1>4, <1>5, <1>6, <1>7 DEF CsrToDo

(***************************************************************************)
(* Every step keeps CsrInv.                                                *)
(***************************************************************************)
LEMMA CsrStep ==
  ASSUME CsrInv, area = "csr", CommandNext
  PROVE  CsrInv'
<1> USE DEF CsrInv
<1>f. Formed'
  BY StepFormed
<1>1. CASE CsrNext
  <2>1. PICK calls, d : Starts(calls, d) /\ d \in {db, vault.saved} /\ CsrToDo(calls)'
    BY <1>1, CsrStarts
  <2>2. vault' = vault /\ db' = d /\ run'.calls = calls /\ run'.todo = <<>> /\ faults' = faults
    BY <2>1 DEF Starts
  <2>3. CsrSound(db)' /\ CsrSound(vault.saved)' /\ Counted'
    BY <2>1, <2>2 DEF CsrSound, CsrRowsOnly, HaveCertificates, Backed, Counted
  <2>4. QED
    BY <1>f, <2>1, <2>2, <2>3
<1>2. CASE Succeeds \/ Refused \/ Fails
  <2>1. PICK c : run.calls # <<>> /\ c = Head(run.calls) /\ (Done(c) \/ Lost(c)) /\ run'.todo = <<>>
    BY <1>2, CallSteps
  <2>2. (vault' = vault \/ vault' = VaultAfter(c)) /\ db' \in {db, Written(c), DbAfter(c)}
    BY <2>1 DEF Done, Lost
  <2>3. /\ Counted' /\ CsrSound(db)' /\ CsrSound(vault.saved)' /\ ~vault'.bad
        /\ \A t \in Unique : vault'.items[t] < 2
        /\ c.on = "stop" /\ c.do # "publish"
    BY <2>1, <2>2, CsrEffect
  <2>4. CASE Lost(c)
    <3>1. run'.calls = <<>> /\ faults' \in Nat
      BY <2>3, <2>4 DEF Lost
    <3>2. CsrToDo(run.calls)'
      BY <3>1 DEF CsrToDo
    <3>3. QED
      BY <1>f, <2>1, <2>3, <3>1, <3>2
  <2>5. CASE Done(c)
    <3>1. CsrToDo(run.calls)' /\ faults' = faults
      BY <2>1, <2>5, CsrDone DEF Done
    <3>2. QED
      BY <1>f, <2>1, <2>3, <3>1
  <2>6. QED
    BY <2>1, <2>4, <2>5
<1>3. CASE Rests
  <2>1. /\ vault' = vault /\ run'.calls = <<>> /\ run'.todo = <<>> /\ faults' \in {faults, faults + 1}
        /\ db' \in {db, {}, Retrieved} /\ (faults' = faults => run.calls = <<>>)
    BY <1>3, RestSteps DEF Idle
  <2>2. Retrieved = vault.saved
    BY DEF Retrieved
  <2>3. CsrSound(db)' /\ CsrSound(vault.saved)' /\ Counted'
    BY <2>1, <2>2 DEF CsrSound, CsrRowsOnly, HaveCertificates, Backed, Counted
  <2>4. CsrToDo(run.calls)' /\ faults' \in Nat
    BY <2>1 DEF CsrToDo
  <2>5. QED
    BY <1>f, <2>1, <2>3, <2>4
<1>4. QED
  <2>1. CsrNext \/ Succeeds \/ Refused \/ Fails \/ Rests
    BY DEF CommandNext, Rests, DkimNext, OpenVpnNext, ProfileNext, CertNext, MarkNext, CaNext
  <2>2. QED
    BY <2>1, <1>1, <1>2, <1>3

-----------------------------------------------------------------------------
(* What the commands of an area touch *)

\* The kinds of rows that the calls of an area write, and those it has.
WrittenTags ==
    CASE area = "dkim" -> {"dkim"}
      [] area = "openvpn" -> {"tpl", "import"}
      [] area = "profiles" -> {"tpl", "import", "vpn"}
      [] area \in {"cert", "marks"} -> {"cert", "ignored", "gone", "next"}
      [] area = "ca" -> {"cert", "next", "config"}
      [] OTHER -> {}
Tags == IF area \in {"cert", "marks"} THEN WrittenTags \cup {"published"} ELSE WrittenTags

Tagged(d, T) == \A r \in d : r[1] \in T

\* Those of the unambiguous titles that the area's calls create.
Created ==
    CASE area = "dkim" -> {DkimItem(c) : c \in Name}
      [] area = "ca" -> {CrlItem}
      [] OTHER -> {}

OwnCall(c) ==
    /\ c.do \in {"rows", "store"} => Tagged(c.of.new, WrittenTags)
    /\ c.do \in {"new_db", "replace_db"} => Tagged(c.of, WrittenTags)
    /\ c.do = "create" => c.of \notin Unique
    /\ c.do \in {"archive", "archive_if_there"} => area # "ca"
    /\ c.do = "publish" => area \in {"cert", "marks"}
    /\ c.do \notin {"take", "write_file"}

OwnCalls(calls) == \E S : calls \in Seq(S) /\ \A c \in S : OwnCall(c)

\* What a call makes an item of.
Makes(c, t) == (c.do \in {"create", "put"} /\ c.of = t) \/ (c.do = "put_crl" /\ t = CrlItem)

\* A title of the area's own is created only while it is free, and once.
FreeCalls(calls) ==
    \A i \in 1..Len(calls) :
        calls[i].do = "create" /\ calls[i].of \in Created =>
            vault.items[calls[i].of] = 0 /\ \A j \in 1..(i - 1) : ~Makes(calls[j], calls[i].of)

\* A backup starts with the CA's item, and the file is written at its end.
BackupOrder(calls) ==
    \A i \in 1..Len(calls) :
        /\ calls[i].do \in {"take", "write_file"} =>
              CaItem \in vault.draft.titles \/ calls[1] = Call("take", CaItem)
        /\ calls[i].do = "write_file" => i = Len(calls)

MayCall(c) == OwnCall(c) \/ (c.do = "create" /\ c.of \in Created) \/ c.do \in {"take", "write_file"}
MayCalls(calls) ==
    (\E S : calls \in Seq(S) /\ \A c \in S : MayCall(c)) /\ FreeCalls(calls) /\ BackupOrder(calls)

OwnCopies(copies) == \E S : copies \in Seq(S) /\ \A d \in S : Tagged(d, Tags)

(***************************************************************************)
(* The rows are of the area's kinds, wherever they are; the titles that    *)
(* must be unambiguous are; a backup that was made has the CA's item.      *)
(***************************************************************************)
OwnState ==
    /\ Counted /\ \A t \in Unique : vault.items[t] < 2
    /\ Tagged(db, Tags) /\ Tagged(vault.saved, Tags) /\ OwnCopies(vault.kept)
    /\ Tagged(vault.draft.rows, Tags) /\ Tagged(vault.file.rows, Tags)
    /\ vault.file # NoFile => CaItem \in vault.file.titles

(***************************************************************************)
(* What is marked published was uploaded, and nothing else is so marked.   *)
(***************************************************************************)
MarkedIn(d) ==
    \A n : Published(n) \in d => n \in vault.public /\ \A k : Published(k) \in d => k = n

\* The commands that go through a list of serials.
ItemCommands == {"revoke", "renew", "rekey", "delete", "ignore", "unignore", "publish"}
OwnList == area \in {"cert", "marks"} /\ run.todo # <<>> => run.cmd \in ItemCommands

OwnInv ==
    /\ Formed /\ OwnState /\ MayCalls(run.calls) /\ OwnList
    /\ area \in {"cert", "marks"} => MarkedIn(db) /\ MarkedIn(vault.saved)

(***************************************************************************)
(* Lists of the area's calls, joined.                                      *)
(***************************************************************************)
LEMMA OwnLists ==
  /\ OwnCalls(<<>>)
  /\ \A a : OwnCall(a) => OwnCalls(<<a>>)
  /\ \A a, b : OwnCall(a) /\ OwnCall(b) => OwnCalls(<<a, b>>)
  /\ \A a, b, c : OwnCall(a) /\ OwnCall(b) /\ OwnCall(c) => OwnCalls(<<a, b, c>>)
  /\ \A s, t : OwnCalls(s) /\ OwnCalls(t) => OwnCalls(s \o t)
<1>0. OwnCalls(<<>>)
  <2>1. PICK S : S = {}
    OBVIOUS
  <2>2. <<>> \in Seq(S) /\ \A x \in S : OwnCall(x)
    BY <2>1
  <2>3. QED
    BY <2>2 DEF OwnCalls
<1>1. ASSUME NEW a, OwnCall(a) PROVE OwnCalls(<<a>>)
  <2>1. PICK S : S = {a}
    OBVIOUS
  <2>2. <<a>> \in Seq(S) /\ \A x \in S : OwnCall(x)
    BY <1>1, <2>1
  <2>3. QED
    BY <2>2 DEF OwnCalls
<1>2. ASSUME NEW a, NEW b, OwnCall(a), OwnCall(b) PROVE OwnCalls(<<a, b>>)
  <2>1. PICK S : S = {a, b}
    OBVIOUS
  <2>2. <<a, b>> \in Seq(S) /\ \A x \in S : OwnCall(x)
    BY <1>2, <2>1
  <2>3. QED
    BY <2>2 DEF OwnCalls
<1>3. ASSUME NEW a, NEW b, NEW c, OwnCall(a), OwnCall(b), OwnCall(c) PROVE OwnCalls(<<a, b, c>>)
  <2>1. PICK S : S = {a, b, c}
    OBVIOUS
  <2>2. <<a, b, c>> \in Seq(S) /\ \A x \in S : OwnCall(x)
    BY <1>3, <2>1
  <2>3. QED
    BY <2>2 DEF OwnCalls
<1>4. ASSUME NEW s, NEW t, OwnCalls(s), OwnCalls(t) PROVE OwnCalls(s \o t)
  <2>1. PICK S : s \in Seq(S) /\ \A c \in S : OwnCall(c)
    BY <1>4 DEF OwnCalls
  <2>2. PICK T : t \in Seq(T) /\ \A c \in T : OwnCall(c)
    BY <1>4 DEF OwnCalls
  <2>3. s \in Seq(S \cup T) /\ t \in Seq(S \cup T)
    BY <2>1, <2>2, SeqMonotonic
  <2>4. s \o t \in Seq(S \cup T)
    BY <2>3, ConcatProperties
  <2>5. QED
    BY <2>1, <2>2, <2>4 DEF OwnCalls
<1>5. QED
  BY <1>0, <1>1, <1>2, <1>3, <1>4

(***************************************************************************)
(* The calls that no area has to itself.                                   *)
(***************************************************************************)
LEMMA OwnKinds ==
  /\ \A t : /\ OwnCall(Put(t)) /\ OwnCall(Read(t)) /\ OwnCall(Look(t))
            /\ area # "ca" => OwnCall(Archive(t)) /\ OwnCall(ArchiveIfThere(t))
            /\ t \notin Unique => OwnCall(Create(t))
  /\ \A old, new : Tagged(new, WrittenTags) => OwnCall(Store(old, new)) /\ OwnCall(Rows(old, new))
  /\ OwnCall(Save) /\ OwnCall(Refuse)
  /\ \A do, of : do \in {"note_fields", "archive_note", "remove_fields", "inject", "keep", "unreadable",
                         "list_notes", "put_crl"} => OwnCall(Call(do, of))
  /\ \A c : (OwnCall(c) => OwnCall(Softly(c)) /\ OwnCall(Silently(c)))
<1>1. \A t : /\ OwnCall(Put(t)) /\ OwnCall(Read(t)) /\ OwnCall(Look(t))
             /\ area # "ca" => OwnCall(Archive(t)) /\ OwnCall(ArchiveIfThere(t))
             /\ t \notin Unique => OwnCall(Create(t))
  BY DEF OwnCall, Put, Read, Look, Archive, ArchiveIfThere, Create, Call
<1>2. \A old, new : Tagged(new, WrittenTags) => OwnCall(Store(old, new)) /\ OwnCall(Rows(old, new))
  BY DEF OwnCall, Store, Rows, Call
<1>3. OwnCall(Save) /\ OwnCall(Refuse)
  <2>1. Tagged({}, WrittenTags)
    BY DEF Tagged
  <2>2. QED
    BY <2>1, <1>2 DEF Save, Refuse, OwnCall, Call
<1>4. \A do, of : do \in {"note_fields", "archive_note", "remove_fields", "inject", "keep", "unreadable",
                         "list_notes", "put_crl"} => OwnCall(Call(do, of))
  BY DEF OwnCall, Call
<1>5. ASSUME NEW c, OwnCall(c) PROVE OwnCall(Softly(c)) /\ OwnCall(Silently(c))
  BY <1>5 DEF OwnCall, Softly, Silently
<1>6. QED
  BY <1>1, <1>2, <1>3, <1>4, <1>5

(***************************************************************************)
(* Which parts of 1Password and of the disk a call changes.                *)
(***************************************************************************)
LEMMA PartsChanged ==
  ASSUME Formed, NEW c, NEW v, v = VaultAfter(c)
  PROVE  /\ \/ v.items = vault.items
            \/ c.do = "create" /\ v.items = [vault.items EXCEPT ![c.of] = More(@)]
            \/ c.do = "put" /\ v.items = [vault.items EXCEPT ![c.of] = 1]
            \/ c.do \in {"archive", "archive_if_there"} /\ v.items = [vault.items EXCEPT ![c.of] = 0]
            \/ c.do \in {"store", "new_db", "replace_db"} /\ v.items = [vault.items EXCEPT ![DbItem] = 1]
            \/ c.do = "put_crl" /\ v.items = [vault.items EXCEPT ![CrlItem] = 1]
         /\ \/ v.saved = vault.saved
            \/ c.do = "store" /\ v.saved = Written(c)
            \/ c.do \in {"new_db", "replace_db"} /\ v.saved = c.of
         /\ v.kept \in {vault.kept, Keep(vault.kept, db)}
         /\ \/ v.draft = vault.draft
            \/ c.do = "take" /\ v.draft = Take(vault.draft, c.of)
            \/ c.do = "write_file" /\ v.draft = NoFile
         /\ v.file = vault.file \/ (c.do = "write_file" /\ v.file = vault.draft)
         /\ \/ v.public = vault.public /\ c.do # "publish"
            \/ v.public = vault.public \cup {c.of} /\ c.do = "publish"
         /\ c.do = "publish" => v.saved = vault.saved
<1>f. vault = [f \in VaultFields |-> vault[f]]
  BY DEF Formed
<1> USE <1>f DEF VaultFields
<1> DEFINE Same == /\ v.kept = vault.kept /\ v.draft = vault.draft /\ v.file = vault.file
                   /\ v.public = vault.public
<1>1. CASE c.do = "create"
  <2>1. v = [vault EXCEPT !.items[c.of] = More(@)]
    BY <1>1, CallsDo
  <2>2. Same /\ v.saved = vault.saved /\ v.items = [vault.items EXCEPT ![c.of] = More(@)]
    BY <2>1
  <2>3. QED
    BY <1>1, <2>2
<1>2. CASE c.do = "put"
  <2>1. v = [vault EXCEPT !.items[c.of] = 1]
    BY <1>2, CallsDo
  <2>2. Same /\ v.saved = vault.saved /\ v.items = [vault.items EXCEPT ![c.of] = 1]
    BY <2>1
  <2>3. QED
    BY <1>2, <2>2
<1>3. CASE c.do \in {"archive", "archive_if_there"}
  <2>1. v = [vault EXCEPT !.items[c.of] = 0]
    BY <1>3, CallsDo
  <2>2. Same /\ v.saved = vault.saved /\ v.items = [vault.items EXCEPT ![c.of] = 0]
    BY <2>1
  <2>3. QED
    BY <1>3, <2>2
<1>4. CASE c.do \in {"store", "new_db", "replace_db"}
  <2>1. PICK d : d = (IF c.do = "store" THEN Written(c) ELSE c.of)
    OBVIOUS
  <2>2. v = Saved(d)
    BY <1>4, <2>1, CallsDo
  <2>3. Same /\ v.saved = d /\ v.items = [vault.items EXCEPT ![DbItem] = 1]
    BY <2>2 DEF Saved
  <2>4. QED
    BY <1>4, <2>1, <2>3
<1>5. CASE c.do = "put_crl"
  <2>1. v = [vault EXCEPT !.items[CrlItem] = 1, !.crl = c.of]
    BY <1>5, CallsDo DEF CrlItem
  <2>2. Same /\ v.saved = vault.saved /\ v.items = [vault.items EXCEPT ![CrlItem] = 1]
    BY <2>1
  <2>3. QED
    BY <1>5, <2>2
<1>6. CASE c.do = "keep"
  <2>1. v = [vault EXCEPT !.kept = Keep(@, db)]
    BY <1>6, CallsDo
  <2>2. /\ v.items = vault.items /\ v.saved = vault.saved /\ v.kept = Keep(vault.kept, db)
        /\ v.draft = vault.draft /\ v.file = vault.file /\ v.public = vault.public
    BY <2>1
  <2>3. QED
    BY <1>6, <2>2
<1>7. CASE c.do = "take"
  <2>1. v = [vault EXCEPT !.draft = Take(@, c.of)]
    BY <1>7, CallsDo
  <2>2. /\ v.items = vault.items /\ v.saved = vault.saved /\ v.kept = vault.kept
        /\ v.draft = Take(vault.draft, c.of) /\ v.file = vault.file /\ v.public = vault.public
    BY <2>1
  <2>3. QED
    BY <1>7, <2>2
<1>8. CASE c.do = "write_file"
  <2>1. v = [vault EXCEPT !.file = vault.draft, !.draft = NoFile]
    BY <1>8, CallsDo
  <2>2. /\ v.items = vault.items /\ v.saved = vault.saved /\ v.kept = vault.kept
        /\ v.draft = NoFile /\ v.file = vault.draft /\ v.public = vault.public
    BY <2>1
  <2>3. QED
    BY <1>8, <2>2
<1>9. CASE c.do = "publish"
  <2>1. v = [vault EXCEPT !.public = @ \cup {c.of}]
    BY <1>9, CallsDo
  <2>2. /\ v.items = vault.items /\ v.saved = vault.saved /\ v.kept = vault.kept
        /\ v.draft = vault.draft /\ v.file = vault.file /\ v.public = vault.public \cup {c.of}
    BY <2>1
  <2>3. QED
    BY <1>9, <2>2
<1>10. CASE c.do \in {"note_fields", "archive_note", "remove_fields"}
  <2>1. \/ v = [vault EXCEPT !.copy = @ \cup vault.fields]
        \/ v = [vault EXCEPT !.notes = @ \cup vault.copy, !.copy = {}]
        \/ v = [vault EXCEPT !.fields = {}]
    BY <1>10, CallsDo
  <2>2. Same /\ v.items = vault.items /\ v.saved = vault.saved
    BY <2>1
  <2>3. QED
    BY <1>10, <2>2
<1>11. CASE c.do \notin {"create", "put", "archive", "archive_if_there", "store", "new_db", "replace_db", "keep",
                         "take", "write_file", "put_crl", "publish", "note_fields", "archive_note",
                         "remove_fields"}
  BY <1>11, CallsDo
<1>12. QED
  BY <1>1, <1>2, <1>3, <1>4, <1>5, <1>6, <1>7, <1>8, <1>9, <1>10, <1>11

(***************************************************************************)
(* A list of calls that is shorter by its first.                           *)
(***************************************************************************)
LEMMA OwnTail ==
  ASSUME NEW calls, MayCalls(calls), calls # <<>>
  PROVE  /\ MayCall(Head(calls)) /\ \E S : Tail(calls) \in Seq(S) /\ \A c \in S : MayCall(c)
         /\ Head(calls).do = "create" /\ Head(calls).of \in Created => vault.items[Head(calls).of] = 0
         /\ \A i \in 1..Len(Tail(calls)) :
               Tail(calls)[i].do = "create" /\ Tail(calls)[i].of \in Created =>
                  /\ vault.items[Tail(calls)[i].of] = 0 /\ ~Makes(Head(calls), Tail(calls)[i].of)
                  /\ \A j \in 1..(i - 1) : ~Makes(Tail(calls)[j], Tail(calls)[i].of)
         /\ \A i \in 1..Len(Tail(calls)) :
               /\ Tail(calls)[i].do \in {"take", "write_file"} =>
                     CaItem \in vault.draft.titles \/ Head(calls) = Call("take", CaItem)
               /\ Tail(calls)[i].do = "write_file" => i = Len(Tail(calls))
         /\ Head(calls).do = "write_file" => Tail(calls) = <<>>
         /\ Head(calls).do \in {"take", "write_file"} =>
               CaItem \in vault.draft.titles \/ Head(calls) = Call("take", CaItem)
<1>1. PICK S : calls \in Seq(S) /\ \A c \in S : MayCall(c)
  BY DEF MayCalls
<1>2. /\ Head(calls) \in S /\ Tail(calls) \in Seq(S) /\ Len(Tail(calls)) = Len(calls) - 1 /\ Len(calls) \in Nat
      /\ \A i \in 1..Len(Tail(calls)) : Tail(calls)[i] = calls[i + 1]
  BY <1>1, HeadTailProperties, LenProperties
<1>3. Len(calls) > 0 /\ Head(calls) = calls[1]
  BY <1>1, EmptySeq, LenProperties
<1>4. Head(calls).do = "create" /\ Head(calls).of \in Created => vault.items[Head(calls).of] = 0
  BY <1>2, <1>3 DEF MayCalls, FreeCalls
<1>5. ASSUME NEW i \in 1..Len(Tail(calls)), Tail(calls)[i].do = "create", Tail(calls)[i].of \in Created
      PROVE  /\ vault.items[Tail(calls)[i].of] = 0 /\ ~Makes(Head(calls), Tail(calls)[i].of)
             /\ \A j \in 1..(i - 1) : ~Makes(Tail(calls)[j], Tail(calls)[i].of)
  <2>1. i + 1 \in 1..Len(calls) /\ Tail(calls)[i] = calls[i + 1] /\ 1 \in 1..i
    BY <1>2
  <2>2. vault.items[calls[i + 1].of] = 0 /\ \A j \in 1..i : ~Makes(calls[j], calls[i + 1].of)
    BY <1>5, <2>1 DEF MayCalls, FreeCalls
  <2>3. ASSUME NEW j \in 1..(i - 1) PROVE ~Makes(Tail(calls)[j], Tail(calls)[i].of)
    <3>1. j + 1 \in 1..i /\ j \in 1..Len(Tail(calls))
      BY <1>2
    <3>2. Tail(calls)[j] = calls[j + 1]
      BY <1>2, <3>1
    <3>3. QED
      BY <2>1, <2>2, <3>1, <3>2
  <2>4. QED
    BY <1>3, <2>1, <2>2, <2>3
<1>6. ASSUME NEW i \in 1..Len(Tail(calls))
      PROVE  /\ Tail(calls)[i].do \in {"take", "write_file"} =>
                   CaItem \in vault.draft.titles \/ Head(calls) = Call("take", CaItem)
             /\ Tail(calls)[i].do = "write_file" => i = Len(Tail(calls))
  <2>1. i + 1 \in 1..Len(calls) /\ Tail(calls)[i] = calls[i + 1]
    BY <1>2
  <2>2. /\ calls[i + 1].do \in {"take", "write_file"} =>
              CaItem \in vault.draft.titles \/ calls[1] = Call("take", CaItem)
        /\ calls[i + 1].do = "write_file" => i + 1 = Len(calls)
    BY <2>1 DEF MayCalls, BackupOrder
  <2>3. i + 1 = Len(calls) => i = Len(Tail(calls))
    <3>1. PICK m, n : m = Len(Tail(calls)) /\ n = Len(calls)
      OBVIOUS
    <3>2. m = n - 1 /\ n \in Nat /\ i \in Int
      BY <1>2, <3>1
    <3>3. i + 1 = n => i = m
      BY <3>2
    <3>4. QED
      BY <3>1, <3>3
  <2>4. QED
    BY <1>3, <2>1, <2>2, <2>3
<1>7. /\ Head(calls).do = "write_file" => Tail(calls) = <<>>
      /\ Head(calls).do \in {"take", "write_file"} =>
            CaItem \in vault.draft.titles \/ Head(calls) = Call("take", CaItem)
  <2>1. 1 \in 1..Len(calls)
    BY <1>2, <1>3
  <2>a. /\ calls[1].do \in {"take", "write_file"} =>
              CaItem \in vault.draft.titles \/ calls[1] = Call("take", CaItem)
        /\ calls[1].do = "write_file" => 1 = Len(calls)
    BY <2>1 DEF MayCalls, BackupOrder
  <2>2. Head(calls).do = "write_file" => Len(Tail(calls)) = 0
    BY <1>2, <1>3, <2>a
  <2>3. QED
    BY <1>2, <1>3, <2>a, <2>2, EmptySeq
<1>8. QED
  BY <1>1, <1>2, <1>4, <1>5, <1>6, <1>7

(***************************************************************************)
(* Calls that create no title of the area's own are allowed at any time,   *)
(* and so is one such creation, of a free title, before them.              *)
(***************************************************************************)
LEMMA OwnMay ==
  ASSUME NEW calls, OwnCalls(calls)
  PROVE  /\ MayCalls(calls)
         /\ \A t \in Created : vault.items[t] = 0 => MayCalls(<<Create(t)>> \o calls)
<1>u. Created \subseteq Unique
  BY DEF Created, Unique
<1>1. PICK S : calls \in Seq(S) /\ \A c \in S : OwnCall(c)
  BY DEF OwnCalls
<1>2. \A i \in 1..Len(calls) : /\ calls[i].do = "create" => calls[i].of \notin Created
                               /\ calls[i].do \notin {"take", "write_file"}
  <2>1. \A i \in 1..Len(calls) : calls[i] \in S
    BY <1>1, ElementOfSeq
  <2>2. QED
    BY <1>1, <1>u, <2>1 DEF OwnCall
<1>3. MayCalls(calls)
  <2>1. \A c \in S : MayCall(c)
    BY <1>1 DEF MayCall
  <2>2. QED
    BY <1>1, <1>2, <2>1 DEF MayCalls, FreeCalls, BackupOrder
<1>4. ASSUME NEW t \in Created, vault.items[t] = 0 PROVE MayCalls(<<Create(t)>> \o calls)
  <2>1. PICK T : T = S \cup {Create(t)}
    OBVIOUS
  <2>2. \A c \in T : MayCall(c)
    BY <1>1, <1>4, <2>1 DEF MayCall, Create, Call
  <2>3. calls \in Seq(T) /\ <<Create(t)>> \in Seq(T)
    BY <1>1, <2>1, SeqMonotonic
  <2>4. PICK all : all = <<Create(t)>> \o calls
    OBVIOUS
  <2>5. /\ all \in Seq(T) /\ Len(all) = 1 + Len(calls)
        /\ \A i \in 1..(1 + Len(calls)) : all[i] = IF i <= 1 THEN Create(t) ELSE calls[i - 1]
    <3>1. Len(<<Create(t)>>) = 1 /\ <<Create(t)>>[1] = Create(t)
      OBVIOUS
    <3>2. /\ all \in Seq(T) /\ Len(all) = Len(<<Create(t)>>) + Len(calls)
          /\ \A i \in 1..(Len(<<Create(t)>>) + Len(calls)) :
                all[i] = IF i <= Len(<<Create(t)>>) THEN <<Create(t)>>[i] ELSE calls[i - Len(<<Create(t)>>)]
      BY <2>3, <2>4, ConcatProperties
    <3>3. QED
      BY <3>1, <3>2
  <2>6. Len(calls) \in Nat
    BY <1>1, LenProperties
  <2>7. ASSUME NEW i \in 1..Len(all), all[i].do = "create", all[i].of \in Created
        PROVE  vault.items[all[i].of] = 0 /\ i = 1
    <3>1. CASE i = 1
      BY <1>4, <2>5, <2>6, <3>1 DEF Create, Call
    <3>2. CASE i # 1
      <4>1. i - 1 \in 1..Len(calls) /\ all[i] = calls[i - 1]
        BY <2>5, <2>6, <3>2
      <4>2. QED
        BY <1>2, <2>7, <4>1
    <3>3. QED
      BY <3>1, <3>2
  <2>8. FreeCalls(all)
    BY <2>7 DEF FreeCalls
  <2>b. ASSUME NEW i \in 1..Len(all) PROVE all[i].do \notin {"take", "write_file"}
    <3>1. CASE i = 1
      BY <2>5, <2>6, <3>1 DEF Create, Call
    <3>2. CASE i # 1
      <4>1. i - 1 \in 1..Len(calls) /\ all[i] = calls[i - 1]
        BY <2>5, <2>6, <3>2
      <4>2. QED
        BY <1>2, <4>1
    <3>3. QED
      BY <3>1, <3>2
  <2>9. BackupOrder(all)
    BY <2>b DEF BackupOrder
  <2>10. QED
    BY <2>2, <2>4, <2>5, <2>8, <2>9 DEF MayCalls
<1>5. QED
  BY <1>3, <1>4

(***************************************************************************)
(* Copies are of the area's rows, with one more of them.                   *)
(***************************************************************************)
LEMMA OwnKeep ==
  ASSUME NEW copies, OwnCopies(copies), NEW rows, Tagged(rows, Tags)
  PROVE  OwnCopies(Keep(copies, rows))
<1>1. PICK S : copies \in Seq(S) /\ \A d \in S : Tagged(d, Tags)
  BY DEF OwnCopies
<1>2. PICK T : T = S \cup {rows}
  OBVIOUS
<1>3. copies \in Seq(T) /\ rows \in T /\ \A d \in T : Tagged(d, Tags)
  BY <1>1, <1>2, SeqMonotonic
<1>4. Append(copies, rows) \in Seq(T)
  BY <1>3, AppendProperties
<1>5. PICK all : all = Append(copies, rows)
  OBVIOUS
<1>6. \A i \in 1..Len(all) : all[i] \in T
  BY <1>4, <1>5, ElementOfSeq
<1>7. Len(all) \in Nat
  BY <1>4, <1>5, LenProperties
<1>8. SubSeq(all, IF Len(all) > KeepLocal THEN 2 ELSE 1, Len(all)) \in Seq(T)
  BY <1>6, <1>7, SubSeqProperties
<1>9. Keep(copies, rows) \in Seq(T)
  BY <1>3, <1>5, <1>8 DEF Keep
<1>10. QED
  BY <1>3, <1>9 DEF OwnCopies

(***************************************************************************)
(* The counts after one of them is set, whether there is such a title.     *)
(***************************************************************************)
LEMMA OneSet ==
  ASSUME Counted, NEW t, NEW n \in 0..2
  PROVE  /\ [vault.items EXCEPT ![t] = n] \in [Title -> 0..2]
         /\ \A u \in Title : [vault.items EXCEPT ![t] = n][u] = IF u = t THEN n ELSE vault.items[u]
BY DEF Counted

(***************************************************************************)
(* A command that starts, goes on with its next item or ends keeps OwnInv  *)
(* as long as its calls are of the area.                                   *)
(***************************************************************************)
LEMMA OwnStart ==
  ASSUME OwnInv, Formed', vault' = vault, area' = area, db' \in {db, {}, Retrieved}, MayCalls(run'.calls), OwnList'
  PROVE  OwnInv'
<1>1. Retrieved \in {{}, vault.saved}
  BY DEF Retrieved
<1>2. OwnState'
  BY <1>1 DEF OwnInv, OwnState, Counted, Tagged, Tags, WrittenTags, OwnCopies, Created
<1>3. MayCalls(run.calls)'
  <2>1. PICK S : run'.calls \in Seq(S) /\ \A c \in S : MayCall(c)
    BY DEF MayCalls
  <2>2. \A c \in S : MayCall(c)'
    BY <2>1 DEF MayCall, OwnCall, Tagged, WrittenTags, Created
  <2>3. FreeCalls(run.calls)' /\ BackupOrder(run.calls)'
    BY DEF MayCalls, FreeCalls, BackupOrder, Created
  <2>4. QED
    BY <2>1, <2>2, <2>3 DEF MayCalls
<1>4. area \in {"cert", "marks"} => MarkedIn(db)' /\ MarkedIn(vault.saved)'
  BY <1>1 DEF OwnInv, MarkedIn
<1>5. QED
  BY <1>2, <1>3, <1>4 DEF OwnInv

(***************************************************************************)
(* So does every call, whatever becomes of it.                             *)
(***************************************************************************)
LEMMA OwnCallStep ==
  ASSUME OwnInv, Formed', Succeeds \/ Refused \/ Fails
  PROVE  OwnInv'
<1> USE DEF OwnInv
<1>1. PICK c : /\ run.calls # <<>> /\ c = Head(run.calls) /\ (Done(c) \/ Lost(c)) /\ area' = area
  BY CallSteps
<1>2. MayCall(c) /\ (c.do \notin {"create", "take", "write_file"} => OwnCall(c))
  BY <1>1, OwnTail DEF MayCall
<1>o. c.do = "create" => c.of \notin Unique \/ vault.items[c.of] = 0
  BY <1>1, OwnTail DEF MayCall, OwnCall
<1>a. /\ Tags' = Tags /\ WrittenTags' = WrittenTags /\ Created' = Created
  BY <1>1 DEF Tags, WrittenTags, Created
\* What is left to do.
\* The database in memory, with what is marked in it.
<1>w. WrittenTags \subseteq Tags
  BY DEF Tags
<1>4. Tagged(Written(c), Tags)
  <2>1. c.do \in {"rows", "store"} => Tagged(c.of.new, WrittenTags)
    BY <1>2 DEF OwnCall
  <2>2. QED
    BY <1>w, <2>1 DEF Written, Tagged, OwnState
<1>5. c.do = "publish" => Tagged(DbAfter(c), Tags) /\ DbAfter(c) = {r \in db : r[1] # "published"} \cup {Published(c.of)}
  BY <1>2 DEF OwnCall, DbAfter, Tagged, Tags, Published, OwnState
<1>6. c.do # "publish" => DbAfter(c) = Written(c)
  BY DEF DbAfter
<1>7. Tagged(db', Tags)
  BY <1>1, <1>4, <1>5, <1>6 DEF Done, Lost, OwnState
\* What is in 1Password and on disk.
<1>8. vault' = vault \/ vault' = VaultAfter(c) \/ (vault' = Damaged /\ area = "ca")
  BY <1>1 DEF Done, Lost
<1>n. Tagged(NoFile.rows, Tags)
  BY DEF NoFile, Tagged
<1>9. OwnState'
  <2>1. CASE vault' = vault
    BY <2>1, <1>7, <1>a DEF OwnState, Tagged, OwnCopies, Counted
  <2>2. CASE vault' = Damaged
    <3>1. /\ vault'.items = [vault.items EXCEPT ![DbItem] = 1] /\ vault'.saved = vault.saved /\ vault'.kept = vault.kept
          /\ vault'.draft = vault.draft /\ vault'.file = vault.file
      BY <2>2 DEF Damaged, Formed, VaultFields
    <3>2. Counted' /\ \A t \in Unique : vault'.items[t] < 2
      BY <3>1, Titles DEF Counted, OwnState, Unique
    <3>3. QED
      BY <3>1, <3>2, <1>7, <1>a DEF OwnState, Tagged, OwnCopies
  <2>3. CASE vault' = VaultAfter(c)
    <3>1. /\ \/ vault'.items = vault.items
             \/ c.do = "create" /\ vault'.items = [vault.items EXCEPT ![c.of] = More(@)]
             \/ c.do = "put" /\ vault'.items = [vault.items EXCEPT ![c.of] = 1]
             \/ c.do \in {"archive", "archive_if_there"} /\ vault'.items = [vault.items EXCEPT ![c.of] = 0]
             \/ vault'.items = [vault.items EXCEPT ![DbItem] = 1]
             \/ vault'.items = [vault.items EXCEPT ![CrlItem] = 1]
          /\ \/ vault'.saved = vault.saved
             \/ c.do = "store" /\ vault'.saved = Written(c)
             \/ c.do \in {"new_db", "replace_db"} /\ vault'.saved = c.of
          /\ vault'.kept \in {vault.kept, Keep(vault.kept, db)}
          /\ vault'.draft \in {vault.draft, NoFile, Take(vault.draft, c.of)}
          /\ vault'.file = vault.file \/ (c.do = "write_file" /\ vault'.file = vault.draft)
      BY SMTT(60), <2>3, PartsChanged
    <3>2. Counted' /\ \A t \in Unique : vault'.items[t] < 2
      <4>1. ASSUME NEW t, NEW n \in 0..2, vault'.items = [vault.items EXCEPT ![t] = n], t \in Unique => n < 2
            PROVE  Counted' /\ \A u \in Unique : vault'.items[u] < 2
        <5>1. [vault.items EXCEPT ![t] = n] \in [Title -> 0..2]
              /\ \A u \in Title : [vault.items EXCEPT ![t] = n][u] = IF u = t THEN n ELSE vault.items[u]
          BY OneSet DEF OwnState
        <5>2. QED
          BY <4>1, <5>1, UniqueTitles DEF Counted, OwnState
      <4>2. CASE c.do = "create" /\ vault'.items = [vault.items EXCEPT ![c.of] = More(@)]
        <5>1. CASE c.of \in Title
          <6>1. More(vault.items[c.of]) \in 0..2
            BY <5>1 DEF More, OwnState, Counted
          <6>2. c.of \in Unique => More(vault.items[c.of]) < 2
            BY <4>2, <1>o DEF More
          <6>3. QED
            BY <4>1, <4>2, <6>1, <6>2
        <5>2. CASE c.of \notin Title
          <6>1. vault'.items = vault.items
            BY <4>2, <5>2 DEF OwnState, Counted
          <6>2. QED
            BY <6>1 DEF OwnState, Counted
        <5>3. QED
          BY <5>1, <5>2
      <4>3. CASE vault'.items = vault.items
        BY <4>3 DEF OwnState, Counted
      <4>5. CASE \E t : vault'.items = [vault.items EXCEPT ![t] = 1] \/ vault'.items = [vault.items EXCEPT ![t] = 0]
        <5>1. 0 \in 0..2 /\ 1 \in 0..2 /\ 0 < 2 /\ 1 < 2
          OBVIOUS
        <5>2. QED
          BY <4>1, <4>5, <5>1
      <4>4. QED
        BY <3>1, <4>2, <4>3, <4>5
    <3>3. Tagged(vault'.saved, Tags)
      BY <3>1, <1>2, <1>4, <1>w DEF OwnState, OwnCall, Tagged
    <3>4. OwnCopies(vault'.kept)
      BY <3>1, OwnKeep DEF OwnState
    <3>5. Tagged(vault'.draft.rows, Tags)
      <4>1. Tagged(Take(vault.draft, c.of).rows, Tags)
        BY DEF Take, OwnState, Tagged
      <4>2. QED
        BY <3>1, <4>1, <1>n DEF OwnState
    <3>6. Tagged(vault'.file.rows, Tags) /\ (vault'.file # NoFile => CaItem \in vault'.file.titles)
      <4>1. c.do = "write_file" => CaItem \in vault.draft.titles
        BY <1>1, OwnTail DEF Call
      <4>2. QED
        BY <3>1, <4>1 DEF OwnState
    <3>7. OwnCopies(vault.kept)'
      BY <3>4, <1>a DEF OwnCopies, Tagged
    <3>8. QED
      BY <3>2, <3>3, <3>5, <3>6, <3>7, <1>7, <1>a DEF OwnState, Tagged
  <2>4. QED
    BY <1>8, <2>1, <2>2, <2>3
<1>10. ASSUME area \in {"cert", "marks"} PROVE MarkedIn(db)' /\ MarkedIn(vault.saved)'
  <2>0. MarkedIn(db) /\ MarkedIn(vault.saved)
    BY <1>10
  <2>1. \A n : Published(n)[1] = "published"
    BY DEF Published
  <2>2. \A n, k : Published(n) = Published(k) => n = k
    BY DEF Published
  <2>3. \A n : Published(n) \in Written(c) => Published(n) \in db
    BY <1>10, <1>2, <2>1 DEF OwnCall, Written, Tagged, WrittenTags
  <2>4. vault' = vault \/ vault' = VaultAfter(c)
    BY <1>8, <1>10
  <2>5. vault.public \subseteq vault'.public /\ (Done(c) /\ c.do = "publish" => c.of \in vault'.public)
    <3>1. CASE vault' = vault
      <4>1. Done(c) /\ c.do = "publish" => vault' = VaultAfter(c)
        BY DEF Done
      <4>2. QED
        BY <3>1, <4>1, PartsChanged
    <3>2. CASE vault' = VaultAfter(c)
      BY <3>2, PartsChanged
    <3>3. QED
      BY <2>4, <3>1, <3>2
  <2>6. MarkedIn(db)'
    <3>1. CASE db' = db \/ db' = Written(c)
      BY <3>1, <2>0, <2>3, <2>5 DEF MarkedIn
    <3>2. CASE Done(c) /\ c.do = "publish"
      <4>1. db' = {r \in db : r[1] # "published"} \cup {Published(c.of)}
        BY <3>2, <1>5 DEF Done
      <4>2. \A n : Published(n) \in db' => n = c.of
        BY <4>1, <2>1, <2>2
      <4>3. QED
        BY <3>2, <4>2, <2>5 DEF MarkedIn
    <3>3. QED
      BY <1>1, <1>6, <3>1, <3>2 DEF Done, Lost
  <2>7. \A n : Published(n) \in vault'.saved => Published(n) \in vault.saved \/ Published(n) \in db
    <3>1. c.do \in {"new_db", "replace_db"} => \A n : Published(n) \notin c.of
      BY <1>10, <1>2, <2>1 DEF OwnCall, Tagged, WrittenTags
    <3>2. \/ vault'.saved = vault.saved
          \/ c.do = "store" /\ vault'.saved = Written(c)
          \/ c.do \in {"new_db", "replace_db"} /\ vault'.saved = c.of
      BY <2>4, PartsChanged
    <3>3. QED
      BY <2>3, <3>1, <3>2
  <2>8. vault'.saved = vault.saved \/ \A n : Published(n) \in vault'.saved => Published(n) \in db
    <3>1. c.do \in {"new_db", "replace_db"} => \A n : Published(n) \notin c.of
      BY <1>10, <1>2, <2>1 DEF OwnCall, Tagged, WrittenTags
    <3>2. \/ vault'.saved = vault.saved
          \/ c.do = "store" /\ vault'.saved = Written(c)
          \/ c.do \in {"new_db", "replace_db"} /\ vault'.saved = c.of
      BY <2>4, PartsChanged
    <3>3. QED
      BY <2>3, <3>1, <3>2
  <2>9. MarkedIn(vault.saved)'
    BY <2>0, <2>5, <2>8 DEF MarkedIn
  <2>10. QED
    BY <2>6, <2>9
\* What is left to do.
<1>b. \A t \in Created : t # DbItem /\ t \in Title
  BY Titles DEF Created, DkimItem, CrlItem, DbItem
<1>3. MayCalls(run.calls)'
  <2>1. CASE run'.calls = <<>>
    <3>1. PICK S : S = {}
      OBVIOUS
    <3>2. run'.calls \in Seq(S) /\ \A x \in S : MayCall(x)'
      BY <2>1, <3>1
    <3>3. FreeCalls(run.calls)' /\ BackupOrder(run.calls)'
      BY <2>1 DEF FreeCalls, BackupOrder
    <3>4. QED
      BY <3>2, <3>3 DEF MayCalls
  <2>2. CASE run'.calls = Tail(run.calls)
    <3>1. PICK S : Tail(run.calls) \in Seq(S) /\ \A x \in S : MayCall(x)
      BY <1>1, OwnTail
    <3>2. \A x \in S : MayCall(x)'
      BY <1>1, <1>a, <3>1 DEF MayCall, OwnCall, Tagged
    <3>3. ASSUME NEW t \in Created, vault.items[t] = 0, ~Makes(c, t) PROVE vault'.items[t] = 0
      <4>1. CASE vault' = vault
        BY <3>3, <4>1
      <4>2. CASE vault' = Damaged
        <5>1. vault'.items = [vault.items EXCEPT ![DbItem] = 1]
          BY <4>2 DEF Damaged, Formed, VaultFields
        <5>2. QED
          BY <3>3, <5>1, <1>b DEF OwnState, Counted
      <4>3. CASE vault' = VaultAfter(c)
        <5>1. \/ vault'.items = vault.items
              \/ c.do = "create" /\ vault'.items = [vault.items EXCEPT ![c.of] = More(@)]
              \/ c.do = "put" /\ vault'.items = [vault.items EXCEPT ![c.of] = 1]
              \/ c.do \in {"archive", "archive_if_there"} /\ vault'.items = [vault.items EXCEPT ![c.of] = 0]
              \/ vault'.items = [vault.items EXCEPT ![DbItem] = 1]
              \/ c.do = "put_crl" /\ vault'.items = [vault.items EXCEPT ![CrlItem] = 1]
          BY ZenonT(60), <4>3, PartsChanged
        <5>2. QED
          BY <3>3, <5>1, <1>b DEF OwnState, Counted, Makes
      <4>4. QED
        BY <1>8, <4>1, <4>2, <4>3
    <3>4. PICK left : left = run'.calls
      OBVIOUS
    <3>6. ASSUME NEW i \in 1..Len(left), left[i].do = "create", left[i].of \in Created
          PROVE  vault'.items[left[i].of] = 0 /\ \A j \in 1..(i - 1) : ~Makes(left[j], left[i].of)
      <4>1. /\ vault.items[left[i].of] = 0 /\ ~Makes(c, left[i].of)
            /\ \A j \in 1..(i - 1) : ~Makes(left[j], left[i].of)
        BY <1>1, <2>2, <3>4, <3>6, OwnTail
      <4>2. QED
        BY <3>3, <3>6, <4>1
    <3>7. FreeCalls(left)'
      BY <1>a, <3>6 DEF FreeCalls, Makes
    <3>8. FreeCalls(run.calls)'
      BY <3>4, <3>7 DEF FreeCalls
    <3>9. ASSUME left # <<>>, CaItem \in vault.draft.titles \/ c = Call("take", CaItem) PROVE CaItem \in vault'.draft.titles
      <4>1. c.do # "write_file"
        BY <1>1, <2>2, <3>4, <3>9, OwnTail
      <4>2. CaItem \in Take(vault.draft, CaItem).titles /\ (CaItem \in vault.draft.titles => CaItem \in Take(vault.draft, c.of).titles)
        BY DEF Take
      <4>3. c = Call("take", CaItem) => vault' = VaultAfter(c) /\ c.of = CaItem /\ c.do = "take"
        <5>1. ASSUME c = Call("take", CaItem), Lost(c) PROVE run'.calls = <<>>
          BY <5>1 DEF Lost, Call
        <5>2. QED
          BY <1>1, <3>4, <3>9, <5>1 DEF Done, Call
      <4>4. CASE c = Call("take", CaItem)
        <5>1. vault' = [vault EXCEPT !.draft = Take(@, CaItem)]
          BY ZenonT(60), <4>3, <4>4, CallsDo
        <5>2. vault'.draft = Take(vault.draft, CaItem)
          BY <5>1 DEF Formed, VaultFields
        <5>3. QED
          BY <4>2, <5>2
      <4>5. CASE CaItem \in vault.draft.titles
        <5>1. CASE vault' = vault
          BY <4>5, <5>1
        <5>2. CASE vault' = Damaged
          BY <4>5, <5>2 DEF Damaged, Formed, VaultFields
        <5>3. CASE vault' = VaultAfter(c)
          BY <4>1, <4>2, <4>5, <5>3, PartsChanged
        <5>4. QED
          BY <1>8, <5>1, <5>2, <5>3
      <4>6. QED
        BY <3>9, <4>4, <4>5
    <3>10. BackupOrder(run.calls)'
      <4>1. ASSUME NEW i \in 1..Len(left)
            PROVE  /\ left[i].do \in {"take", "write_file"} => CaItem \in vault.draft.titles \/ c = Call("take", CaItem)
                   /\ left[i].do = "write_file" => i = Len(left)
        BY <1>1, <2>2, <3>4, OwnTail
      <4>n. ASSUME NEW i \in 1..Len(left) PROVE left # <<>>
        <5>1. Len(<<>>) = 0
          OBVIOUS
        <5>2. QED
          BY <5>1, <4>n
      <4>2. ASSUME NEW i \in 1..Len(left)
            PROVE  /\ left[i].do \in {"take", "write_file"} => CaItem \in vault'.draft.titles
                   /\ left[i].do = "write_file" => i = Len(left)
        BY <3>9, <4>1, <4>n
      <4>3. QED
        BY <3>4, <4>2 DEF BackupOrder
    <3>5. QED
      BY <2>2, <3>1, <3>2, <3>8, <3>10 DEF MayCalls
  <2>3. QED
    BY <1>1, <2>1, <2>2 DEF Done, Lost
<1>11. OwnList'
  BY CallSteps DEF OwnList
<1>12. QED
  BY <1>1, <1>3, <1>9, <1>10, <1>11

(***************************************************************************)
(* So does everything else that happens.                                   *)
(***************************************************************************)
LEMMA OwnElsewhere ==
  ASSUME OwnInv, Formed', Elsewhere
  PROVE  OwnInv'
<1> USE DEF OwnInv
<1>f. vault = [f \in VaultFields |-> vault[f]] /\ (client = "none" => run.calls = <<>>)
  BY DEF Formed, Idle
\* No call is left.
<1>e. ASSUME run'.calls = <<>> PROVE MayCalls(run.calls)'
  <2>1. PICK S : S = {}
    OBVIOUS
  <2>2. run'.calls \in Seq(S) /\ \A c \in S : MayCall(c)'
    BY <1>e, <2>1
  <2>3. FreeCalls(run.calls)' /\ BackupOrder(run.calls)'
    BY <1>e DEF FreeCalls, BackupOrder
  <2>4. QED
    BY <2>2, <2>3 DEF MayCalls
\* A change of the items alone.
<1>i. ASSUME NEW t, NEW n \in 0..1, vault'.items = [vault.items EXCEPT ![t] = n], vault'.saved = vault.saved,
             vault'.kept = vault.kept, vault'.draft = vault.draft, vault'.file = vault.file,
             vault'.public = vault.public, UNCHANGED <<area, db, run>>, run.calls = <<>>
      PROVE  OwnInv'
  <2>1. Counted' /\ \A u \in Unique : vault'.items[u] < 2
    <3>1. n \in 0..2 /\ n < 2
      OBVIOUS
    <3>2. [vault.items EXCEPT ![t] = n] \in [Title -> 0..2]
          /\ \A u \in Title : [vault.items EXCEPT ![t] = n][u] = IF u = t THEN n ELSE vault.items[u]
      BY <3>1, OneSet DEF OwnState
    <3>3. QED
      BY <1>i, <3>1, <3>2, UniqueTitles DEF Counted, OwnState
  <2>2. OwnState'
    BY <1>i, <2>1 DEF OwnState, Tagged, Tags, WrittenTags, OwnCopies, Created
  <2>3. OwnList' /\ (area' \in {"cert", "marks"} => MarkedIn(db)' /\ MarkedIn(vault.saved)')
    BY <1>i DEF MarkedIn, OwnList
  <2>4. QED
    BY <1>i, <1>e, <2>2, <2>3
<1>1. ASSUME NEW c \in Name, DeletedElsewhere(c) PROVE OwnInv'
  <2>1. vault' = [vault EXCEPT !.items[DkimItem(c)] = 0] /\ UNCHANGED <<area, db, run>> /\ run.calls = <<>>
    BY <1>f, <1>1 DEF DeletedElsewhere
  <2>2. /\ vault'.items = [vault.items EXCEPT ![DkimItem(c)] = 0] /\ vault'.saved = vault.saved
        /\ vault'.kept = vault.kept /\ vault'.draft = vault.draft /\ vault'.file = vault.file
        /\ vault'.public = vault.public
    BY <1>f, <2>1 DEF VaultFields
  <2>3. 0 \in 0..1 /\ 1 \in 0..1
    OBVIOUS
  <2>4. QED
    BY <2>1, <2>2, <2>3, <1>i
<1>2. ASSUME NEW c \in Name, OlderClientAdds(c) PROVE OwnInv'
  <2>1. vault' = [vault EXCEPT !.fields = @ \cup {c}, !.items[OpenVpn] = 1] /\ UNCHANGED <<area, db, run>> /\ run.calls = <<>>
    BY <1>f, <1>2 DEF OlderClientAdds
  <2>2. /\ vault'.items = [vault.items EXCEPT ![OpenVpn] = 1] /\ vault'.saved = vault.saved
        /\ vault'.kept = vault.kept /\ vault'.draft = vault.draft /\ vault'.file = vault.file
        /\ vault'.public = vault.public
    BY <1>f, <2>1 DEF VaultFields
  <2>3. 0 \in 0..1 /\ 1 \in 0..1
    OBVIOUS
  <2>4. QED
    BY <2>1, <2>2, <2>3, <1>i
<1>3. ASSUME NEW c \in Name, Expire(c) PROVE OwnInv'
  BY <1>3, OwnStart DEF Expire, OwnList
<1>4. CASE LoadCa
  BY <1>4, OwnStart DEF LoadCa, OwnList
<1>5. CASE DatabaseRemoved
  <2>1. vault' = [vault EXCEPT !.items[DbItem] = 0, !.saved = {}, !.bad = FALSE] /\ UNCHANGED <<area, db, run>> /\ run.calls = <<>>
    BY <1>f, <1>5 DEF DatabaseRemoved
  <2>2. /\ vault'.items = [vault.items EXCEPT ![DbItem] = 0] /\ vault'.saved = {}
        /\ vault'.kept = vault.kept /\ vault'.draft = vault.draft /\ vault'.file = vault.file
        /\ vault'.public = vault.public
    BY <1>f, <2>1 DEF VaultFields
  <2>3. Counted' /\ \A u \in Unique : vault'.items[u] < 2
    <3>1. [vault.items EXCEPT ![DbItem] = 0] \in [Title -> 0..2]
          /\ \A u \in Title : [vault.items EXCEPT ![DbItem] = 0][u] = IF u = DbItem THEN 0 ELSE vault.items[u]
      BY OneSet DEF OwnState
    <3>2. QED
      BY <2>2, <3>1, UniqueTitles DEF Counted, OwnState
  <2>4. OwnState'
    BY <2>1, <2>2, <2>3 DEF OwnState, Tagged, Tags, WrittenTags, OwnCopies, Created
  <2>5. OwnList' /\ (area' \in {"cert", "marks"} => MarkedIn(db)' /\ MarkedIn(vault.saved)')
    BY <2>1, <2>2 DEF MarkedIn, OwnList
  <2>6. QED
    BY <1>e, <2>1, <2>4, <2>5
<1>6. CASE area = "ca" /\ CreateVault
  <2>1. vault' = [Empty EXCEPT !.file = vault.file] /\ UNCHANGED <<area, db, run>> /\ run.calls = <<>>
    BY <1>f, <1>6 DEF CreateVault
  <2>2. /\ vault'.items = [t \in Title |-> 0] /\ vault'.saved = {}
        /\ vault'.kept = <<>> /\ vault'.draft = NoFile /\ vault'.file = vault.file
    BY <2>1 DEF Empty
  <2>3. Counted' /\ \A u \in Unique : vault'.items[u] < 2
    BY <2>2, Titles DEF Counted, Unique
  <2>4. OwnCopies(vault.kept)'
    <3>1. <<>> \in Seq({}) 
      OBVIOUS
    <3>2. PICK S : S = {}
      OBVIOUS
    <3>3. vault'.kept \in Seq(S) /\ \A d \in S : Tagged(d, Tags)'
      BY <2>2, <3>1, <3>2
    <3>4. QED
      BY <3>3 DEF OwnCopies
  <2>5. OwnState'
    BY <2>1, <2>2, <2>3, <2>4 DEF OwnState, Tagged, Tags, WrittenTags, Created, NoFile
  <2>6. OwnList' /\ (area' \in {"cert", "marks"} => MarkedIn(db)' /\ MarkedIn(vault.saved)')
    <3>1. area = "ca"
      BY <1>6
    <3>2. QED
      BY <2>1, <3>1 DEF OwnList
  <2>7. QED
    BY <1>e, <2>1, <2>5, <2>6
<1>7. QED
  BY <1>1, <1>2, <1>3, <1>4, <1>5, <1>6 DEF Elsewhere

(***************************************************************************)
(* What is not a call: a command that starts or goes on, with calls of the *)
(* area, or what happens elsewhere.                                        *)
(***************************************************************************)
OwnMove ==
    \/ \E cmd, calls : MayCalls(calls) /\ (InApp(cmd, calls) \/ InCli(cmd, calls, <<>>))
    \/ \E cmd, todo : /\ BulkInApp(cmd, todo) \/ InCli(cmd, <<>>, todo)
                      /\ area \in {"cert", "marks"} => cmd \in ItemCommands
    \/ \E calls : OwnCalls(calls) /\ NextItem(calls)
    \/ Elsewhere

(***************************************************************************)
(* What is not a call keeps OwnInv.                                        *)
(***************************************************************************)
LEMMA OwnMoves ==
  ASSUME OwnInv, Formed', OwnMove
  PROVE  OwnInv'
<1>r. run = [f \in RunFields |-> run[f]]
  BY DEF OwnInv, Formed
<1>1. ASSUME NEW cmd, NEW calls, MayCalls(calls), InApp(cmd, calls) \/ InCli(cmd, calls, <<>>) PROVE OwnInv'
  <2>1. run'.calls = calls /\ run'.todo = <<>> /\ vault' = vault /\ area' = area /\ db' \in {db, {}, Retrieved}
    BY <1>1 DEF InApp, InCli, Started, Idle
  <2>2. QED
    BY <1>1, <2>1, OwnStart DEF OwnList
<1>2. ASSUME NEW cmd, NEW todo, BulkInApp(cmd, todo) \/ InCli(cmd, <<>>, todo),
             area \in {"cert", "marks"} => cmd \in ItemCommands
      PROVE  OwnInv'
  <2>1. run'.calls = <<>> /\ run'.cmd = cmd /\ vault' = vault /\ area' = area /\ db' \in {db, {}, Retrieved}
    BY <1>2 DEF BulkInApp, InCli, Started, Idle
  <2>2. OwnList'
    BY <1>2, <2>1 DEF OwnList
  <2>3. QED
    BY <2>1, <2>2, OwnStart, OwnLists, OwnMay
<1>3. ASSUME NEW calls, OwnCalls(calls), NextItem(calls) PROVE OwnInv'
  <2>1. run'.calls = calls /\ run'.cmd = run.cmd /\ vault' = vault /\ area' = area
        /\ db' \in {db, {}, Retrieved} /\ run.todo # <<>>
    BY <1>3, <1>r DEF NextItem, RunFields
  <2>2. OwnList'
    BY <2>1 DEF OwnInv, OwnList
  <2>3. QED
    BY <1>3, <2>1, <2>2, OwnStart, OwnMay
<1>4. QED
  BY <1>1, <1>2, <1>3, OwnElsewhere DEF OwnMove

(***************************************************************************)
(* The lists of the commands, area by area.                                *)
(***************************************************************************)
LEMMA DkimMoves ==
  ASSUME area = "dkim", DkimNext
  PROVE  OwnMove
<1>t. \A c \in Name : DkimItem(c) \in Created /\ Tagged({DkimRow(c)}, WrittenTags)
  BY DEF Created, Tagged, WrittenTags, DkimRow
<1>e. Tagged({}, WrittenTags) /\ Tagged(SyncedRows, WrittenTags)
  BY DEF Tagged, WrittenTags, SyncedRows, DkimRow
<1>1. ASSUME NEW c \in Name, CreateDkimKey(c) \/ CliCreateDkim(c) PROVE OwnMove
  <2>1. OwnCalls(<<Store({}, {DkimRow(c)})>>) /\ OwnCalls(<<>>) /\ vault.items[DkimItem(c)] = 0
    BY <1>1, <1>t, OwnKinds, OwnLists DEF CreateDkimKey, CliCreateDkim
  <2>2. MayCalls(<<Create(DkimItem(c)), Store({}, {DkimRow(c)})>>) /\ MayCalls(<<Create(DkimItem(c))>>)
    BY <1>t, <2>1, OwnMay, Joined
  <2>3. QED
    BY <1>1, <2>2, OwnMay DEF OwnMove, CreateDkimKey, CliCreateDkim
<1>2. ASSUME NEW c \in Name, DeleteDkimKey(c) \/ BackfillDkim(c) PROVE OwnMove
  <2>1. OwnCalls(<<Archive(DkimItem(c)), Store({DkimRow(c)}, {})>>)
        /\ OwnCalls(<<Read(DkimItem(c)), Rows({}, {DkimRow(c)})>>)
    BY <1>t, <1>e, OwnKinds, OwnLists
  <2>2. QED
    BY <1>2, <2>1, OwnMay DEF OwnMove, DeleteDkimKey, BackfillDkim
<1>3. ASSUME SyncDkimKeys \/ ListDkimKeys PROVE OwnMove
  <2>1. OwnCalls(SyncCalls)
    BY <1>e, OwnKinds, OwnLists DEF SyncCalls
  <2>2. QED
    BY <1>3, <2>1, OwnMay DEF OwnMove, SyncDkimKeys, ListDkimKeys
<1>4. ASSUME NEW c \in Name, DeletedElsewhere(c) PROVE OwnMove
  BY <1>4, OwnMay DEF OwnMove, Elsewhere
<1>5. QED
  BY <1>1, <1>2, <1>3, <1>4 DEF DkimNext

(***************************************************************************)
(* The lists of the OpenVPN commands over templates write templates and the *)
(* note of their import only.                                              *)
(***************************************************************************)
LEMMA VpnLists ==
  ASSUME area \in {"openvpn", "profiles"}, NEW d
  PROVE  /\ OwnCalls(ImportCalls(d)) /\ OwnCalls(Settle) /\ OwnCalls(CopyMissing(d)) /\ OwnCalls(AwaitingCalls(d))
         /\ OwnCalls(ArchiveCalls(d))
         /\ \A c : /\ OwnCalls(SaveTemplateCalls(d, c)) /\ OwnCalls(AddStarterCalls(d, c))
                   /\ OwnCalls(DeleteTemplateCalls(d, c))
<1>t. {"tpl", "import"} \subseteq WrittenTags
  BY DEF WrittenTags
<1>w. \A old, new : (\A r \in new : r[1] \in {"tpl", "import"}) => OwnCall(Store(old, new))
  BY <1>t, OwnKinds DEF Tagged
<1>1. OwnCalls(ImportCalls(d))
  <2> DEFINE new == {Template(c, "vault") : c \in vault.fields}
                    \cup {<<"import", IF vault.fields = {} THEN "Settled" ELSE "AwaitingCleanup">>}
  <2>1. \A r \in new : r[1] \in {"tpl", "import"}
    BY DEF Template
  <2>2. OwnCall(Store(UNION {Copies(c) : c \in vault.fields}, new))
    BY <2>1, <1>w
  <2>3. OwnCalls(<<Look(OpenVpn), Store(UNION {Copies(c) : c \in vault.fields}, new)>>)
    BY <2>2, OwnKinds, OwnLists
  <2>4. QED
    BY <2>3, OwnLists DEF ImportCalls
<1>2. OwnCalls(Settle)
  <2>1. \A r \in {<<"import", "Settled">>} : r[1] \in {"tpl", "import"}
    OBVIOUS
  <2>2. QED
    BY <2>1, <1>w, OwnLists DEF Settle
<1>3. OwnCalls(CopyMissing(d))
  <2>1. PICK missing : missing = vault.fields \ Templates(d)
    OBVIOUS
  <2>2. \A r \in {Template(c, "vault") : c \in missing} : r[1] \in {"tpl", "import"}
    BY DEF Template
  <2>3. OwnCalls(<<Store({}, {Template(c, "vault") : c \in missing})>>)
    BY <2>2, <1>w, OwnLists
  <2>4. QED
    BY <2>1, <2>3, OwnLists DEF CopyMissing
<1>4. OwnCalls(AwaitingCalls(d))
  BY <1>2, <1>3, OwnKinds, OwnLists DEF AwaitingCalls
<1>5. OwnCalls(ArchiveCalls(d))
  <2>1. OwnCalls(<<Call("note_fields", 0), Call("archive_note", 0), Call("remove_fields", OpenVpn)>>)
    BY OwnKinds, OwnLists
  <2>2. OwnCalls(<<Look(OpenVpn)>>) /\ OwnCalls(<<>>)
    BY OwnKinds, OwnLists
  <2>3. OwnCalls(CopyMissing(d) \o <<Call("note_fields", 0), Call("archive_note", 0), Call("remove_fields", OpenVpn)>>)
    BY <2>1, <1>3, OwnLists
  <2>4. QED
    BY <2>2, <2>3, <1>2, OwnLists DEF ArchiveCalls
<1>6. ASSUME NEW c PROVE OwnCalls(SaveTemplateCalls(d, c)) /\ OwnCalls(DeleteTemplateCalls(d, c))
  <2>1. \A r \in {Template(c, "edited")} : r[1] \in {"tpl", "import"}
    BY DEF Template
  <2>2. OwnCalls(<<Store(Copies(c), {Template(c, "edited")})>>) /\ OwnCalls(<<Store(Copies(c), {})>>) /\ OwnCalls(<<>>)
    BY <2>1, <1>w, OwnLists
  <2>3. QED
    BY <1>1, <2>2, OwnLists DEF SaveTemplateCalls, DeleteTemplateCalls
<1>7. ASSUME NEW c PROVE OwnCalls(AddStarterCalls(d, c))
  BY <1>1, <1>6 DEF AddStarterCalls
<1>8. QED
  BY <1>1, <1>2, <1>3, <1>4, <1>5, <1>6, <1>7

(***************************************************************************)
(* Those of the server's parameters write the OpenVPN item in place.       *)
(***************************************************************************)
LEMMA OpenVpnMoves ==
  ASSUME area = "openvpn", OpenVpnNext
  PROVE  OwnMove
<1>p. OwnCalls(<<Put(OpenVpn)>>) /\ OwnCalls(<<Look(OpenVpn)>>) /\ OwnCalls(<<>>)
  BY OwnKinds, OwnLists
<1>1. ASSUME ListTemplates \/ CliGetTemplate \/ ListVaultTemplates PROVE OwnMove
  BY <1>1, VpnLists, OwnMay DEF OwnMove, ListTemplates, CliGetTemplate, ListVaultTemplates
<1>2. ASSUME ArchiveVaultTemplates \/ KeepVaultTemplates \/ GenerateKeys \/ CliStoreKeys PROVE OwnMove
  BY <1>2, <1>p, VpnLists, OwnMay DEF OwnMove, ArchiveVaultTemplates, KeepVaultTemplates, GenerateKeys, CliStoreKeys
<1>3. ASSUME NEW c \in Name, SaveTemplate(c) \/ DeleteTemplate(c) PROVE OwnMove
  BY <1>3, VpnLists, OwnMay DEF OwnMove, SaveTemplate, DeleteTemplate
<1>4. ASSUME NEW c \in Name, SetupServer(c) PROVE OwnMove
  <2>1. PICK calls \in {<<Put(OpenVpn)>>, <<>>} :
          InApp("setup_openvpn_server", <<Look(OpenVpn)>> \o calls \o AddStarterCalls(db, c))
    BY <1>4 DEF SetupServer
  <2>2. OwnCalls(calls)
    BY <1>p
  <2>3. OwnCalls(<<Look(OpenVpn)>> \o calls \o AddStarterCalls(db, c))
    BY <1>p, <2>2, VpnLists, OwnLists
  <2>4. QED
    BY <2>1, <2>3, OwnMay DEF OwnMove
<1>5. ASSUME NEW c \in Name, CliSetup(c) PROVE OwnMove
  <2>1. OwnCalls(<<Put(OpenVpn)>> \o AddStarterCalls(vault.saved, c))
    BY <1>p, VpnLists, OwnLists
  <2>2. QED
    BY <1>5, <2>1, OwnMay DEF OwnMove, CliSetup
<1>6. ASSUME NEW c \in Name, OlderClientAdds(c) PROVE OwnMove
  BY <1>6, OwnMay DEF OwnMove, Elsewhere
<1>7. QED
  BY <1>1, <1>2, <1>3, <1>4, <1>5, <1>6 DEF OpenVpnNext

(***************************************************************************)
(* Those of profiles write profiles, and documents under their titles.     *)
(***************************************************************************)
LEMMA ProfileMoves ==
  ASSUME area = "profiles", ProfileNext
  PROVE  OwnMove
<1>t. \A c : Tagged({Profile(c)}, WrittenTags)
  BY DEF Tagged, WrittenTags, Profile
<1>c. \A c \in Name : VpnItem(c) \notin Unique /\ Sent(c) \notin Unique
  BY DEF Unique, VpnItem, Sent, CsrItem, DkimItem, OpenVpn, CrlItem, DbItem
<1>e. \A C : Tagged({Entry(c) : c \in C}, WrittenTags) /\ Tagged({}, WrittenTags)
  BY DEF Tagged, WrittenTags, Entry
<1>g. ASSUME NEW d, NEW c, NEW t PROVE OwnCalls(GenerateCalls(d, c, t))
  <2>1. OwnCalls(<<Call("inject", 0), Put(t), Store(ProfileRows({c}), {Profile(c)})>>)
    BY <1>t, OwnKinds, OwnLists
  <2>2. QED
    BY <2>1, VpnLists, OwnLists DEF GenerateCalls
<1>1. ASSUME NEW c \in Name, GenerateProfile(c, VpnItem(c)) \/ GenerateProfile(c, Sent(c)) PROVE OwnMove
  BY <1>1, <1>g, OwnMay DEF OwnMove, GenerateProfile
<1>2. ASSUME NEW c \in Name, CliGenerateProfile(c) PROVE OwnMove
  <2>1. OwnCalls(<<Call("inject", 0), Create(VpnItem(c))>>)
    BY <1>c, OwnKinds, OwnLists
  <2>2. OwnCalls(ImportCalls(vault.saved) \o <<Call("inject", 0), Create(VpnItem(c))>>)
    BY <2>1, VpnLists, OwnLists
  <2>3. QED
    BY <1>2, <2>2, OwnMay DEF OwnMove, CliGenerateProfile
<1>3. ASSUME NEW c \in Name, SendProfile(c) PROVE OwnMove
  <2>1. OwnCalls(<<Read(VpnItem(c)), Create(Sent(c))>>)
    BY <1>c, OwnKinds, OwnLists
  <2>2. QED
    BY <1>3, <2>1, OwnMay DEF OwnMove, SendProfile
<1>4. ASSUME NEW C, AddEntries(C) \/ DeleteProfiles(C) PROVE OwnMove
  <2>1. OwnCalls(<<Store(ProfileRows(C), {Entry(c) : c \in C})>>) /\ OwnCalls(<<Store(ProfileRows(C), {})>>)
    BY <1>e, OwnKinds, OwnLists
  <2>2. QED
    BY <1>4, <2>1, OwnMay DEF OwnMove, AddEntries, DeleteProfiles
<1>5. ASSUME NEW todo, BulkGenerateProfiles(todo) PROVE OwnMove
  BY <1>5, OwnMay DEF OwnMove, BulkGenerateProfiles
<1>6. ASSUME NextItem(GenerateCalls(db, Head(run.todo), VpnItem(Head(run.todo)))) PROVE OwnMove
  BY <1>6, <1>g, OwnMay DEF OwnMove
<1>7. QED
  BY <1>1, <1>2, <1>3, <1>4, <1>5, <1>6 DEF ProfileNext

(***************************************************************************)
(* The lists of the certificate commands write rows of certificates, marks *)
(* and the serial; a new certificate's title is not among the unambiguous. *)
(***************************************************************************)
LEMMA CertLists ==
  ASSUME area \in {"cert", "marks"}, NEW d
  PROVE  /\ OwnCalls(CreateCalls(d)) /\ \A o : OwnCalls(RenewCalls(d, o)) /\ OwnCalls(RekeyCalls(d, o))
                                             /\ OwnCalls(RevokeCalls(d, o)) /\ OwnCalls(DeleteCalls(d, o))
         /\ OwnCalls(CrlCalls(d)) /\ \A R : OwnCall(Call("rows", Process(d, R))) /\ OwnCall(Call("store", Process(d, R)))
         /\ \A n : OwnCalls(IgnoreCalls(n)) /\ OwnCalls(UnignoreCalls(n)) /\ OwnCalls(PublishCalls(n))
<1>t. {"cert", "ignored", "gone", "next"} \subseteq WrittenTags
  BY DEF WrittenTags
<1>w. \A old, new : (\A r \in new : r[1] \in {"cert", "ignored", "gone", "next"})
                     => OwnCall(Store(old, new)) /\ OwnCall(Rows(old, new))
  BY <1>t, OwnKinds DEF Tagged
<1>p. \A n : OwnCall(Call("publish", n))
  BY DEF OwnCall, Call
<1>c. \A n : CrtItem(n) \notin Unique
  BY DEF Unique, CrtItem, CsrItem, DkimItem, OpenVpn, CrlItem, DbItem
<1>1. ASSUME NEW R PROVE OwnCall(Call("rows", Process(d, R))) /\ OwnCall(Call("store", Process(d, R)))
  <2>1. \A r \in Process(d, R).new : r[1] = "cert"
    BY DEF Process, Cert
  <2>2. QED
    BY <2>1, <1>t DEF OwnCall, Call, Tagged
<1>2. OwnCalls(IssueCalls(d))
  <2>1. PICK n : n = NextSerial(d)
    OBVIOUS
  <2>2. \A r \in {Serial(n + 1)} : r[1] = "next"
    BY DEF Serial
  <2>3. OwnCall(Rows({Serial(n)}, {Serial(n + 1)})) /\ OwnCall(Create(CrtItem(n)))
    BY <2>2, <1>w, <1>c, OwnKinds
  <2>4. QED
    BY <2>1, <2>3, OwnLists DEF IssueCalls
<1>3. ASSUME NEW S PROVE OwnCall(Store({}, Issued(d, S))) /\ OwnCall(Rows({}, Issued(d, S)))
  <2>1. \A r \in Issued(d, S) : r[1] \in {"cert", "ignored"}
    BY DEF Issued, Cert, Ignored
  <2>2. QED
    BY <2>1, <1>w
<1>4. OwnCalls(CreateCalls(d))
  BY <1>2, <1>3, OwnLists DEF CreateCalls
<1>5. ASSUME NEW o PROVE OwnCalls(RenewCalls(d, o)) /\ OwnCalls(RekeyCalls(d, o))
  <2>1. OwnCalls(<<Read(CrtItem(o))>>) /\ OwnCalls(<<Store({}, Issued(d, {o}))>>)
    BY <1>3, OwnKinds, OwnLists
  <2>2. OwnCalls(<<Rows({}, Issued(d, {o})), Softly(Call("publish", NextSerial(d))), Save>>)
    BY <1>3, <1>p, OwnKinds, OwnLists
  <2>3. QED
    BY <2>1, <2>2, <1>2, OwnLists DEF RenewCalls, RekeyCalls
<1>6. ASSUME NEW o PROVE OwnCalls(RevokeCalls(d, o))
  BY <1>1, OwnLists DEF RevokeCalls
<1>7. ASSUME NEW n PROVE OwnCalls(DeleteCalls(d, n))
  <2>1. \A r \in {Ignored(n), Gone(n)} : r[1] \in {"cert", "ignored", "gone", "next"}
    BY DEF Ignored, Gone
  <2>2. OwnCall(Store({}, {Ignored(n), Gone(n)})) /\ OwnCall(Call("rows", Process(d, {})))
    BY <2>1, <1>w, <1>1
  <2>3. QED
    BY <2>2, OwnKinds, OwnLists DEF DeleteCalls
<1>8. OwnCalls(CrlCalls(d))
  BY OwnKinds, OwnLists DEF CrlCalls
<1>9. ASSUME NEW n PROVE OwnCalls(IgnoreCalls(n)) /\ OwnCalls(UnignoreCalls(n)) /\ OwnCalls(PublishCalls(n))
  <2>1. \A r \in {Ignored(n)} : r[1] = "ignored"
    BY DEF Ignored
  <2>2. OwnCall(Store({}, {Ignored(n)})) /\ OwnCall(Store({Ignored(n)}, {}))
    BY <2>1, <1>w
  <2>3. QED
    BY <2>2, <1>p, OwnKinds, OwnLists DEF IgnoreCalls, UnignoreCalls, PublishCalls
<1>10. QED
  BY <1>1, <1>4, <1>5, <1>6, <1>7, <1>8, <1>9

(***************************************************************************)
(* So does whatever a certificate command starts or goes on with.          *)
(***************************************************************************)
LEMMA CertMoves ==
  ASSUME area \in {"cert", "marks"}, OwnList, CertNext \/ MarkNext
  PROVE  OwnMove
<1>b. ASSUME NEW cmd \in ItemCommands, NEW todo, InAppFor(cmd, todo) \/ InCliFor(cmd, todo) PROVE OwnMove
  BY <1>b, OwnMay DEF OwnMove, InAppFor, InCliFor
<1>c. {"revoke", "renew", "rekey", "delete", "ignore", "unignore", "publish"} \subseteq ItemCommands
  BY DEF ItemCommands
<1>u. ASSUME NEW cmds \in SUBSET ItemCommands, Bulk(cmds) PROVE OwnMove
  BY <1>u, <1>b DEF Bulk, BulkCerts
<1>i. ASSUME NEW cmd \in ItemCommands, NEW n PROVE OwnCalls(ItemCalls(cmd, n))
  BY CertLists, OwnKinds, OwnLists DEF ItemCalls, ItemCommands
<1>s. ASSUME Issuing PROVE OwnMove
  <2>1. ASSUME CreateCert \/ CliCreateCert PROVE OwnMove
    BY <2>1, CertLists, OwnMay DEF OwnMove, CreateCert, CliCreateCert
  <2>2. ASSUME NEW n \in Name, RenewCert(n) \/ CliRenew(n) \/ RevokeCert(n) PROVE OwnMove
    BY <2>2, <1>b, <1>c DEF RenewCert, CliRenew, RevokeCert
  <2>3. ASSUME NEW n \in Name, Expire(n) PROVE OwnMove
    BY <2>3, OwnMay DEF OwnMove, Elsewhere
  <2>4. ASSUME run.todo # <<>>, NextItem(ItemCalls(run.cmd, Head(run.todo))) PROVE OwnMove
    BY <2>4, <1>i, OwnMay DEF OwnMove, OwnList
  <2>5. QED
    BY <1>s, <2>1, <2>2, <2>3, <2>4 DEF Issuing
<1>1. CASE CertNext
  <2>1. ASSUME GenerateCrl \/ ListCerts PROVE OwnMove
    <3>1. PICK p \in Scans(db) : InApp("generate_crl", <<Call("rows", p)>> \o CrlCalls(After(db, p)))
                                 \/ InApp("list_certs", <<Call("rows", p)>>)
      BY <2>1 DEF GenerateCrl, ListCerts
    <3>2. OwnCall(Call("rows", p))
      <4>1. OwnCall(Call("rows", [old |-> {}, new |-> {}]))
        BY DEF OwnCall, Call, Tagged
      <4>2. QED
        BY <4>1, CertLists DEF Scans
    <3>3. OwnCalls(<<Call("rows", p)>>) /\ OwnCalls(<<Call("rows", p)>> \o CrlCalls(After(db, p)))
      BY <3>2, CertLists, OwnLists
    <3>4. QED
      BY <3>1, <3>3, OwnMay DEF OwnMove
  <2>2. ASSUME CliCreateCrl PROVE OwnMove
    <3>1. PICK p : p = Process(vault.saved, {}) /\ InCli("crl create", <<Call("rows", p)>> \o CrlCalls(After(vault.saved, p)), <<>>)
      BY <2>2 DEF CliCreateCrl
    <3>2. OwnCalls(<<Call("rows", p)>> \o CrlCalls(After(vault.saved, p)))
      BY <3>1, CertLists, OwnLists
    <3>3. QED
      BY <3>1, <3>2, OwnMay DEF OwnMove
  <2>3. ASSUME GetDashboard PROVE OwnMove
    <3>1. PICK p : p = Process(db, {}) /\ InApp("get_dashboard", IF p.new = {} THEN <<>> ELSE <<Softly(Call("store", p))>>)
      BY <2>3 DEF GetDashboard
    <3>2. OwnCalls(<<Softly(Call("store", p))>>) /\ OwnCalls(<<>>)
      BY <3>1, CertLists, OwnKinds, OwnLists
    <3>3. QED
      BY <3>1, <3>2, OwnMay DEF OwnMove
  <2>4. ASSUME NEW n \in Name, DeleteCert(n) \/ RekeyCert(n) \/ CliRekey(n) \/ CliDelete(n) PROVE OwnMove
    BY <2>4, <1>b, <1>c DEF DeleteCert, RekeyCert, CliRekey, CliDelete
  <2>5. ASSUME NEW n \in Name, CliRevoke(<<n>>) PROVE OwnMove
    BY <2>5, <1>b, <1>c DEF CliRevoke
  <2>6. QED
    BY <1>1, <1>s, <1>u, <1>c, <2>1, <2>2, <2>3, <2>4, <2>5 DEF CertNext
<1>2. CASE MarkNext
  <2>1. ASSUME NEW n \in Name, PublishCert(n) \/ CliPublish(n) \/ IgnoreCert(n) \/ UnignoreCert(n) PROVE OwnMove
    BY <2>1, <1>b, <1>c DEF PublishCert, CliPublish, IgnoreCert, UnignoreCert
  <2>2. ASSUME NEW n \in Name, BackfillCert(n) PROVE OwnMove
    <3>1. OwnCalls(<<Softly(Read(CrtItem(n))), Softly(Save)>>)
      BY OwnKinds, OwnLists
    <3>2. QED
      BY <2>2, <3>1, OwnMay DEF OwnMove, BackfillCert
  <2>3. QED
    BY <1>2, <1>s, <1>u, <1>c, <2>1, <2>2 DEF MarkNext
<1>3. QED
  BY <1>1, <1>2

(***************************************************************************)
(* A list made call by call.                                               *)
(***************************************************************************)
LEMMA OwnEach ==
  ASSUME NEW n \in Nat, NEW f, f = [i \in 1..n |-> f[i]], \A i \in 1..n : OwnCall(f[i])
  PROVE  OwnCalls(f)
<1>1. PICK S : S = {f[i] : i \in 1..n}
  OBVIOUS
<1>2. f \in [1..n -> S]
  BY <1>1
<1>3. f \in Seq(S)
  BY <1>2, SeqDef
<1>4. \A c \in S : OwnCall(c)
  BY <1>1
<1>5. QED
  BY <1>3, <1>4 DEF OwnCalls

(***************************************************************************)
(* The items a backup is made of, and where each of them is in the list.   *)
(***************************************************************************)
LEMMA OrderedTitles ==
  /\ Ordered \in Seq(Title) /\ Len(Ordered) = 3 + Cardinality(Name)
  /\ Ordered[1] = CaItem /\ Ordered[2] = DbItem /\ Ordered[3] = CrlItem
  /\ \A n \in Name : n + 3 \in 4..Len(Ordered) /\ Ordered[n + 3] = CrtItem(n)
  /\ \A i \in 4..Len(Ordered) : i - 3 \in Name
<1>1. PICK f : f = [n \in 1..Cardinality(Name) |-> CrtItem(n)]
  OBVIOUS
<1>2. f \in [1..Cardinality(Name) -> Title]
  BY <1>1, Names, Titles
<1>3. f \in Seq(Title) /\ Len(f) = Cardinality(Name)
  BY <1>2, Names, SeqDef, LenProperties
<1>4. PICK s : s = <<CaItem, DbItem, CrlItem>>
  OBVIOUS
<1>5. s \in Seq(Title) /\ Len(s) = 3 /\ s[1] = CaItem /\ s[2] = DbItem /\ s[3] = CrlItem
  BY <1>4, Titles
<1>6. s \o f \in Seq(Title) /\ Len(s \o f) = 3 + Cardinality(Name)
      /\ \A i \in 1..(3 + Cardinality(Name)) : (s \o f)[i] = IF i <= 3 THEN s[i] ELSE f[i - 3]
  <2>1. s \o f \in Seq(Title) /\ Len(s \o f) = Len(s) + Len(f)
        /\ \A i \in 1..(Len(s) + Len(f)) : (s \o f)[i] = IF i <= Len(s) THEN s[i] ELSE f[i - Len(s)]
    BY <1>3, <1>5, ConcatProperties
  <2>2. QED
    BY <1>3, <1>5, <2>1
<1>7. Ordered = s \o f
  BY <1>1, <1>4 DEF Ordered
<1>8. \A n \in Name : n + 3 \in 4..(3 + Cardinality(Name)) /\ (s \o f)[n + 3] = CrtItem(n)
  BY <1>1, <1>6, Names
<1>9. Ordered[1] = CaItem /\ Ordered[2] = DbItem /\ Ordered[3] = CrlItem
  <2>1. 1 \in 1..(3 + Cardinality(Name)) /\ 2 \in 1..(3 + Cardinality(Name)) /\ 3 \in 1..(3 + Cardinality(Name))
    BY Names
  <2>2. (s \o f)[1] = s[1] /\ (s \o f)[2] = s[2] /\ (s \o f)[3] = s[3]
    BY <1>6, <2>1
  <2>3. QED
    BY <1>5, <1>7, <2>2
<1>10. \A i \in 4..(3 + Cardinality(Name)) : i - 3 \in Name
  <2>1. PICK N \in Nat : N = Cardinality(Name) /\ Name = 1..N
    BY Names
  <2>2. \A i \in 4..(3 + N) : i - 3 \in 1..N
    BY <2>1
  <2>3. QED
    BY <2>1, <2>2
<1>11. QED
  BY <1>6, <1>7, <1>8, <1>9, <1>10

(***************************************************************************)
(* The lists of the CA's commands.                                         *)
(***************************************************************************)
LEMMA CaLists ==
  ASSUME area = "ca", OwnState
  PROVE  /\ \A next : OwnCalls(FirstCalls(next)) /\ OwnCalls(RebuildCalls(next))
         /\ \A d : OwnCalls(SignCalls(d)) /\ \A calls \in ConfigCalls : OwnCalls(calls)
         /\ OwnCalls(ResignCalls) /\ OwnCalls(<<Call("put_crl", {})>> \o Stored({}, {}))
         /\ MayCalls(BackupCalls) /\ (vault.items[CrlItem] = 0 \/ vault.items[CaItem] # 0 => MayCalls(RestoreCalls))
         /\ \A copy : Tagged(copy, Tags) => OwnCalls(<<Read(CaItem), Call("unreadable", 0), Call("replace_db", copy),
                                                       Rows({}, copy)>>)
<1>t. WrittenTags = {"cert", "next", "config"} /\ Tags = WrittenTags
  BY DEF WrittenTags, Tags
<1>w. \A old, new : (\A r \in new : r[1] \in {"cert", "next", "config"}) => OwnCall(Store(old, new)) /\ OwnCall(Rows(old, new))
  BY <1>t, OwnKinds DEF Tagged
<1>c. /\ \A n : CrtItem(n) \notin Unique
      /\ CaItem \notin Unique /\ CrlItem \in Created
  BY DEF Unique, Created, CrtItem, CaItem, CsrItem, DkimItem, OpenVpn, CrlItem, DbItem
<1>n. \A d : Tagged(d, {"cert", "next", "config"}) => OwnCall(Call("new_db", d)) /\ OwnCall(Call("replace_db", d))
  BY <1>t DEF OwnCall, Call
<1>d. CaItem # CrlItem /\ DbItem # CrlItem /\ CaItem # DbItem /\ \A n : CrtItem(n) \notin {CaItem, CrlItem, DbItem}
  BY DEF CaItem, CrlItem, DbItem, CrtItem
<1>e. OwnCall(Rows({}, {})) /\ OwnCall(Refuse) /\ OwnCall(Save) /\ OwnCalls(<<Refuse>>)
  BY <1>w, OwnKinds, OwnLists
<1>s. ASSUME NEW old, NEW new, \A r \in new : r[1] \in {"cert", "next", "config"} PROVE OwnCalls(Stored(old, new))
  BY <1>s, <1>w, OwnKinds, OwnLists DEF Stored
<1>1. ASSUME NEW next PROVE OwnCalls(FirstCalls(next))
  <2>1. \A r \in NewRows(next) : r[1] \in {"cert", "next", "config"}
    BY DEF NewRows, Cert, Serial
  <2>2. OwnCall(Create(CaItem)) /\ OwnCall(Call("new_db", NewRows(next))) /\ OwnCall(Rows({}, NewRows(next)))
    BY <2>1, <1>c, <1>n, <1>w, OwnKinds DEF Tagged
  <2>3. QED
    BY <2>2, <1>e, OwnLists DEF FirstCalls
<1>2. ASSUME NEW given PROVE OwnCalls(RebuildCalls(given))
  <2>1. PICK rows : rows = {Cert(n, "Valid") : n \in Serials} \cup {Serial(NextAfter(given))}
    OBVIOUS
  <2>2. \A r \in rows : r[1] \in {"cert", "next", "config"}
    BY <2>1 DEF Cert, Serial
  <2>3. OwnCalls(<<Call("new_db", rows), Rows({}, rows)>>) /\ OwnCalls(Stored({}, {}))
    BY <2>2, <1>n, <1>w, <1>s, OwnLists DEF Tagged
  <2>4. RebuildCalls(given) \in {<<Refuse>>, <<Call("new_db", rows), Rows({}, rows)>> \o Stored({}, {})}
    BY <2>1 DEF RebuildCalls
  <2>5. QED
    BY <2>3, <2>4, <1>e, OwnLists
<1>3. ASSUME NEW d PROVE OwnCalls(SignCalls(d))
  <2>1. PICK n : n = NextSerial(d)
    OBVIOUS
  <2>2. \A r \in {Serial(n + 1), Cert(n, "Valid")} : r[1] \in {"cert", "next", "config"}
    BY DEF Serial, Cert
  <2>3. OwnCalls(<<Rows({Serial(n)}, {Serial(n + 1)}), Create(CrtItem(n))>>)
    BY <2>2, <1>w, <1>c, OwnKinds, OwnLists
  <2>4. OwnCalls(Stored({}, {Cert(n, "Valid")}))
    BY <2>2, <1>s
  <2>5. QED
    BY <2>1, <2>3, <2>4, <1>e, OwnLists DEF SignCalls, IssueCalls
<1>4. ASSUME NEW calls \in ConfigCalls PROVE OwnCalls(calls)
  <2>1. \A r \in {ConfigRow} : r[1] \in {"cert", "next", "config"}
    BY DEF ConfigRow
  <2>2. QED
    BY <2>1, <1>s, <1>e DEF ConfigCalls
<1>5. OwnCalls(ResignCalls) /\ OwnCalls(<<Call("put_crl", {})>> \o Stored({}, {}))
  BY <1>s, OwnKinds, OwnLists DEF ResignCalls
<1>6. MayCalls(BackupCalls)
  <2>1. PICK taken : taken = [i \in 2..Len(Ordered) |-> Silently(Call("take", Ordered[i]))]
    OBVIOUS
  <2>2. PICK a, b, e : a = <<Call("take", CaItem), taken[2], taken[3], Call("list_notes", 0)>>
                       /\ b = [n \in 1..Cardinality(Name) |-> taken[n + 3]] /\ e = <<Call("write_file", 0)>>
    OBVIOUS
  <2>3. BackupCalls = (a \o b) \o e
    BY <2>1, <2>2 DEF BackupCalls
  <2>4. PICK S : S = {Call("take", CaItem), Call("list_notes", 0), Call("write_file", 0)} \cup {taken[i] : i \in 2..Len(Ordered)}
    OBVIOUS
  <2>5. \A i \in 2..Len(Ordered) : taken[i].do = "take"
    BY <2>1 DEF Silently, Call
  <2>6. \A x \in S : MayCall(x)
    <3>1. OwnCall(Call("list_notes", 0))
      BY OwnKinds
    <3>2. Call("take", CaItem).do = "take" /\ Call("write_file", 0).do = "write_file"
      BY DEF Call
    <3>3. QED
      BY <2>4, <2>5, <3>1, <3>2 DEF MayCall
  <2>7. 2 \in 2..Len(Ordered) /\ 3 \in 2..Len(Ordered) /\ \A n \in 1..Cardinality(Name) : n + 3 \in 2..Len(Ordered)
    BY OrderedTitles, Names
  <2>8. a \in Seq(S) /\ Len(a) = 4 /\ a[1] = Call("take", CaItem) /\ e \in Seq(S) /\ Len(e) = 1
    BY <2>2, <2>4, <2>7
  <2>9. b \in Seq(S) /\ Len(b) = Cardinality(Name)
    <3>1. b \in [1..Cardinality(Name) -> S]
      BY <2>2, <2>4, <2>7
    <3>2. b \in Seq(S)
      BY <3>1, Names, SeqDef
    <3>3. QED
      BY <3>1, <3>2, Names, LenProperties
  <2>10. a \o b \in Seq(S) /\ Len(a \o b) = 4 + Cardinality(Name) /\ (a \o b)[1] = Call("take", CaItem)
    <3>1. a \o b \in Seq(S) /\ Len(a \o b) = Len(a) + Len(b)
          /\ \A i \in 1..(Len(a) + Len(b)) : (a \o b)[i] = IF i <= Len(a) THEN a[i] ELSE b[i - Len(a)]
      BY <2>8, <2>9, ConcatProperties
    <3>2. QED
      BY <2>8, <2>9, <3>1, Names
  <2>11. /\ BackupCalls \in Seq(S) /\ Len(BackupCalls) = 5 + Cardinality(Name) /\ BackupCalls[1] = Call("take", CaItem)
         /\ \A i \in 1..(4 + Cardinality(Name)) : BackupCalls[i] = (a \o b)[i]
    <3>1. (a \o b) \o e \in Seq(S) /\ Len((a \o b) \o e) = Len(a \o b) + Len(e)
          /\ \A i \in 1..(Len(a \o b) + Len(e)) : ((a \o b) \o e)[i] = IF i <= Len(a \o b) THEN (a \o b)[i] ELSE e[i - Len(a \o b)]
      BY <2>8, <2>10, ConcatProperties
    <3>2. QED
      BY <2>3, <2>8, <2>10, <3>1, Names
  <2>12. ASSUME NEW i \in 1..(4 + Cardinality(Name)) PROVE BackupCalls[i].do # "write_file"
    <3>a. (a \o b)[i] = IF i <= 4 THEN a[i] ELSE b[i - 4]
      <4>1. \A k \in 1..(Len(a) + Len(b)) : (a \o b)[k] = IF k <= Len(a) THEN a[k] ELSE b[k - Len(a)]
        BY <2>8, <2>9, ConcatProperties
      <4>2. QED
        BY <2>8, <2>9, <4>1
    <3>1. CASE i <= 4
      <4>2. a[i] \in {Call("take", CaItem), taken[2], taken[3], Call("list_notes", 0)}
        BY <2>2, <3>1, Names
      <4>3. taken[2].do = "take" /\ taken[3].do = "take"
        BY <2>5, <2>7
      <4>4. Call("take", CaItem).do = "take" /\ Call("list_notes", 0).do = "list_notes"
        BY DEF Call
      <4>5. BackupCalls[i] = a[i]
        BY <2>11, <3>1, <3>a
      <4>6. QED
        BY <4>2, <4>3, <4>4, <4>5
    <3>2. CASE i > 4
      <4>1. (a \o b)[i] = b[i - 4] /\ i - 4 \in 1..Cardinality(Name)
        BY <3>a, <3>2, Names
      <4>2. QED
        BY <2>2, <2>5, <2>7, <2>11, <4>1
    <3>3. QED
      BY <3>1, <3>2, Names
  <2>13. ASSUME NEW i \in 1..Len(BackupCalls) PROVE BackupCalls[i].do # "create"
    <3>1. BackupCalls[i] \in S
      BY <2>11, ElementOfSeq
    <3>2. QED
      BY <2>4, <2>5, <3>1 DEF Call
  <2>14. FreeCalls(BackupCalls)
    BY <2>13 DEF FreeCalls
  <2>15. BackupOrder(BackupCalls)
    BY <2>11, <2>12, Names DEF BackupOrder
  <2>16. QED
    BY <2>6, <2>11, <2>14, <2>15 DEF MayCalls
<1>7. ASSUME vault.items[CrlItem] = 0 \/ vault.items[CaItem] # 0 PROVE MayCalls(RestoreCalls)
  <2>1. CASE vault.items[CaItem] # 0
    BY <2>1, <1>e, OwnMay DEF RestoreCalls
  <2>2. CASE vault.items[CaItem] = 0
    <3>1. PICK all : all = [i \in 1..Len(Ordered) |-> PutBack(Ordered[i])]
      OBVIOUS
    <3>2. ASSUME NEW i \in 1..Len(Ordered) PROVE MayCall(all[i]) /\ (all[i].do = "create" /\ all[i].of \in Created => i = 3 /\ all[i].of = CrlItem)
      <4>1. PICK t : t = Ordered[i] /\ t \in {CaItem, DbItem, CrlItem} \cup {CrtItem(n) : n \in Name} /\ (t = CrlItem => i = 3)
        BY OrderedTitles, Names, <1>d
      <4>2. all[i] = PutBack(t)
        BY <3>1, <4>1
      <4>3. PutBack(t) \in {Rows({}, {}), Call("new_db", vault.file.rows), Create(t)} /\ (PutBack(t) = Create(t) => t # DbItem)
        BY DEF PutBack, InFile, Create, Rows, Call
      <4>4. OwnCall(Call("new_db", vault.file.rows)) /\ OwnCall(Rows({}, {})) /\ (t # DbItem /\ t # CrlItem => OwnCall(Create(t)))
        BY <1>t, <1>n, <1>c, <1>e, <4>1, OwnKinds DEF OwnState
      <4>5. Create(t).do = "create" /\ Create(t).of = t /\ Call("new_db", vault.file.rows).do # "create" /\ Rows({}, {}).do # "create"
        BY DEF Create, Rows, Call
      <4>6. Created = {CrlItem}
        BY DEF Created
      <4>7. QED
        BY <4>1, <4>2, <4>3, <4>4, <4>5, <4>6 DEF MayCall
    <3>3. PICK S : S = {all[i] : i \in 1..Len(Ordered)}
      OBVIOUS
    <3>4. all \in Seq(S) /\ Len(all) = Len(Ordered)
      <4>1. all \in [1..Len(Ordered) -> S] /\ Len(Ordered) \in Nat
        BY <3>1, <3>3, OrderedTitles, Names
      <4>2. all \in Seq(S)
        BY <4>1, SeqDef
      <4>3. QED
        BY <4>1, <4>2, LenProperties
    <3>5. ASSUME NEW j \in 1..2 PROVE ~Makes(all[j], CrlItem)
      <4>1. Ordered[j] # CrlItem /\ j \in 1..Len(Ordered) /\ all[j] = PutBack(Ordered[j])
        BY <3>1, OrderedTitles, Names, <1>d
      <4>2. QED
        BY <4>1 DEF Makes, PutBack, InFile, Create, Rows, Call
    <3>6. FreeCalls(all)
      BY <2>2, <1>7, <3>2, <3>4, <3>5 DEF FreeCalls
    <3>b. BackupOrder(all)
      <4>1. ASSUME NEW i \in 1..Len(all) PROVE all[i].do \notin {"take", "write_file"}
        BY <3>1, <3>4, <4>1 DEF PutBack, InFile, Create, Rows, Call
      <4>2. QED
        BY <4>1 DEF BackupOrder
    <3>7. \A c \in S : MayCall(c)
      BY <3>2, <3>3
    <3>8. MayCalls(all)
      BY <3>4, <3>6, <3>7, <3>b DEF MayCalls
    <3>9. QED
      BY <2>2, <3>1, <3>8 DEF RestoreCalls
  <2>3. QED
    BY <2>1, <2>2
<1>8. ASSUME NEW copy, Tagged(copy, Tags)
      PROVE  OwnCalls(<<Read(CaItem), Call("unreadable", 0), Call("replace_db", copy), Rows({}, copy)>>)
  <2>1. OwnCall(Read(CaItem)) /\ OwnCall(Call("unreadable", 0)) /\ OwnCall(Call("replace_db", copy)) /\ OwnCall(Rows({}, copy))
    BY <1>8, <1>t, <1>n, OwnKinds
  <2>2. PICK S : S = {Read(CaItem), Call("unreadable", 0), Call("replace_db", copy), Rows({}, copy)}
    OBVIOUS
  <2>3. <<Read(CaItem), Call("unreadable", 0), Call("replace_db", copy), Rows({}, copy)>> \in Seq(S) /\ \A x \in S : OwnCall(x)
    BY <2>1, <2>2
  <2>4. QED
    BY <2>3 DEF OwnCalls
<1>9. QED
  BY <1>1, <1>2, <1>3, <1>4, <1>5, <1>6, <1>7, <1>8

(***************************************************************************)
(* The CA's commands.                                                      *)
(***************************************************************************)
LEMMA CaMoves ==
  ASSUME area = "ca", OwnState, vault.items[CrlItem] = 0 \/ vault.items[CaItem] # 0, CaNext
  PROVE  OwnMove
<1>1. ASSUME InitCa \/ CliInit \/ \E next \in ImportSerial : CliImport(next) PROVE OwnMove
  BY <1>1, CaLists, OwnMay DEF InitCa, CliInit, CliImport, OwnMove
<1>2. ASSUME Sign \/ CliSign \/ UpdateConfig \/ CliConfigSet PROVE OwnMove
  BY <1>2, CaLists, OwnMay DEF Sign, CliSign, UpdateConfig, CliConfigSet, OwnMove
<1>3. ASSUME ResignCa \/ CliResign \/ MakeCrl PROVE OwnMove
  BY <1>3, CaLists, OwnMay DEF ResignCa, CliResign, MakeCrl, OwnMove
<1>4. ASSUME BackUpVault \/ CliBackUpVault \/ RestoreVault \/ CliRestoreVault PROVE OwnMove
  BY <1>4, CaLists, OwnMay DEF BackUpVault, CliBackUpVault, RestoreVault, CliRestoreVault, OwnMove
<1>5. ASSUME NEW given, CliRebuild(given) PROVE OwnMove
  BY <1>5, CaLists, OwnMay DEF CliRebuild, OwnMove
<1>6. ASSUME NEW i \in 1..Len(vault.kept), RestoreLocalBackup(vault.kept[i]) PROVE OwnMove
  <2>1. PICK S : vault.kept \in Seq(S) /\ \A d \in S : Tagged(d, Tags)
    BY DEF OwnState, OwnCopies
  <2>2. Tagged(vault.kept[i], Tags)
    BY <2>1, ElementOfSeq
  <2>3. QED
    BY <1>6, <2>2, CaLists, OwnMay DEF RestoreLocalBackup, OwnMove
<1>7. ASSUME LoadCa \/ DatabaseRemoved \/ CreateVault PROVE OwnMove
  BY <1>7 DEF OwnMove, Elsewhere
<1>8. QED
  BY <1>1, <1>2, <1>3, <1>4, <1>5, <1>6, <1>7 DEF CaNext

(***************************************************************************)
(* What there is between commands: the database is loaded, kept or lost.   *)
(***************************************************************************)
LEMMA OwnRests ==
  ASSUME OwnInv, Formed', Rests
  PROVE  OwnInv'
<1>1. Formed /\ Idle.calls = <<>> /\ Idle.todo = <<>>
  BY DEF OwnInv, Idle
<1>2. UNCHANGED <<vault, area>> /\ run' = Idle /\ db' \in {db, {}, Retrieved}
  BY <1>1, RestSteps
<1>3. OwnList'
  BY <1>1, <1>2 DEF OwnList
<1>4. QED
  BY <1>1, <1>2, <1>3, OwnStart, OwnLists, OwnMay

(***************************************************************************)
(* Every step of an area other than the requests' keeps OwnInv.            *)
(***************************************************************************)
LEMMA OwnStep ==
  ASSUME OwnInv, area # "csr", area = "ca" => vault.items[CrlItem] = 0 \/ vault.items[CaItem] # 0, CommandNext
  PROVE  OwnInv'
<1>1. Formed'
  BY StepFormed DEF OwnInv
<1>2. CASE DkimNext \/ OpenVpnNext \/ ProfileNext \/ CertNext \/ MarkNext \/ CaNext
  <2>1. /\ DkimNext => area = "dkim"
        /\ OpenVpnNext => area = "openvpn"
        /\ ProfileNext => area = "profiles"
        /\ CertNext \/ MarkNext => area \in {"cert", "marks"}
        /\ CaNext => area = "ca"
    BY DEF DkimNext, OpenVpnNext, ProfileNext, CertNext, MarkNext, CaNext
  <2>m. OwnMove
    BY <1>2, <2>1,  DkimMoves, OpenVpnMoves, ProfileMoves, CertMoves, CaMoves DEF OwnInv
  <2>2. QED
    BY <2>m, <1>1, OwnMoves
<1>3. CASE Succeeds \/ Refused \/ Fails
  BY <1>1, <1>3, OwnCallStep
<1>4. CASE Ends \/ OpenApp \/ CloseApp \/ Crash
  BY <1>1, <1>4, OwnRests DEF Rests
<1>5. QED
  BY <1>2, <1>3, <1>4 DEF CommandNext, CsrNext

(***************************************************************************)
(* It holds at first.                                                      *)
(***************************************************************************)
LEMMA OwnStarts ==
  ASSUME Init, area # "csr"
  PROVE  OwnInv
<1>1. Formed
  BY RevokeStarts DEF RevokeInv
<1>2. PICK F : vault = [Empty EXCEPT !.fields = F, !.items[OpenVpn] = IF F = {} THEN 0 ELSE 1,
                                 !.saved = IF area \in {"cert", "marks"} THEN {Serial(1)} ELSE {}]
  BY DEF Init
<1>3. /\ vault.items = [[t \in Title |-> 0] EXCEPT ![OpenVpn] = IF F = {} THEN 0 ELSE 1]
      /\ vault.saved = (IF area \in {"cert", "marks"} THEN {Serial(1)} ELSE {})
      /\ vault.kept = <<>> /\ vault.draft = NoFile /\ vault.file = NoFile
  BY <1>2 DEF Empty
<1>4. vault.items \in [Title -> 0..1]
  <2>1. PICK k \in 0..1 : k = IF F = {} THEN 0 ELSE 1
    OBVIOUS
  <2>2. vault.items = [[t \in Title |-> 0] EXCEPT ![OpenVpn] = k]
    BY <1>3, <2>1
  <2>3. [t \in Title |-> 0] \in [Title -> 0..1]
    OBVIOUS
  <2>4. QED
    BY <2>2, <2>3
<1>5. db = {} /\ run.calls = <<>> /\ run.todo = <<>>
  BY DEF Init, Idle
<1>6. OwnCopies(vault.kept)
  <2>1. PICK S : S = {}
    OBVIOUS
  <2>2. vault.kept \in Seq(S) /\ \A d \in S : Tagged(d, Tags)
    BY <1>3, <2>1
  <2>3. QED
    BY <2>2 DEF OwnCopies
<1>7. Tagged(vault.saved, Tags)
  BY <1>3 DEF Tagged, Tags, WrittenTags, Serial
<1>8. OwnState
  <2>1. Counted /\ \A t \in Unique : vault.items[t] < 2
    BY <1>4, UniqueTitles DEF Counted
  <2>2. QED
    BY <2>1, <1>3, <1>5, <1>6, <1>7 DEF OwnState, Tagged, NoFile
<1>9. MarkedIn(db) /\ MarkedIn(vault.saved)
  <2>1. \A n : Published(n) # Serial(1)
    BY DEF Published, Serial
  <2>2. QED
    BY <2>1, <1>3, <1>5 DEF MarkedIn
<1>10. QED
  BY <1>1, <1>5, <1>8, <1>9, OwnLists, OwnMay DEF OwnInv, OwnList

-----------------------------------------------------------------------------
(* A vault without a CA *)

(***************************************************************************)
(* Until the CA's item is there, there is no CRL and no database, and all  *)
(* a command can have ahead of it is to create that item, or what fails    *)
(* without it and ends the command.                                        *)
(***************************************************************************)
CaFirst ==
    /\ client = "none" => db = {}
    /\ vault.items[CaItem] = 0 =>
          /\ vault.items[CrlItem] = 0 /\ db = {} /\ vault.saved = {}
          /\ run.calls # <<>> => Head(run.calls) \in {Create(CaItem), Read(CaItem), Call("take", CaItem), Refuse}

(***************************************************************************)
(* The lists that the CA's commands start with in a vault without a CA.    *)
(***************************************************************************)
LEMMA CaHeads ==
  ASSUME vault.items[CaItem] = 0
  PROVE  /\ \A next : Head(FirstCalls(next)) = Create(CaItem)
         /\ \A given : Head(RebuildCalls(given)) = Refuse
         /\ Head(BackupCalls) = Call("take", CaItem)
         /\ CaItem \in vault.file.titles => Head(RestoreCalls) = Create(CaItem)
         /\ \A copy : Head(<<Read(CaItem), Call("unreadable", 0), Call("replace_db", copy), Rows({}, copy)>>) = Read(CaItem)
<1>1. \A next : Head(FirstCalls(next)) = Create(CaItem)
  BY DEF FirstCalls
<1>2. \A given : RebuildCalls(given) = <<Refuse>>
  BY DEF RebuildCalls
<1>3. Head(BackupCalls) = Call("take", CaItem)
  <2>1. PICK taken : taken = [i \in 2..Len(Ordered) |-> Silently(Call("take", Ordered[i]))]
    OBVIOUS
  <2>2. PICK a, b, e : a = <<Call("take", CaItem), taken[2], taken[3], Call("list_notes", 0)>>
                       /\ b = [n \in 1..Cardinality(Name) |-> taken[n + 3]] /\ e = <<Call("write_file", 0)>>
    OBVIOUS
  <2>3. BackupCalls = (a \o b) \o e
    BY <2>1, <2>2 DEF BackupCalls
  <2>4. PICK S : S = {a[1], a[2], a[3], a[4]} \cup {b[n] : n \in 1..Cardinality(Name)} \cup {e[1]}
    OBVIOUS
  <2>5. a \in Seq(S) /\ e \in Seq(S) /\ Len(a) = 4 /\ Len(e) = 1 /\ a[1] = Call("take", CaItem)
    BY <2>2, <2>4
  <2>6. b \in Seq(S) /\ Len(b) = Cardinality(Name)
    <3>1. b \in [1..Cardinality(Name) -> S]
      BY <2>2, <2>4
    <3>2. b \in Seq(S)
      BY <3>1, Names, SeqDef
    <3>3. QED
      BY <3>1, <3>2, Names, LenProperties
  <2>7. a \o b \in Seq(S) /\ Len(a \o b) = 4 + Cardinality(Name) /\ (a \o b)[1] = a[1]
    <3>1. a \o b \in Seq(S) /\ Len(a \o b) = Len(a) + Len(b)
          /\ \A i \in 1..(Len(a) + Len(b)) : (a \o b)[i] = IF i <= Len(a) THEN a[i] ELSE b[i - Len(a)]
      BY <2>5, <2>6, ConcatProperties
    <3>2. QED
      BY <2>5, <2>6, <3>1, Names
  <2>8. (a \o b) \o e \in Seq(S) /\ Len((a \o b) \o e) > 0 /\ ((a \o b) \o e)[1] = a[1]
    <3>1. (a \o b) \o e \in Seq(S) /\ Len((a \o b) \o e) = Len(a \o b) + Len(e)
          /\ \A i \in 1..(Len(a \o b) + Len(e)) : ((a \o b) \o e)[i] = IF i <= Len(a \o b) THEN (a \o b)[i] ELSE e[i - Len(a \o b)]
      BY <2>5, <2>7, ConcatProperties
    <3>2. QED
      BY <2>5, <2>7, <3>1, Names
  <2>9. Head((a \o b) \o e) = ((a \o b) \o e)[1]
    BY <2>8
  <2>10. QED
    BY <2>3, <2>5, <2>8, <2>9
<1>4. ASSUME CaItem \in vault.file.titles PROVE Head(RestoreCalls) = Create(CaItem)
  <2>1. PICK all : all = [i \in 1..Len(Ordered) |-> PutBack(Ordered[i])]
    OBVIOUS
  <2>2. RestoreCalls = all
    BY <2>1 DEF RestoreCalls
  <2>3. Len(Ordered) \in Nat /\ 1 \in 1..Len(Ordered) /\ Ordered[1] = CaItem
    BY OrderedTitles, Names
  <2>4. PutBack(CaItem) = Create(CaItem)
    BY <1>4 DEF PutBack, InFile, CaItem, DbItem
  <2>5. PICK S : S = {all[i] : i \in 1..Len(Ordered)}
    OBVIOUS
  <2>6. all \in [1..Len(Ordered) -> S]
    BY <2>1, <2>5
  <2>7. all \in Seq(S) /\ Len(all) = Len(Ordered)
    <3>1. all \in Seq(S)
      BY <2>3, <2>6, SeqDef
    <3>2. QED
      BY <3>1, <2>3, <2>6, LenProperties
  <2>8. Head(all) = all[1]
    BY <2>3, <2>7
  <2>9. all[1] = PutBack(Ordered[1])
    BY <2>1, <2>3
  <2>10. QED
    BY <2>2, <2>3, <2>4, <2>8, <2>9
<1>5. QED
  BY <1>1, <1>2, <1>3, <1>4

(***************************************************************************)
(* Every step of the CA's area keeps CaFirst.                              *)
(***************************************************************************)
LEMMA CaFirstStep ==
  ASSUME OwnInv, CaFirst, area = "ca", CommandNext
  PROVE  CaFirst'
<1> USE DEF CaFirst
<1>r. Retrieved \in {{}, vault.saved} /\ Formed /\ Idle.calls = <<>>
  BY DEF Retrieved, OwnInv, Idle
<1>f. vault = [f \in VaultFields |-> vault[f]] /\ vault.items \in [Title -> 0..2] /\ CaItem \in Title
      /\ CaItem # CrlItem /\ CaItem # DbItem
  BY Titles DEF OwnInv, OwnState, Counted, Formed, CaItem, CrlItem, DbItem
\* A command that starts.
<1>s. ASSUME NEW cmd, NEW calls, vault.items[CaItem] = 0 => Head(calls) \in {Create(CaItem), Read(CaItem), Call("take", CaItem), Refuse},
             InApp(cmd, calls) \/ InCli(cmd, calls, <<>>)
      PROVE  CaFirst'
  <2>1. run'.calls = calls /\ vault' = vault /\ db' \in {db, Retrieved} /\ client' # "none"
    BY <1>s DEF InApp, InCli, Started, Idle
  <2>2. QED
    BY <1>s, <1>r, <2>1
<1>n. vault.items[CaItem] = 0 => ~Loaded /\ Retrieved = {}
  BY <1>r DEF Loaded
<1>h. Head(<<Refuse>>) = Refuse
  OBVIOUS
<1>1. ASSUME InitCa \/ CliInit \/ \E next \in ImportSerial : CliImport(next) PROVE CaFirst'
  BY <1>1, <1>s, CaHeads DEF InitCa, CliInit, CliImport
<1>2. ASSUME Sign \/ CliSign \/ UpdateConfig \/ CliConfigSet PROVE CaFirst'
  BY <1>2, <1>s, <1>n DEF Sign, CliSign, UpdateConfig, CliConfigSet
<1>3. ASSUME ResignCa \/ CliResign \/ MakeCrl PROVE CaFirst'
  BY <1>3, <1>s, <1>n DEF ResignCa, CliResign, MakeCrl
<1>4. ASSUME BackUpVault \/ CliBackUpVault \/ RestoreVault \/ CliRestoreVault PROVE CaFirst'
  <2>1. vault.file # NoFile => CaItem \in vault.file.titles
    BY DEF OwnInv, OwnState
  <2>2. QED
    BY <1>4, <1>s, <2>1, CaHeads DEF BackUpVault, CliBackUpVault, RestoreVault, CliRestoreVault
<1>5. ASSUME NEW given, CliRebuild(given) PROVE CaFirst'
  BY <1>5, <1>s, CaHeads DEF CliRebuild
<1>6. ASSUME NEW i, RestoreLocalBackup(vault.kept[i]) PROVE CaFirst'
  BY <1>6, <1>s, CaHeads DEF RestoreLocalBackup
<1>7. CASE LoadCa
  BY <1>7, <1>n, <1>r DEF LoadCa
<1>8. CASE DatabaseRemoved
  <2>1. vault'.items = [vault.items EXCEPT ![DbItem] = 0] /\ vault'.saved = {} /\ db' = db /\ run' = run /\ client' = client
    BY <1>8, <1>f DEF DatabaseRemoved, VaultFields
  <2>2. vault'.items[CaItem] = vault.items[CaItem] /\ vault'.items[CrlItem] = vault.items[CrlItem]
    BY <2>1, <1>f, Titles DEF CrlItem, DbItem
  <2>3. QED
    BY <2>1, <2>2
<1>9. CASE CreateVault
  <2>1. run.calls = <<>> /\ db = {}
    BY <1>9, <1>r DEF CreateVault, Formed
  <2>2. vault'.items = [t \in Title |-> 0] /\ vault'.saved = {} /\ db' = db /\ run' = run /\ client' = client
    BY <1>9 DEF CreateVault, Empty
  <2>3. QED
    BY <2>1, <2>2, Titles
\* A call.
<1>10. CASE Succeeds \/ Refused \/ Fails
  <2>1. PICK c : run.calls # <<>> /\ c = Head(run.calls) /\ (Done(c) \/ Lost(c)) /\ area' = area /\ client # "none" /\ client' = client
    BY <1>10, <1>r, CallSteps
  <2>2. MayCall(c)
    BY <2>1, OwnTail DEF OwnInv
  <2>3. c.do \notin {"archive", "archive_if_there"}
    BY <2>2 DEF MayCall, OwnCall
  <2>4. vault' = vault \/ vault' = VaultAfter(c) \/ vault' = Damaged
    BY <2>1 DEF Done, Lost
  <2>5. vault'.items[CaItem] = 0 => vault.items[CaItem] = 0 /\ (vault' = VaultAfter(c) => c # Create(CaItem))
    <3>1. CASE vault' = vault /\ vault' # VaultAfter(c)
      BY <3>1
    <3>2. CASE vault' = Damaged /\ vault' # VaultAfter(c)
      <4>1. vault'.items = [vault.items EXCEPT ![DbItem] = 1]
        BY <3>2, <1>f DEF Damaged, VaultFields
      <4>2. QED
        BY <3>2, <4>1, <1>f
    <3>3. CASE vault' = VaultAfter(c)
      <4>1. \/ vault'.items = vault.items
            \/ c.do = "create" /\ vault'.items = [vault.items EXCEPT ![c.of] = More(@)]
            \/ c.do = "put" /\ vault'.items = [vault.items EXCEPT ![c.of] = 1]
            \/ vault'.items = [vault.items EXCEPT ![DbItem] = 1]
            \/ vault'.items = [vault.items EXCEPT ![CrlItem] = 1]
        BY ZenonT(60), <2>3, <3>3, <1>r, PartsChanged
      <4>2. \A t : More(vault.items[CaItem]) # 0 /\ [vault.items EXCEPT ![t] = 1][CaItem] \in {vault.items[CaItem], 1}
        BY <1>f DEF More
      <4>3. vault'.items[CaItem] = 0 => vault.items[CaItem] = 0
        <5>1. CASE c.do = "create" /\ vault'.items = [vault.items EXCEPT ![c.of] = More(@)]
          <6>1. CASE c.of = CaItem
            BY <5>1, <6>1, <4>2, <1>f
          <6>2. CASE c.of # CaItem
            BY <5>1, <6>2, <1>f
          <6>3. QED
            BY <6>1, <6>2
        <5>2. CASE vault'.items = vault.items
          BY <5>2
        <5>3. ASSUME NEW t, vault'.items = [vault.items EXCEPT ![t] = 1] PROVE vault'.items[CaItem] = 0 => vault.items[CaItem] = 0
          BY <5>3, <4>2, <1>f
        <5>4. QED
          BY <4>1, <5>1, <5>2, <5>3
      <4>4. ASSUME c = Create(CaItem) PROVE vault'.items[CaItem] # 0
        <5>1. c.do = "create" /\ c.of = CaItem
          BY <4>4 DEF Create, Call
        <5>2. vault' = [vault EXCEPT !.items[CaItem] = More(@)]
          BY <3>3, <5>1, CallsDo
        <5>3. vault'.items = [vault.items EXCEPT ![CaItem] = More(@)]
          BY <5>2, <1>f DEF VaultFields
        <5>4. QED
          BY <5>3, <4>2, <1>f
      <4>5. QED
        BY <4>3, <4>4
    <3>4. QED
      BY <2>4, <3>1, <3>2, <3>3
  <2>6. ASSUME vault'.items[CaItem] = 0
        PROVE  vault'.items[CrlItem] = 0 /\ db' = {} /\ vault'.saved = {} /\ run'.calls = <<>>
    <3>1. c \in {Create(CaItem), Read(CaItem), Call("take", CaItem), Refuse} /\ vault.items[CaItem] = 0
      BY <2>1, <2>5, <2>6
    <3>2. c.on = "stop" /\ c.do \in {"create", "read", "take", "refuse"}
      BY <3>1 DEF Create, Read, Call, Refuse
    <3>3. Possible(c) => c = Create(CaItem)
      <4>1. c = Refuse => ~Possible(c)
        BY DEF Refuse, Call, Possible
      <4>2. c \in {Read(CaItem), Call("take", CaItem)} => ~Possible(c)
        BY <3>1 DEF Read, Call, Possible
      <4>3. QED
        BY <3>1, <4>1, <4>2
    <3>4. Lost(c) /\ (vault' = vault \/ vault' = VaultAfter(c))
      <4>1. ~Done(c)
        BY <2>5, <2>6, <3>3 DEF Done
      <4>2. QED
        BY <2>1, <3>2, <4>1 DEF Lost
    <3>5. vault' = vault
      BY <2>5, <2>6, <3>2, <3>3, <3>4 DEF Lost
    <3>6. run'.calls = <<>>
      BY <3>2, <3>4 DEF Lost
    <3>7. db' = db
      BY <3>2, <3>4 DEF Lost, Written
    <3>8. QED
      BY <2>5, <2>6, <3>5, <3>6, <3>7
  <2>7. QED
    BY <2>1, <2>6
\* What there is between commands.
<1>11. CASE Ends \/ OpenApp \/ CloseApp \/ Crash
  <2>1. Rests
    BY <1>11 DEF Rests
  <2>2. /\ vault' = vault /\ run' = Idle
        /\ \/ db' = db /\ client' # "none"
           \/ db' = {} /\ client' = "none"
           \/ db' = Retrieved /\ client' = "app"
    BY <1>r, <2>1, RestSteps
  <2>3. QED
    BY <1>r, <2>2
<1>12. QED
  BY <1>1, <1>2, <1>3, <1>4, <1>5, <1>6, <1>7, <1>8, <1>9, <1>10, <1>11 DEF CommandNext, CaNext, CsrNext, DkimNext,
     OpenVpnNext, ProfileNext, CertNext, MarkNext

-----------------------------------------------------------------------------
(* Titles *)

(***************************************************************************)
(* What holds of the calls, area by area.                                  *)
(***************************************************************************)
CallsInv ==
    IF area = "csr" THEN CsrInv ELSE OwnInv /\ (area = "ca" => CaFirst)

(***************************************************************************)
(* It holds at first.                                                      *)
(***************************************************************************)
LEMMA CallsStart == Init => CallsInv
<1> SUFFICES ASSUME Init PROVE CallsInv
  OBVIOUS
<1>1. CASE area # "csr"
  <2>1. OwnInv
    BY <1>1, OwnStarts
  <2>2. area = "ca" => CaFirst
    <3>1. ASSUME area = "ca" PROVE vault.items = [t \in Title |-> 0] /\ vault.saved = {}
      <4>1. PICK F : /\ F # {} => area \in {"openvpn", "profiles"}
                     /\ vault = [Empty EXCEPT !.fields = F, !.items[OpenVpn] = IF F = {} THEN 0 ELSE 1,
                                     !.saved = IF area \in {"cert", "marks"} THEN {Serial(1)} ELSE {}]
        BY DEF Init
      <4>2. F = {}
        BY <3>1, <4>1
      <4>3. vault = [Empty EXCEPT !.fields = F, !.items[OpenVpn] = 0, !.saved = {}]
        BY <3>1, <4>1, <4>2
      <4>4. QED
        BY <4>3 DEF Empty
    <3>2. db = {} /\ run.calls = <<>>
      BY DEF Init, Idle
    <3>3. QED
      BY <3>1, <3>2, Titles DEF CaFirst
  <2>3. QED
    BY <1>1, <2>1, <2>2 DEF CallsInv
<1>2. CASE area = "csr"
  <2>1. PICK F : /\ F # {} => area \in {"openvpn", "profiles"}
                 /\ vault = [Empty EXCEPT !.fields = F, !.items[OpenVpn] = IF F = {} THEN 0 ELSE 1,
                                 !.saved = IF area \in {"cert", "marks"} THEN {Serial(1)} ELSE {}]
    BY DEF Init
  <2>2. F = {}
    BY <1>2, <2>1
  <2>3. vault = [Empty EXCEPT !.fields = F, !.items[OpenVpn] = 0, !.saved = {}]
    BY <1>2, <2>1, <2>2
  <2>4. vault.items = [t \in Title |-> 0] /\ vault.saved = {} /\ vault.bad = FALSE
    BY <2>3 DEF Empty
  <2>5. db = {} /\ run.calls = <<>> /\ run.todo = <<>> /\ faults = 0
    BY DEF Init, Idle
  <2>6. Formed
    BY RevokeStarts DEF RevokeInv
  <2>7. CsrSound(db) /\ CsrSound(vault.saved)
    BY <2>4, <2>5 DEF CsrSound, CsrRowsOnly, HaveCertificates, Backed
  <2>8. Counted /\ \A t \in Unique : vault.items[t] < 2
    BY <2>4, UniqueTitles DEF Counted
  <2>9. CsrToDo(run.calls) /\ faults \in Nat
    BY <2>5 DEF CsrToDo
  <2>10. QED
    BY <1>2, <2>4, <2>5, <2>6, <2>7, <2>8, <2>9 DEF CallsInv, CsrInv
<1>3. QED
  BY <1>1, <1>2

(***************************************************************************)
(* Every step keeps it, those of the areas without calls included.         *)
(***************************************************************************)
LEMMA CallsStep ==
  ASSUME CallsInv, [Next]_<<vars, sessionVars, schemaVars, copyVars, watchVars>>
  PROVE  CallsInv'
<1>a. CommandNext => area' = area
  <2>1. Elsewhere => area' = area
    BY DEF Elsewhere, DeletedElsewhere, OlderClientAdds, Expire, DatabaseRemoved, CreateVault, LoadCa
  <2>2. StartsInApp \/ StartsInCli \/ StartsList \/ NextOfList => area' = area
    BY DEF StartsInApp, StartsInCli, StartsList, NextOfList, InApp, InCli, BulkInApp, NextItem
  <2>3. Succeeds \/ Refused \/ Fails \/ Ends \/ OpenApp \/ CloseApp \/ Crash => area' = area
    BY DEF Succeeds, Refused, Fails, Ends, OpenApp, CloseApp, Crash, Leave
  <2>4. QED
    BY <2>1, <2>2, <2>3, StepKinds
<1>1. CASE CommandNext /\ area = "csr"
  BY <1>1, <1>a, CsrStep DEF CallsInv
<1>2. CASE CommandNext /\ area # "csr"
  <2>1. OwnInv /\ (area = "ca" => CaFirst)
    BY <1>2 DEF CallsInv
  <2>2. OwnInv'
    BY <1>2, <2>1, OwnStep DEF CaFirst
  <2>3. area = "ca" => CaFirst'
    BY <1>2, <2>1, CaFirstStep
  <2>4. QED
    BY <1>2, <1>a, <2>2, <2>3 DEF CallsInv
<1>3. CASE UNCHANGED vars
  <2>1. UNCHANGED <<area, vault, db, client, run, past, faults>>
    BY <1>3 DEF vars
  <2>2. CsrInv => CsrInv'
    <3>1. PICK calls : calls = run.calls
      OBVIOUS
    <3>2. CsrToDo(calls)' = CsrToDo(calls)
      BY <2>1 DEF CsrToDo, RowGoes, NewKey, NewRow, KeyGoes, ImportStops, ImportFirst, ImportNext, ImportLast, Completing
    <3>3. CsrToDo(run.calls)' = CsrToDo(run.calls)
      BY <2>1, <3>1, <3>2 DEF CsrToDo, RowGoes, NewKey, NewRow, KeyGoes, ImportStops, ImportFirst, ImportNext, ImportLast, Completing
    <3>4. QED
      BY <2>1, <3>3 DEF CsrInv, Formed, Counted, CsrSound, CsrRowsOnly, HaveCertificates, Backed
  <2>3. OwnInv => OwnInv'
    BY ZenonT(60), <2>1 DEF OwnInv, Formed, OwnState, Counted, Tagged, Tags, WrittenTags, OwnCopies, MayCalls, MayCall, OwnCall,
       FreeCalls, BackupOrder, OwnList, MarkedIn, Created
  <2>4. CaFirst => CaFirst'
    BY <2>1 DEF CaFirst
  <2>5. QED
    BY <2>1, <2>2, <2>3, <2>4 DEF CallsInv
<1>4. QED
  BY <1>1, <1>2, <1>3 DEF Next, vars

(***************************************************************************)
(* Whatever fails, the titles the commands find their items by name one    *)
(* item at most: create_csr and create_dkim_key look before they create,   *)
(* a restore creates the CRL in a vault without one, and the other writes  *)
(* replace what is there.                                                  *)
(***************************************************************************)
THEOREM TitlesStayUnambiguous == Spec => []TitlesUnambiguous
<1>1. CallsInv => TitlesUnambiguous
  <2>1. ASSUME CallsInv, area # "csr" PROVE TitlesUnambiguous
    BY <2>1 DEF CallsInv, OwnInv, OwnState, Unique, TitlesUnambiguous, CrlItem
  <2>2. ASSUME CallsInv, area = "csr" PROVE TitlesUnambiguous
    BY <2>2 DEF CallsInv, CsrInv, Unique, TitlesUnambiguous, CrlItem
  <2>3. QED
    BY <2>1, <2>2
<1>2. QED
  BY <1>1, CallsStart, CallsStep, PTL DEF Spec

-----------------------------------------------------------------------------
(* Profiles on record *)

\* A profile's document is there, here or in the vault it was sent to.
Stocked(n) == vault.items[VpnItem(n)] > 0 \/ vault.items[Sent(n)] > 0
Documented(d) == \A n \in Name : Profile(n) \in d => Stocked(n)

\* The calls on profiles: none removes a document.
ProfileCall(c) == c.do \in {"look", "store", "inject", "put", "create", "read"} /\ c.on = "stop"
Records(c, n) == c.do = "store" /\ Profile(n) \in c.of.new
Stocks(c, n) == c \in {Put(VpnItem(n)), Put(Sent(n))}

(***************************************************************************)
(* A profile goes on record after its document is stored, and no earlier.  *)
(***************************************************************************)
StoredFirst(calls) ==
    \A i \in 1..Len(calls) : \A n \in Name :
        Records(calls[i], n) => Stocked(n) \/ \E j \in 1..(i - 1) : Stocks(calls[j], n)
ProfileCalls(calls) == (\E S : calls \in Seq(S) /\ \A c \in S : ProfileCall(c)) /\ StoredFirst(calls)

ProfileInv == Documented(db) /\ Documented(vault.saved) /\ ProfileCalls(run.calls)

\* Calls that put nothing on record.
NoRecords(calls) ==
    \E S : calls \in Seq(S) /\ \A c \in S : ProfileCall(c) /\ \A n : ~Records(c, n)

(***************************************************************************)
(* The lists of the commands.                                              *)
(***************************************************************************)
LEMMA ProfileLists ==
  /\ \A calls : NoRecords(calls) => ProfileCalls(calls)
  /\ NoRecords(<<>>) /\ \A d : NoRecords(ImportCalls(d))
  /\ \A c : NoRecords(<<Call("inject", 0), Create(VpnItem(c))>>) /\ NoRecords(<<Read(VpnItem(c)), Create(Sent(c))>>)
  /\ \A old, new : (\A n : Profile(n) \notin new) => NoRecords(<<Store(old, new)>>)
  /\ \A s, t : NoRecords(s) /\ NoRecords(t) => NoRecords(s \o t)
<1>1. ASSUME NEW calls, NoRecords(calls) PROVE ProfileCalls(calls)
  <2>1. PICK S : calls \in Seq(S) /\ \A c \in S : ProfileCall(c) /\ \A n : ~Records(c, n)
    BY <1>1 DEF NoRecords
  <2>2. \A i \in 1..Len(calls) : calls[i] \in S
    BY <2>1, ElementOfSeq
  <2>3. QED
    BY <2>1, <2>2 DEF ProfileCalls, StoredFirst
<1>2. ASSUME NEW a, ProfileCall(a), \A n : ~Records(a, n) PROVE NoRecords(<<a>>)
  <2>1. PICK S : S = {a}
    OBVIOUS
  <2>2. <<a>> \in Seq(S) /\ \A c \in S : ProfileCall(c) /\ \A n : ~Records(c, n)
    BY <1>2, <2>1
  <2>3. QED
    BY <2>2 DEF NoRecords
<1>3. ASSUME NEW a, NEW b, ProfileCall(a), ProfileCall(b), \A n : ~Records(a, n) /\ ~Records(b, n)
      PROVE  NoRecords(<<a, b>>)
  <2>1. PICK S : S = {a, b}
    OBVIOUS
  <2>2. <<a, b>> \in Seq(S) /\ \A c \in S : ProfileCall(c) /\ \A n : ~Records(c, n)
    BY <1>3, <2>1
  <2>3. QED
    BY <2>2 DEF NoRecords
<1>4. NoRecords(<<>>)
  <2>1. PICK S : S = {}
    OBVIOUS
  <2>2. <<>> \in Seq(S) /\ \A c \in S : ProfileCall(c) /\ \A n : ~Records(c, n)
    BY <2>1
  <2>3. QED
    BY <2>2 DEF NoRecords
<1>k. /\ \A t : ProfileCall(Look(t)) /\ ProfileCall(Read(t)) /\ ProfileCall(Create(t)) /\ ProfileCall(Call("inject", 0))
      /\ \A t, n : ~Records(Look(t), n) /\ ~Records(Read(t), n) /\ ~Records(Create(t), n) /\ ~Records(Call("inject", 0), n)
      /\ \A old, new : /\ ProfileCall(Store(old, new))
                       /\ \A n : Profile(n) \notin new => ~Records(Store(old, new), n)
  BY DEF ProfileCall, Records, Look, Read, Create, Store, Call
<1>5. ASSUME NEW d PROVE NoRecords(ImportCalls(d))
  <2> DEFINE new == {Template(c, "vault") : c \in vault.fields}
                    \cup {<<"import", IF vault.fields = {} THEN "Settled" ELSE "AwaitingCleanup">>}
  <2>1. \A n : Profile(n) \notin new
    BY DEF Template, Profile
  <2>2. NoRecords(<<Look(OpenVpn), Store(UNION {Copies(c) : c \in vault.fields}, new)>>)
    BY <2>1, <1>3, <1>k
  <2>3. QED
    BY <2>2, <1>4 DEF ImportCalls
<1>6. ASSUME NEW s, NEW t, NoRecords(s), NoRecords(t) PROVE NoRecords(s \o t)
  <2>1. PICK S : s \in Seq(S) /\ \A c \in S : ProfileCall(c) /\ \A n : ~Records(c, n)
    BY <1>6 DEF NoRecords
  <2>2. PICK T : t \in Seq(T) /\ \A c \in T : ProfileCall(c) /\ \A n : ~Records(c, n)
    BY <1>6 DEF NoRecords
  <2>3. s \in Seq(S \cup T) /\ t \in Seq(S \cup T)
    BY <2>1, <2>2, SeqMonotonic
  <2>4. s \o t \in Seq(S \cup T)
    BY <2>3, ConcatProperties
  <2>5. QED
    BY <2>1, <2>2, <2>4 DEF NoRecords
<1>7. QED
  BY <1>1, <1>2, <1>3, <1>4, <1>5, <1>6, <1>k

(***************************************************************************)
(* A generated profile: its document, then its row.                        *)
(***************************************************************************)
LEMMA GenerateStores ==
  ASSUME NEW d, NEW c, NEW t \in {VpnItem(c), Sent(c)}
  PROVE  ProfileCalls(GenerateCalls(d, c, t))
<1>1. PICK S : ImportCalls(d) \in Seq(S) /\ \A e \in S : ProfileCall(e) /\ \A n : ~Records(e, n)
  BY ProfileLists DEF NoRecords
<1>2. PICK last : last = Store(ProfileRows({c}), {Profile(c)})
  OBVIOUS
<1>3. PICK m \in Nat : m = Len(ImportCalls(d))
  BY <1>1, LenProperties
<1>4. PICK T : T = S \cup {Call("inject", 0), Put(t), last}
  OBVIOUS
<1>5. ImportCalls(d) \in Seq(T) /\ <<Call("inject", 0), Put(t), last>> \in Seq(T)
  BY <1>1, <1>4, SeqMonotonic
<1>6. PICK all : all = GenerateCalls(d, c, t)
  OBVIOUS
<1>7. all \in Seq(T) /\ Len(all) = m + 3
      /\ \A i \in 1..(m + 3) : all[i] = IF i <= m THEN ImportCalls(d)[i] ELSE <<Call("inject", 0), Put(t), last>>[i - m]
  <2>1. all = ImportCalls(d) \o <<Call("inject", 0), Put(t), last>>
    BY <1>2, <1>6 DEF GenerateCalls
  <2>2. Len(<<Call("inject", 0), Put(t), last>>) = 3
    OBVIOUS
  <2>3. QED
    BY <1>3, <1>5, <2>1, <2>2, ConcatProperties
<1>8. \A e \in T : ProfileCall(e)
  BY <1>1, <1>2, <1>4 DEF ProfileCall, Put, Store, Call
<1>9. ASSUME NEW i \in 1..Len(all), NEW n \in Name, Records(all[i], n)
      PROVE  \E j \in 1..(i - 1) : Stocks(all[j], n)
  <2>1. i > m
    <3>1. ASSUME i <= m PROVE FALSE
      <4>1. all[i] = ImportCalls(d)[i] /\ i \in 1..Len(ImportCalls(d))
        BY <1>3, <1>7, <3>1
      <4>2. all[i] \in S
        BY <1>1, <4>1, ElementOfSeq
      <4>3. QED
        BY <1>1, <1>9, <4>2
    <3>2. QED
      BY <1>3, <1>7, <3>1
  <2>2. i # m + 1 /\ i # m + 2
    <3>1. all[m + 1] = Call("inject", 0) /\ all[m + 2] = Put(t)
      BY <1>3, <1>7
    <3>2. QED
      BY <1>9, <3>1 DEF Records, Put, Call
  <2>3. i = m + 3 /\ all[m + 3] = last /\ all[m + 2] = Put(t)
    BY <1>3, <1>7, <2>1, <2>2
  <2>4. n = c
    BY <1>2, <1>9, <2>3 DEF Records, Store, Call, Profile
  <2>5. Stocks(all[m + 2], n) /\ m + 2 \in 1..(i - 1)
    BY <1>3, <2>3, <2>4 DEF Stocks
  <2>6. QED
    BY <2>5
<1>10. QED
  BY <1>6, <1>7, <1>8, <1>9 DEF ProfileCalls, StoredFirst

(***************************************************************************)
(* A command that starts, goes on or ends leaves the documents alone.      *)
(***************************************************************************)
LEMMA ProfileStart ==
  ASSUME ProfileInv, vault' = vault, db' \in {db, {}, Retrieved}, ProfileCalls(run'.calls)
  PROVE  ProfileInv'
<1>1. Retrieved \in {{}, vault.saved}
  BY DEF Retrieved
<1>2. Documented(db)' /\ Documented(vault.saved)'
  BY <1>1 DEF ProfileInv, Documented, Stocked
<1>3. PICK calls : calls = run'.calls
  OBVIOUS
<1>4. ProfileCalls(calls)'
  BY <1>3 DEF ProfileCalls, StoredFirst, Stocked
<1>5. QED
  BY <1>2, <1>3, <1>4 DEF ProfileInv

(***************************************************************************)
(* What the commands on profiles start or go on with.                      *)
(***************************************************************************)
LEMMA ProfileMove ==
  ASSUME ProfileInv, Formed, ProfileNext
  PROVE  ProfileInv'
<1>r. run = [f \in RunFields |-> run[f]]
  BY DEF Formed
<1>n. NoRecords(<<>>) /\ ProfileCalls(<<>>)
  BY ProfileLists
<1>s. ASSUME NEW cmd, NEW calls, ProfileCalls(calls), InApp(cmd, calls) \/ InCli(cmd, calls, <<>>) PROVE ProfileInv'
  <2>1. run'.calls = calls /\ vault' = vault /\ db' \in {db, {}, Retrieved}
    BY <1>s DEF InApp, InCli, Started, Idle
  <2>2. QED
    BY <1>s, <2>1, ProfileStart
<1>1. ASSUME NEW c \in Name, GenerateProfile(c, VpnItem(c)) \/ GenerateProfile(c, Sent(c)) PROVE ProfileInv'
  BY <1>1, <1>s, GenerateStores DEF GenerateProfile
<1>2. ASSUME NEW c \in Name, CliGenerateProfile(c) PROVE ProfileInv'
  <2>1. ProfileCalls(ImportCalls(vault.saved) \o <<Call("inject", 0), Create(VpnItem(c))>>)
    BY ProfileLists
  <2>2. QED
    BY <1>2, <2>1, <1>s DEF CliGenerateProfile
<1>3. ASSUME NEW c \in Name, SendProfile(c) PROVE ProfileInv'
  BY <1>3, <1>s, ProfileLists DEF SendProfile
<1>4. ASSUME NEW C, AddEntries(C) \/ DeleteProfiles(C) PROVE ProfileInv'
  <2>1. \A n : Profile(n) \notin {Entry(c) : c \in C} /\ Profile(n) \notin {}
    BY DEF Profile, Entry
  <2>2. ProfileCalls(<<Store(ProfileRows(C), {Entry(c) : c \in C})>>) /\ ProfileCalls(<<Store(ProfileRows(C), {})>>)
    BY <2>1, ProfileLists
  <2>3. QED
    BY <1>4, <2>2, <1>s DEF AddEntries, DeleteProfiles
<1>5. ASSUME NEW todo, BulkGenerateProfiles(todo) PROVE ProfileInv'
  <2>1. run'.calls = <<>> /\ vault' = vault /\ db' = db
    BY <1>5 DEF BulkGenerateProfiles, BulkInApp, Started, Idle
  <2>2. QED
    BY <2>1, <1>n, ProfileStart
<1>6. ASSUME run.cmd = "bulk_generate_profiles", NextItem(GenerateCalls(db, Head(run.todo), VpnItem(Head(run.todo))))
      PROVE  ProfileInv'
  <2>1. run'.calls = GenerateCalls(db, Head(run.todo), VpnItem(Head(run.todo))) /\ vault' = vault /\ db' = db
    BY <1>6, <1>r DEF NextItem, RunFields
  <2>2. ProfileCalls(run'.calls)
    BY <1>6, <2>1, GenerateStores
  <2>3. QED
    BY <2>1, <2>2, ProfileStart
<1>7. QED
  BY <1>1, <1>2, <1>3, <1>4, <1>5, <1>6 DEF ProfileNext

(***************************************************************************)
(* Whatever becomes of a call, what is on record has a document.           *)
(***************************************************************************)
LEMMA ProfileCallStep ==
  ASSUME ProfileInv, Formed, Counted, area = "profiles", Succeeds \/ Refused \/ Fails
  PROVE  ProfileInv'
<1> USE DEF ProfileInv
<1>1. PICK c : run.calls # <<>> /\ c = Head(run.calls) /\ (Done(c) \/ Lost(c))
  BY CallSteps
<1>2. PICK S : run.calls \in Seq(S) /\ \A e \in S : ProfileCall(e)
  BY DEF ProfileCalls
<1>3. PICK m \in Nat : m = Len(run.calls) /\ m > 0
  BY <1>1, <1>2, LenProperties, EmptySeq
<1>4. c = run.calls[1] /\ c \in S /\ ProfileCall(c)
  BY <1>1, <1>2, <1>3, ElementOfSeq
<1>5. PICK rest : rest = Tail(run.calls)
  OBVIOUS
<1>6. rest \in Seq(S) /\ Len(rest) = m - 1 /\ \A i \in 1..(m - 1) : rest[i] = run.calls[i + 1]
  BY <1>1, <1>2, <1>3, <1>5, HeadTailProperties
\* The items: no document goes.
<1>7. \A n \in Name : Stocked(n) => Stocked(n)'
  <2>1. CASE vault' = vault
    BY <2>1 DEF Stocked
  <2>2. CASE vault' = VaultAfter(c)
    <3>1. \/ vault'.items = vault.items
          \/ vault'.items = [vault.items EXCEPT ![c.of] = More(@)]
          \/ vault'.items = [vault.items EXCEPT ![c.of] = 1]
          \/ vault'.items = [vault.items EXCEPT ![DbItem] = 1]
      <4>1. c.do \notin {"archive", "archive_if_there", "put_crl"}
        BY <1>4 DEF ProfileCall
      <4>2. \/ vault'.items = vault.items
            \/ vault'.items = [vault.items EXCEPT ![c.of] = More(@)]
            \/ vault'.items = [vault.items EXCEPT ![c.of] = 1]
            \/ c.do \in {"archive", "archive_if_there"}
            \/ vault'.items = [vault.items EXCEPT ![DbItem] = 1]
            \/ c.do = "put_crl"
        BY ZenonT(60), <2>2, PartsChanged
      <4>3. QED
        BY <4>1, <4>2
    <3>2. \A t \in Title : vault.items[t] \in 0..2 /\ More(vault.items[t]) > 0
      BY DEF Counted, More
    <3>3. \A t \in Title : vault.items[t] > 0 => vault'.items[t] > 0
      BY <3>1, <3>2 DEF Counted
    <3>4. QED
      BY <3>3, Titles DEF Stocked
  <2>3. QED
    BY <1>1, <2>1, <2>2 DEF Done, Lost
\* The rows, in memory and saved.
<1>8. c.do # "publish" /\ c.do \notin {"new_db", "replace_db", "rows"} /\ c.on = "stop"
  BY <1>4 DEF ProfileCall
<1>9. db' \in {db, Written(c)} /\ vault'.saved \in {vault.saved, Written(c)}
  <2>1. db' \in {db, Written(c)} /\ (vault' = vault \/ vault' = VaultAfter(c))
    BY <1>1, <1>8 DEF Done, Lost, DbAfter
  <2>2. vault' = VaultAfter(c) => vault'.saved \in {vault.saved, Written(c)}
    BY ZenonT(60), <1>8, PartsChanged
  <2>3. QED
    BY <2>1, <2>2
<1>10. ASSUME NEW n \in Name, Profile(n) \in Written(c) PROVE Stocked(n)
  <2>1. CASE Profile(n) \in db
    BY <2>1 DEF Documented
  <2>2. CASE Profile(n) \notin db
    <3>1. Records(c, n)
      BY <1>8, <1>10, <2>2 DEF Written, Records
    <3>2. 1 \in 1..Len(run.calls)
      BY <1>3
    <3>3. Stocked(n) \/ \E j \in 1..(1 - 1) : Stocks(run.calls[j], n)
      BY <1>4, <3>1, <3>2 DEF ProfileCalls, StoredFirst
    <3>4. QED
      BY <3>3
  <2>3. QED
    BY <2>1, <2>2
<1>11. Documented(db)' /\ Documented(vault.saved)'
  BY <1>7, <1>9, <1>10 DEF Documented
\* What is left to do.
<1>12. ASSUME Done(c), NEW n \in Name, Stocks(c, n) PROVE Stocked(n)'
  <2>1. c.do = "put" /\ c.of \in {VpnItem(n), Sent(n)}
    BY <1>12 DEF Stocks, Put, Call
  <2>2. vault'.items = [vault.items EXCEPT ![c.of] = 1]
    BY ZenonT(60), <1>12, <2>1, CallsLeave, Titles DEF Done, ItemsAre
  <2>3. QED
    BY <2>1, <2>2, Titles DEF Stocked, Counted
<1>13. ASSUME Done(c) PROVE ProfileCalls(run.calls)'
  <2>1. run'.calls = rest
    BY <1>5, <1>13 DEF Done
  <2>2. ASSUME NEW i \in 1..Len(rest), NEW n \in Name, Records(rest[i], n)
        PROVE  Stocked(n)' \/ \E j \in 1..(i - 1) : Stocks(rest[j], n)
    <3>1. i \in 1..(m - 1) /\ i + 1 \in 1..Len(run.calls) /\ rest[i] = run.calls[i + 1]
      BY <1>3, <1>6
    <3>2. Stocked(n) \/ \E j \in 1..((i + 1) - 1) : Stocks(run.calls[j], n)
      BY <2>2, <3>1 DEF ProfileCalls, StoredFirst
    <3>3. ASSUME NEW j \in 1..((i + 1) - 1), Stocks(run.calls[j], n)
          PROVE  Stocked(n)' \/ \E l \in 1..(i - 1) : Stocks(rest[l], n)
      <4>1. CASE j = 1
        BY <1>4, <1>12, <1>13, <3>3, <4>1
      <4>2. CASE j # 1
        <5>1. j - 1 \in 1..(i - 1) /\ j - 1 \in 1..(m - 1) /\ (j - 1) + 1 = j
          BY SMTT(60), <1>3, <3>1, <4>2
        <5>2. rest[j - 1] = run.calls[j]
          BY <1>6, <5>1
        <5>3. QED
          BY <3>3, <5>1, <5>2
      <4>3. QED
        BY <4>1, <4>2
    <3>4. QED
      BY <1>7, <3>2, <3>3
  <2>3. StoredFirst(rest)'
    BY <2>2 DEF StoredFirst
  <2>4. QED
    BY <1>2, <1>6, <2>1, <2>3 DEF ProfileCalls, StoredFirst
<1>14. ASSUME Lost(c) PROVE ProfileCalls(run.calls)'
  <2>1. run'.calls = <<>>
    BY <1>8, <1>14 DEF Lost
  <2>2. StoredFirst(run.calls)'
    BY <2>1 DEF StoredFirst
  <2>3. run'.calls \in Seq(S)
    BY <2>1
  <2>4. QED
    BY <1>2, <2>2, <2>3 DEF ProfileCalls
<1>15. QED
  BY <1>1, <1>11, <1>13, <1>14

(***************************************************************************)
(* Every step of the area keeps ProfileInv.                                *)
(***************************************************************************)
LEMMA ProfileStep ==
  ASSUME ProfileInv, Formed, Counted, area = "profiles", CommandNext
  PROVE  ProfileInv'
<1>1. CASE ProfileNext
  BY <1>1, ProfileMove
<1>2. CASE Succeeds \/ Refused \/ Fails
  BY <1>2, ProfileCallStep
<1>3. CASE Ends \/ OpenApp \/ CloseApp \/ Crash
  <2>1. vault' = vault /\ run'.calls = <<>> /\ db' \in {db, {}, Retrieved}
    BY <1>3, RestSteps DEF Rests, Idle
  <2>2. QED
    BY <2>1, ProfileStart, ProfileLists
<1>4. QED
  BY <1>1, <1>2, <1>3 DEF CommandNext, CsrNext, DkimNext, OpenVpnNext, CertNext, MarkNext, CaNext

-----------------------------------------------------------------------------
(* Deleted certificates *)

(***************************************************************************)
(* The serial that the database d gives next: it is the only one, and what *)
(* d has a row of was given before.                                        *)
(***************************************************************************)
Counter(d, m) ==
    /\ m \in 1..(Cardinality(Name) + 1) /\ Serial(m) \in d /\ \A k : Serial(k) \in d => k = m
    /\ \A n : Gone(n) \in d \/ (\E s : Cert(n, s) \in d) => n \in Name /\ n < m
Held(n, d) == n \in Name /\ \E k \in Nat : Serial(k) \in d /\ n < k
Closed(d) == \A n \in Name : Gone(n) \in d => Cert(n, "Valid") \notin d /\ vault.items[CrtItem(n)] = 0

\* The saved database is never ahead of the one in memory.
Numbered ==
    /\ \E m : Counter(vault.saved, m)
    /\ client # "none" => \E m, k : Counter(vault.saved, m) /\ Counter(db, k) /\ m <= k

\* Calls that neither issue nor delete.
PlainWrite(w, d) ==
    /\ \A k : Serial(k) \notin w.old \cup w.new
    /\ \A n : Gone(n) \notin w.new /\ Cert(n, "Valid") \notin w.new
    /\ \A n, s : Cert(n, s) \in w.new => Held(n, d)
PlainCall(c, d) ==
    \/ c.do \in {"read", "publish", "put_crl", "refuse"}
    \/ c.do \in {"rows", "store"} /\ PlainWrite(c.of, d)
IsList(s) == \E S : s \in Seq(S)
Plain(s, d) == \E S : s \in Seq(S) /\ \A c \in S : PlainCall(c, d)

\* What is left of an issue: the row; the item and the row; the serial before them.
Recorded(s, n, d) ==
    \E c, rest, new : /\ s = <<c>> \o rest /\ Plain(rest, d) /\ c \in {Store({}, new), Rows({}, new)}
                      /\ \A r \in new : r = Cert(n, "Valid") \/ r[1] = "ignored"
Made(s, n, d) == \E rest : s = <<Create(CrtItem(n))>> \o rest /\ Recorded(rest, n, d)
Numbering(s, n, d) == \E rest : s = <<Rows({Serial(n)}, {Serial(n + 1)})>> \o rest /\ Made(rest, n, d)

IssueRow(s, n) == Recorded(s, n, db) /\ Serial(n + 1) \in db /\ Gone(n) \notin db
IssueItem(s, n) == Made(s, n, db) /\ Serial(n + 1) \in db /\ Gone(n) \notin db /\ Gone(n) \notin vault.saved
IssueSerial(s, n) == Numbering(s, n, db) /\ Serial(n) \in db
IssueRead(s, n) == \E t, rest : s = <<Read(t)>> \o rest /\ IssueSerial(rest, n)

\* What is left of a delete: the row; the item and the row; the scan before them.
DeleteRow(s, n) ==
    /\ s = <<Store({}, {Ignored(n), Gone(n)})>>
    /\ Held(n, db) /\ Cert(n, "Valid") \notin db /\ vault.items[CrtItem(n)] = 0
DeleteItem(s, n) ==
    /\ s = <<ArchiveIfThere(CrtItem(n)), Store({}, {Ignored(n), Gone(n)})>>
    /\ Held(n, db) /\ Cert(n, "Valid") \notin db
DeleteScan(s, n) ==
    \E p : /\ s = <<Call("rows", p), ArchiveIfThere(CrtItem(n)), Store({}, {Ignored(n), Gone(n)})>>
           /\ PlainWrite(p, db) /\ Held(n, db) /\ Cert(n, "Valid") \notin (db \ p.old) \cup p.new

\* A renewal or rekey of each serial listed has a serial left.
Spare(k) == run.cmd \in {"renew", "rekey"} => k + Len(run.todo) <= Cardinality(Name) + 1
SpareNow == \A k : Serial(k) \in db => Spare(k)

(***************************************************************************)
(* What can be left to do of a command on certificates.                    *)
(***************************************************************************)
CertToDo(s) ==
    \/ SpareNow /\ (Plain(s, db) \/ \E n \in Name : \/ IssueItem(s, n) \/ IssueRow(s, n)
                                                    \/ DeleteRow(s, n) \/ DeleteItem(s, n) \/ DeleteScan(s, n))
    \/ \E n \in Name : (IssueRead(s, n) \/ IssueSerial(s, n)) /\ Spare(n + 1)

DeletedInv ==
    /\ ~vault.bad /\ Numbered /\ Closed(db) /\ Closed(vault.saved)
    /\ IsList(run.todo) /\ CertToDo(run.calls)

(***************************************************************************)
(* Lists, one call at a time.                                              *)
(***************************************************************************)
LEMMA Consed ==
  ASSUME NEW a, NEW s, IsList(s)
  PROVE  /\ Head(<<a>> \o s) = a /\ Tail(<<a>> \o s) = s /\ <<a>> \o s # <<>> /\ IsList(<<a>> \o s)
         /\ \A t : IsList(t) => (<<a>> \o s) \o t = <<a>> \o (s \o t) /\ IsList(s \o t)
         /\ <<a>> = <<a>> \o <<>>
<1>1. PICK S : s \in Seq(S)
  BY DEF IsList
<1>2. PICK T : T = S \cup {a}
  OBVIOUS
<1>3. s \in Seq(T) /\ <<a>> \in Seq(T)
  BY <1>1, <1>2, SeqMonotonic
<1>4. PICK all : all = <<a>> \o s
  OBVIOUS
<1>5. PICK m \in Nat : m = Len(s)
  BY <1>1, LenProperties
<1>6. all \in Seq(T) /\ Len(all) = 1 + m /\ \A i \in 1..(1 + m) : all[i] = IF i <= 1 THEN a ELSE s[i - 1]
  <2>1. Len(<<a>>) = 1 /\ <<a>>[1] = a
    OBVIOUS
  <2>2. all \in Seq(T) /\ Len(all) = Len(<<a>>) + Len(s)
        /\ \A i \in 1..(Len(<<a>>) + Len(s)) : all[i] = IF i <= Len(<<a>>) THEN <<a>>[i] ELSE s[i - Len(<<a>>)]
    BY <1>3, <1>4, ConcatProperties
  <2>3. QED
    BY <1>5, <2>1, <2>2
<1>7. all # <<>> /\ Head(all) = a
  BY <1>5, <1>6, EmptySeq
<1>8. Tail(all) = s
  <2>1. /\ Tail(all) \in Seq(T) /\ Len(Tail(all)) = Len(all) - 1
        /\ \A i \in 1..Len(Tail(all)) : Tail(all)[i] = all[i + 1]
    BY <1>6, <1>7, HeadTailProperties
  <2>2. PICK tl : tl = Tail(all)
    OBVIOUS
  <2>3. tl \in Seq(T) /\ Len(tl) = m /\ \A i \in 1..m : tl[i] = s[i]
    BY <1>5, <1>6, <2>1, <2>2
  <2>4. QED
    BY <1>3, <1>5, <2>2, <2>3, SeqEqual
<1>9. ASSUME NEW t, IsList(t) PROVE (<<a>> \o s) \o t = <<a>> \o (s \o t) /\ IsList(s \o t)
  <2>1. PICK U : t \in Seq(U)
    BY <1>9 DEF IsList
  <2>2. PICK V : V = T \cup U
    OBVIOUS
  <2>3. <<a>> \in Seq(V) /\ s \in Seq(V) /\ t \in Seq(V)
    BY <1>3, <2>1, <2>2, SeqMonotonic
  <2>4. (<<a>> \o s) \o t = <<a>> \o (s \o t)
    BY <2>3, ConcatAssociative
  <2>5. s \o t \in Seq(V)
    BY <2>3, ConcatProperties
  <2>6. QED
    BY <2>4, <2>5 DEF IsList
<1>10. QED
  BY <1>4, <1>6, <1>7, <1>8, <1>9, <1>3, ConcatEmptySeq DEF IsList

(***************************************************************************)
(* Short lists are lists.                                                  *)
(***************************************************************************)
LEMMA ShortLists ==
  /\ IsList(<<>>) /\ \A a : IsList(<<a>>)
  /\ \A a, b : IsList(<<a, b>>) /\ <<a, b>> = <<a>> \o <<b>>
  /\ \A a, b, c : IsList(<<a, b, c>>) /\ <<a, b, c>> = <<a>> \o <<b, c>>
<1>1. IsList(<<>>)
  <2>1. PICK S : S = {}
    OBVIOUS
  <2>2. <<>> \in Seq(S)
    BY <2>1
  <2>3. QED
    BY <2>2 DEF IsList
<1>2. ASSUME NEW a PROVE IsList(<<a>>)
  <2>1. PICK S : S = {a}
    OBVIOUS
  <2>2. <<a>> \in Seq(S)
    BY <2>1
  <2>3. QED
    BY <2>2 DEF IsList
<1>3. ASSUME NEW a, NEW b PROVE IsList(<<a, b>>)
  <2>1. PICK S : S = {a, b}
    OBVIOUS
  <2>2. <<a, b>> \in Seq(S)
    BY <2>1
  <2>3. QED
    BY <2>2 DEF IsList
<1>4. ASSUME NEW a, NEW b, NEW c PROVE IsList(<<a, b, c>>) /\ <<a, b, c>> = <<a>> \o <<b, c>>
  <2>1. PICK S : S = {a, b, c}
    OBVIOUS
  <2>2. <<a, b, c>> \in Seq(S) /\ <<a>> \in Seq(S) /\ <<b, c>> \in Seq(S)
    BY <2>1
  <2>3. PICK all : all = <<a>> \o <<b, c>>
    OBVIOUS
  <2>4. all \in Seq(S) /\ Len(all) = 3 /\ all[1] = a /\ all[2] = b /\ all[3] = c
    <3>1. Len(<<a>>) = 1 /\ <<a>>[1] = a /\ Len(<<b, c>>) = 2 /\ <<b, c>>[1] = b /\ <<b, c>>[2] = c
      OBVIOUS
    <3>2. all \in Seq(S) /\ Len(all) = Len(<<a>>) + Len(<<b, c>>)
          /\ \A i \in 1..(Len(<<a>>) + Len(<<b, c>>)) :
                all[i] = IF i <= Len(<<a>>) THEN <<a>>[i] ELSE <<b, c>>[i - Len(<<a>>)]
      BY <2>2, <2>3, ConcatProperties
    <3>3. QED
      BY <3>1, <3>2
  <2>5. Len(<<a, b, c>>) = 3 /\ \A i \in 1..3 : all[i] = <<a, b, c>>[i]
    BY <2>4
  <2>6. all = <<a, b, c>>
    BY <2>2, <2>4, <2>5, SeqEqual
  <2>7. QED
    BY <2>2, <2>3, <2>6 DEF IsList
<1>5. QED
  BY <1>1, <1>2, <1>3, <1>4, Joined

(***************************************************************************)
(* Plain calls joined, and taken one by one.                               *)
(***************************************************************************)
LEMMA PlainLists ==
  ASSUME NEW d
  PROVE  /\ Plain(<<>>, d) /\ \A s : Plain(s, d) => IsList(s)
         /\ \A a : PlainCall(a, d) => Plain(<<a>>, d)
         /\ \A a, b : PlainCall(a, d) /\ PlainCall(b, d) => Plain(<<a, b>>, d)
         /\ \A a, b, c : PlainCall(a, d) /\ PlainCall(b, d) /\ PlainCall(c, d) => Plain(<<a, b, c>>, d)
         /\ \A s, t : Plain(s, d) /\ Plain(t, d) => Plain(s \o t, d)
         /\ \A s : Plain(s, d) /\ s # <<>> => PlainCall(Head(s), d) /\ Plain(Tail(s), d)
<1>1. Plain(<<>>, d)
  <2>1. PICK S : S = {}
    OBVIOUS
  <2>2. <<>> \in Seq(S) /\ \A c \in S : PlainCall(c, d)
    BY <2>1
  <2>3. QED
    BY <2>2 DEF Plain
<1>2. ASSUME NEW a, PlainCall(a, d) PROVE Plain(<<a>>, d)
  <2>1. PICK S : S = {a}
    OBVIOUS
  <2>2. <<a>> \in Seq(S) /\ \A c \in S : PlainCall(c, d)
    BY <1>2, <2>1
  <2>3. QED
    BY <2>2 DEF Plain
<1>3. ASSUME NEW a, NEW b, PlainCall(a, d), PlainCall(b, d) PROVE Plain(<<a, b>>, d)
  <2>1. PICK S : S = {a, b}
    OBVIOUS
  <2>2. <<a, b>> \in Seq(S) /\ \A c \in S : PlainCall(c, d)
    BY <1>3, <2>1
  <2>3. QED
    BY <2>2 DEF Plain
<1>4. ASSUME NEW a, NEW b, NEW c, PlainCall(a, d), PlainCall(b, d), PlainCall(c, d) PROVE Plain(<<a, b, c>>, d)
  <2>1. PICK S : S = {a, b, c}
    OBVIOUS
  <2>2. <<a, b, c>> \in Seq(S) /\ \A e \in S : PlainCall(e, d)
    BY <1>4, <2>1
  <2>3. QED
    BY <2>2 DEF Plain
<1>5. ASSUME NEW s, NEW t, Plain(s, d), Plain(t, d) PROVE Plain(s \o t, d)
  <2>1. PICK S : s \in Seq(S) /\ \A c \in S : PlainCall(c, d)
    BY <1>5 DEF Plain
  <2>2. PICK T : t \in Seq(T) /\ \A c \in T : PlainCall(c, d)
    BY <1>5 DEF Plain
  <2>3. s \in Seq(S \cup T) /\ t \in Seq(S \cup T)
    BY <2>1, <2>2, SeqMonotonic
  <2>4. s \o t \in Seq(S \cup T)
    BY <2>3, ConcatProperties
  <2>5. QED
    BY <2>1, <2>2, <2>4 DEF Plain
<1>6. ASSUME NEW s, Plain(s, d), s # <<>> PROVE PlainCall(Head(s), d) /\ Plain(Tail(s), d)
  <2>1. PICK S : s \in Seq(S) /\ \A c \in S : PlainCall(c, d)
    BY <1>6 DEF Plain
  <2>2. Head(s) \in S /\ Tail(s) \in Seq(S)
    BY <1>6, <2>1, HeadTailProperties
  <2>3. QED
    BY <2>1, <2>2 DEF Plain
<1>7. \A s : Plain(s, d) => IsList(s)
  BY DEF Plain, IsList
<1>8. QED
  BY <1>1, <1>2, <1>3, <1>4, <1>5, <1>6, <1>7

(***************************************************************************)
(* The serial that a command takes is the database's only one.             *)
(***************************************************************************)
LEMMA TheSerial ==
  ASSUME NEW d, NEW m, Counter(d, m)
  PROVE  NextSerial(d) = m /\ m \in Nat /\ Cardinality(Name) \in Nat /\ \A n \in Name : n < m => Held(n, d)
<1>1. m \in 1..(Cardinality(Name) + 1) /\ Serial(m) \in d /\ \A k : Serial(k) \in d => k = m
  BY DEF Counter
<1>2. NextSerial(d) = m
  BY <1>1 DEF NextSerial
<1>3. Cardinality(Name) \in Nat
  BY Names
<1>4. QED
  BY <1>1, <1>2, <1>3 DEF Held

(***************************************************************************)
(* Rows of different kinds are different.                                  *)
(***************************************************************************)
LEMMA CertTags ==
  /\ \A n, s : Cert(n, s)[1] = "cert" /\ Ignored(n)[1] = "ignored" /\ Gone(n)[1] = "gone" /\ Serial(n)[1] = "next"
               /\ Published(n)[1] = "published"
  /\ \A n, k, s, t : Cert(n, s) = Cert(k, t) => n = k /\ s = t
  /\ \A n, k : (Gone(n) = Gone(k) => n = k) /\ (Serial(n) = Serial(k) => n = k)
  /\ \A n, k, s : Cert(n, s) # Ignored(k) /\ Cert(n, s) # Gone(k) /\ Cert(n, s) # Serial(k) /\ Ignored(n) # Gone(k)
                  /\ Ignored(n) # Serial(k) /\ Gone(n) # Serial(k)
BY DEF Cert, Ignored, Gone, Serial, Published

(***************************************************************************)
(* What the scan writes is of certificates there are.                      *)
(***************************************************************************)
LEMMA ScanPlain ==
  ASSUME NEW d, NEW m, Counter(d, m)
  PROVE  /\ \A R : PlainWrite(Process(d, R), d)
         /\ PlainWrite([old |-> {}, new |-> {}], d)
         /\ \A p \in Scans(d) : PlainWrite(p, d)
         /\ \A n \in Known(d) : Held(n, d)
<1>1. \A n, s : Cert(n, s) \in d => Held(n, d)
  BY TheSerial DEF Counter
<1>2. \A n \in Known(d) : Held(n, d)
  BY <1>1 DEF Known, Statuses
<1>3. ASSUME NEW R PROVE PlainWrite(Process(d, R), d)
  <2>1. PICK old : old = {n \in Known(d) \cap past : ~Is(d, n, "Expired")}
    OBVIOUS
  <2>2. PICK rev : rev = {n \in R \ past : Is(d, n, "Valid")}
    OBVIOUS
  <2>3. /\ Process(d, R).old = UNION {{Cert(n, s) : s \in Statuses(d, n)} : n \in old \cup rev}
        /\ Process(d, R).new = {Cert(n, "Expired") : n \in old} \cup {Cert(n, "Revoked") : n \in rev}
    BY <2>1, <2>2 DEF Process
  <2>4. \A r \in Process(d, R).old \cup Process(d, R).new : r[1] = "cert"
    BY <2>3, CertTags
  <2>5. \A n : Gone(n) \notin Process(d, R).new /\ Cert(n, "Valid") \notin Process(d, R).new
    BY <2>3, CertTags
  <2>6. ASSUME NEW n, NEW s, Cert(n, s) \in Process(d, R).new PROVE Held(n, d)
    <3>1. n \in old \/ n \in rev
      BY <2>3, <2>6, CertTags
    <3>2. n \in old => Held(n, d)
      BY <2>1, <1>2
    <3>3. n \in rev => Held(n, d)
      BY <2>2, <1>1 DEF Is
    <3>4. QED
      BY <3>1, <3>2, <3>3
  <2>7. \A k : Serial(k) \notin Process(d, R).old \cup Process(d, R).new
    BY <2>4, CertTags
  <2>8. QED
    BY <2>5, <2>6, <2>7 DEF PlainWrite
<1>4. PlainWrite([old |-> {}, new |-> {}], d)
  BY DEF PlainWrite
<1>5. QED
  BY <1>2, <1>3, <1>4 DEF Scans

(***************************************************************************)
(* The calls that neither issue nor delete.                                *)
(***************************************************************************)
LEMMA PlainKinds ==
  ASSUME NEW d
  PROVE  /\ \A t : PlainCall(Read(t), d) /\ PlainCall(Softly(Read(t)), d)
         /\ \A n : PlainCall(Call("publish", n), d) /\ PlainCall(Softly(Call("publish", n)), d)
                   /\ PlainCall(Call("put_crl", n), d)
                   /\ PlainCall(Store({}, {Ignored(n)}), d) /\ PlainCall(Store({Ignored(n)}, {}), d)
         /\ PlainCall(Refuse, d) /\ PlainCall(Save, d) /\ PlainCall(Softly(Save), d)
         /\ \A p : PlainWrite(p, d) => PlainCall(Call("rows", p), d) /\ PlainCall(Call("store", p), d)
                                       /\ PlainCall(Softly(Call("store", p)), d)
<1>1. \A t : PlainCall(Read(t), d) /\ PlainCall(Softly(Read(t)), d)
  BY DEF PlainCall, Read, Call, Softly
<1>2. \A n : PlainCall(Call("publish", n), d) /\ PlainCall(Softly(Call("publish", n)), d)
             /\ PlainCall(Call("put_crl", n), d)
  BY DEF PlainCall, Call, Softly
<1>3. ASSUME NEW p, PlainWrite(p, d)
      PROVE  PlainCall(Call("rows", p), d) /\ PlainCall(Call("store", p), d) /\ PlainCall(Softly(Call("store", p)), d)
  BY <1>3 DEF PlainCall, Call, Softly
<1>4. ASSUME NEW n PROVE PlainCall(Store({}, {Ignored(n)}), d) /\ PlainCall(Store({Ignored(n)}, {}), d)
  <2>1. PlainWrite([old |-> {}, new |-> {Ignored(n)}], d) /\ PlainWrite([old |-> {Ignored(n)}, new |-> {}], d)
    BY CertTags DEF PlainWrite
  <2>2. QED
    BY <2>1, <1>3 DEF Store
<1>5. PlainCall(Save, d) /\ PlainCall(Softly(Save), d)
  <2>1. PlainWrite([old |-> {}, new |-> {}], d)
    BY DEF PlainWrite
  <2>2. QED
    BY <2>1, <1>3 DEF Save, Store
<1>6. PlainCall(Refuse, d)
  BY DEF PlainCall, Refuse, Call
<1>7. QED
  BY <1>1, <1>2, <1>3, <1>4, <1>5, <1>6

(***************************************************************************)
(* The lists that neither issue nor delete.                                *)
(***************************************************************************)
LEMMA PlainCommands ==
  ASSUME NEW d, NEW m, Counter(d, m)
  PROVE  /\ \A o : Plain(RevokeCalls(d, o), d)
         /\ \A n : Plain(IgnoreCalls(n), d) /\ Plain(UnignoreCalls(n), d) /\ Plain(PublishCalls(n), d)
         /\ \A e : Plain(CrlCalls(e), d)
         /\ \A p, e : PlainWrite(p, d) => Plain(<<Call("rows", p)>>, d) /\ Plain(<<Call("rows", p)>> \o CrlCalls(e), d)
                                          /\ Plain(<<Softly(Call("store", p))>>, d)
         /\ \A t : Plain(<<Softly(Read(t)), Softly(Save)>>, d)
         /\ Plain(<<Refuse>>, d) /\ Plain(<<>>, d)
<1>1. \A e : Plain(CrlCalls(e), d)
  BY PlainKinds, PlainLists DEF CrlCalls
<1>2. \A o : Plain(RevokeCalls(d, o), d)
  BY PlainKinds, PlainLists, ScanPlain DEF RevokeCalls
<1>3. \A n : Plain(IgnoreCalls(n), d) /\ Plain(UnignoreCalls(n), d) /\ Plain(PublishCalls(n), d)
  BY PlainKinds, PlainLists DEF IgnoreCalls, UnignoreCalls, PublishCalls
<1>4. ASSUME NEW p, NEW e, PlainWrite(p, d)
      PROVE  Plain(<<Call("rows", p)>>, d) /\ Plain(<<Call("rows", p)>> \o CrlCalls(e), d)
             /\ Plain(<<Softly(Call("store", p))>>, d)
  BY <1>1, <1>4, PlainKinds, PlainLists
<1>5. Plain(<<Refuse>>, d) /\ Plain(<<>>, d) /\ \A t : Plain(<<Softly(Read(t)), Softly(Save)>>, d)
  BY PlainKinds, PlainLists
<1>6. QED
  BY <1>1, <1>2, <1>3, <1>4, <1>5

(***************************************************************************)
(* The lists that issue a certificate.                                     *)
(***************************************************************************)
LEMMA IssueLists ==
  ASSUME NEW d, NEW m, Counter(d, m)
  PROVE  /\ Numbering(CreateCalls(d), m, d)
         /\ \A o : \E t : (\E rest : RenewCalls(d, o) = <<Read(t)>> \o rest /\ Numbering(rest, m, d))
                          /\ \E rest : RekeyCalls(d, o) = <<Read(t)>> \o rest /\ Numbering(rest, m, d)
<1> DEFINE a == Rows({Serial(m)}, {Serial(m + 1)})
           b == Create(CrtItem(m))
<1>1. IssueCalls(d) = <<a, b>>
  BY TheSerial DEF IssueCalls
<1>2. ASSUME NEW s, Recorded(s, m, d), IsList(s)
      PROVE  /\ Numbering(<<a, b>> \o s, m, d) /\ IsList(<<a, b>> \o s)
             /\ \A r : (<<r>> \o <<a, b>>) \o s = <<r>> \o (<<a, b>> \o s)
  <2>1. <<a, b>> = <<a>> \o <<b>> /\ IsList(<<b>>) /\ IsList(<<a>>) /\ IsList(<<a, b>>) /\ IsList(<<>>)
    BY ShortLists
  <2>c. \A x, y, t : IsList(y) /\ IsList(t) => (<<x>> \o y) \o t = <<x>> \o (y \o t) /\ IsList(y \o t)
    BY Consed
  <2>2. <<a, b>> \o s = <<a>> \o (<<b>> \o s)
    <3>1. (<<a>> \o <<b>>) \o s = <<a>> \o (<<b>> \o s)
      BY <1>2, <2>1, <2>c
    <3>2. QED
      BY <2>1, <3>1
  <2>3. Made(<<b>> \o s, m, d)
    BY <1>2 DEF Made
  <2>4. Numbering(<<a>> \o (<<b>> \o s), m, d)
    BY <2>3 DEF Numbering
  <2>5. \A r : (<<r>> \o <<a, b>>) \o s = <<r>> \o (<<a, b>> \o s)
    BY <1>2, <2>1, <2>c
  <2>6. IsList(<<a, b>> \o s)
    BY <1>2, <2>1, <2>c
  <2>7. QED
    BY <2>2, <2>4, <2>5, <2>6
<1> HIDE DEF a, b
<1>3. ASSUME NEW S PROVE \A r \in Issued(d, S) : r = Cert(m, "Valid") \/ r[1] = "ignored"
  BY TheSerial, CertTags DEF Issued
<1>r. ASSUME NEW c, NEW rest, NEW new, c \in {Store({}, new), Rows({}, new)}, Plain(rest, d),
             \A r \in new : r = Cert(m, "Valid") \/ r[1] = "ignored"
      PROVE  Recorded(<<c>> \o rest, m, d)
  BY <1>r DEF Recorded
<1>4. ASSUME NEW S PROVE Recorded(<<Store({}, Issued(d, S))>>, m, d) /\ IsList(<<Store({}, Issued(d, S))>>)
  <2>1. PICK new : new = Issued(d, S)
    OBVIOUS
  <2>2. <<Store({}, new)>> = <<Store({}, new)>> \o <<>> /\ Plain(<<>>, d)
    BY ShortLists, Consed, PlainLists
  <2>3. QED
    <3>1. \A r \in new : r = Cert(m, "Valid") \/ r[1] = "ignored"
      BY <1>3, <2>1
    <3>2. Recorded(<<Store({}, new)>> \o <<>>, m, d)
      <4>1. PICK rest : rest = <<>>
        OBVIOUS
      <4>2. Plain(rest, d)
        BY <2>2, <4>1
      <4>3. Recorded(<<Store({}, new)>> \o rest, m, d)
        BY <1>r, <3>1, <4>2
      <4>4. QED
        BY <4>1, <4>3
    <3>3. Recorded(<<Store({}, new)>>, m, d) /\ IsList(<<Store({}, new)>>)
      BY <2>2, <3>2, ShortLists
    <3>4. QED
      BY <2>1, <3>3
<1>5. ASSUME NEW S, NEW n
      PROVE  /\ Recorded(<<Rows({}, Issued(d, S)), Softly(Call("publish", n)), Save>>, m, d)
             /\ IsList(<<Rows({}, Issued(d, S)), Softly(Call("publish", n)), Save>>)
  <2>1. PICK new : new = Issued(d, S)
    OBVIOUS
  <2>2. Plain(<<Softly(Call("publish", n)), Save>>, d)
    BY PlainKinds, PlainLists
  <2>3. <<Rows({}, new), Softly(Call("publish", n)), Save>> = <<Rows({}, new)>> \o <<Softly(Call("publish", n)), Save>>
    BY ShortLists
  <2>4. QED
    <3>1. \A r \in new : r = Cert(m, "Valid") \/ r[1] = "ignored"
      BY <1>3, <2>1
    <3>2. Recorded(<<Rows({}, new)>> \o <<Softly(Call("publish", n)), Save>>, m, d)
      BY <1>r, <2>2, <3>1
    <3>3. Recorded(<<Rows({}, new), Softly(Call("publish", n)), Save>>, m, d)
          /\ IsList(<<Rows({}, new), Softly(Call("publish", n)), Save>>)
      BY <2>3, <3>2, ShortLists
    <3>4. QED
      BY <2>1, <3>3
<1>6. Numbering(CreateCalls(d), m, d)
  BY <1>1, <1>2, <1>4 DEF CreateCalls
<1>7. ASSUME NEW o
      PROVE  \E t : (\E rest : RenewCalls(d, o) = <<Read(t)>> \o rest /\ Numbering(rest, m, d))
                    /\ \E rest : RekeyCalls(d, o) = <<Read(t)>> \o rest /\ Numbering(rest, m, d)
  <2>1. PICK last : /\ last = (IF Published(o) \in d
                               THEN <<Rows({}, Issued(d, {o})), Softly(Call("publish", NextSerial(d))), Save>>
                               ELSE <<Store({}, Issued(d, {o}))>>)
                    /\ RenewCalls(d, o) = <<Read(CrtItem(o))>> \o <<a, b>> \o last
    BY <1>1 DEF RenewCalls
  <2>2. Recorded(last, m, d) /\ IsList(last)
    BY <2>1, <1>4, <1>5
  <2>3. RenewCalls(d, o) = <<Read(CrtItem(o))>> \o (<<a, b>> \o last) /\ Numbering(<<a, b>> \o last, m, d)
    BY <2>1, <2>2, <1>2
  <2>4. PICK one : one = <<Store({}, Issued(d, {o}))>> /\ Recorded(one, m, d) /\ IsList(one)
    BY <1>4
  <2>5. RekeyCalls(d, o) = <<Read(CrtItem(o))>> \o (<<a, b>> \o one) /\ Numbering(<<a, b>> \o one, m, d)
    BY <1>1, <1>2, <2>4 DEF RekeyCalls
  <2>6. QED
    BY <2>3, <2>5
<1>8. QED
  BY <1>6, <1>7

(***************************************************************************)
(* No call makes the stored database unreadable when it has its effect.    *)
(***************************************************************************)
LEMMA BadKept ==
  ASSUME Formed, NEW c
  PROVE  VaultAfter(c).bad \in {vault.bad, FALSE}
<1>f. vault = [f \in VaultFields |-> vault[f]]
  BY DEF Formed
<1> USE <1>f DEF VaultFields
<1>1. CASE c.do = "store" \/ c.do \in {"new_db", "replace_db"}
  <2>1. PICK d : VaultAfter(c) = Saved(d)
    <3>1. c.do = "store" => VaultAfter(c) = Saved(Written(c))
      BY ZenonT(60), CallsDo
    <3>2. c.do \in {"new_db", "replace_db"} => VaultAfter(c) = Saved(c.of)
      BY CallsDo
    <3>3. QED
      BY <1>1, <3>1, <3>2
  <2>2. Saved(d).bad = FALSE
    BY DEF Saved
  <2>3. QED
    BY <2>1, <2>2
<1>2. CASE c.do \in {"create", "put", "archive", "archive_if_there"}
  <2>1. \/ VaultAfter(c) = [vault EXCEPT !.items[c.of] = More(@)]
        \/ VaultAfter(c) = [vault EXCEPT !.items[c.of] = 1]
        \/ VaultAfter(c) = [vault EXCEPT !.items[c.of] = 0]
    BY <1>2, CallsDo
  <2>2. QED
    BY <2>1
<1>3. CASE c.do \in {"keep", "take", "write_file"}
  <2>1. \/ VaultAfter(c) = [vault EXCEPT !.kept = Keep(@, db)]
        \/ VaultAfter(c) = [vault EXCEPT !.draft = Take(@, c.of)]
        \/ VaultAfter(c) = [vault EXCEPT !.file = vault.draft, !.draft = NoFile]
    BY <1>3, CallsDo
  <2>2. QED
    BY <2>1
<1>4. CASE c.do \in {"put_crl", "publish"}
  <2>1. \/ VaultAfter(c) = [vault EXCEPT !.items[<<"CRL", 0>>] = 1, !.crl = c.of]
        \/ VaultAfter(c) = [vault EXCEPT !.public = @ \cup {c.of}]
    BY <1>4, CallsDo
  <2>2. QED
    BY <2>1
<1>5. CASE c.do \in {"note_fields", "archive_note", "remove_fields"}
  <2>1. \/ VaultAfter(c) = [vault EXCEPT !.copy = @ \cup vault.fields]
        \/ VaultAfter(c) = [vault EXCEPT !.notes = @ \cup vault.copy, !.copy = {}]
        \/ VaultAfter(c) = [vault EXCEPT !.fields = {}]
    BY <1>5, CallsDo
  <2>2. QED
    BY <2>1
<1>6. CASE c.do \notin {"create", "put", "archive", "archive_if_there", "store", "new_db", "replace_db", "keep",
                        "take", "write_file", "put_crl", "publish", "note_fields", "archive_note", "remove_fields"}
  BY <1>6, CallsDo
<1>7. QED
  BY <1>1, <1>2, <1>3, <1>4, <1>5, <1>6

(***************************************************************************)
(* The database after a call: as it was, or written and maybe saved.       *)
(***************************************************************************)
LEMMA Settles ==
  ASSUME Numbered, Closed(db), Closed(vault.saved), client # "none", client' = client,
         NEW d, NEW j, NEW k, Counter(db, j), j <= k, Counter(d, k),
         (db' = db /\ vault'.saved = vault.saved) \/ (db' = d /\ vault'.saved \in {vault.saved, d}),
         \A n \in Name : Gone(n) \in d => Cert(n, "Valid") \notin d /\ vault'.items[CrtItem(n)] = 0,
         \A n \in Name : Gone(n) \in db \/ Gone(n) \in vault.saved => vault'.items[CrtItem(n)] = 0
  PROVE  Numbered' /\ Closed(db)' /\ Closed(vault.saved)'
<1>1. PICK m : Counter(vault.saved, m) /\ m <= j /\ m \in Nat /\ j \in Nat /\ k \in Nat
  <2>1. PICK m, i : Counter(vault.saved, m) /\ Counter(db, i) /\ m <= i
    BY DEF Numbered
  <2>2. i = j
    BY <2>1 DEF Counter
  <2>3. QED
    BY <2>1, <2>2, TheSerial
<1>2. \A e, i : Counter(e, i)' = Counter(e, i)
  BY DEF Counter
<1>3. Numbered'
  <2>1. CASE db' = db /\ vault'.saved = vault.saved
    BY <1>1, <2>1 DEF Numbered, Counter
  <2>2. CASE db' = d /\ vault'.saved = vault.saved
    <3>1. m <= k
      BY <1>1
    <3>2. QED
      BY <1>1, <2>2, <3>1 DEF Numbered, Counter
  <2>3. CASE db' = d /\ vault'.saved = d
    <3>1. k <= k
      BY <1>1
    <3>2. QED
      BY <2>3, <3>1 DEF Numbered, Counter
  <2>4. QED
    BY <2>1, <2>2, <2>3
<1>4. QED
  BY <1>3 DEF Closed

(***************************************************************************)
(* As the serial rises, what was plain or left of an issue still is.       *)
(***************************************************************************)
LEMMA StaysPlain ==
  ASSUME NEW d, NEW e, \A n : Held(n, d) => Held(n, e)
  PROVE  /\ \A s : Plain(s, d) => Plain(s, e)
         /\ \A s, n : Recorded(s, n, d) => Recorded(s, n, e)
         /\ \A s, n : Made(s, n, d) => Made(s, n, e)
         /\ \A s, n : Numbering(s, n, d) => Numbering(s, n, e)
<1>1. \A c : PlainCall(c, d) => PlainCall(c, e)
  BY DEF PlainCall, PlainWrite
<1>2. \A s : Plain(s, d) => Plain(s, e)
  BY <1>1 DEF Plain
<1>3. \A s, n : Recorded(s, n, d) => Recorded(s, n, e)
  BY <1>2 DEF Recorded
<1>4. \A s, n : Made(s, n, d) => Made(s, n, e)
  BY <1>3 DEF Made
<1>5. QED
  BY <1>2, <1>3, <1>4 DEF Numbering

(***************************************************************************)
(* The shapes are of lists.                                                *)
(***************************************************************************)
LEMMA IssueShapes ==
  ASSUME NEW s, NEW n, NEW d
  PROVE  /\ Recorded(s, n, d) => IsList(s)
         /\ Made(s, n, d) => IsList(s)
         /\ Numbering(s, n, d) => IsList(s)
<1>c. \A a, t : IsList(t) => IsList(<<a>> \o t)
  BY Consed
<1>1. ASSUME NEW r, Recorded(r, n, d) PROVE IsList(r)
  <2>1. PICK c, rest, new : r = <<c>> \o rest /\ Plain(rest, d) /\ c \in {Store({}, new), Rows({}, new)}
    BY <1>1 DEF Recorded
  <2>2. IsList(rest)
    BY <2>1, PlainLists
  <2>3. QED
    BY <1>c, <2>1, <2>2
<1>2. ASSUME NEW r, Made(r, n, d) PROVE IsList(r)
  <2>1. PICK rest : r = <<Create(CrtItem(n))>> \o rest /\ Recorded(rest, n, d)
    BY <1>2 DEF Made
  <2>2. QED
    BY <1>c, <1>1, <2>1
<1>3. ASSUME NEW r, Numbering(r, n, d) PROVE IsList(r)
  <2>1. PICK rest : r = <<Rows({Serial(n)}, {Serial(n + 1)})>> \o rest /\ Made(rest, n, d)
    BY <1>3 DEF Numbering
  <2>2. QED
    BY <1>c, <1>2, <2>1
<1>4. QED
  BY <1>1, <1>2, <1>3

\* The calls of these commands.
CertCall(c) ==
    \/ c.do \in {"read", "publish", "put_crl", "refuse", "rows", "store"}
    \/ c.do \in {"create", "archive_if_there"} /\ \E n \in Name : c.of = CrtItem(n)

(***************************************************************************)
(* What they do to the database and to the items.                          *)
(***************************************************************************)
LEMMA CertEffect ==
  ASSUME Formed, Counted, area # "ca", ~vault.bad, NEW c, Done(c) \/ Lost(c), CertCall(c)
  PROVE  /\ ~vault'.bad
         /\ \/ db' = db /\ vault'.saved = vault.saved
            \/ db' = DbAfter(c) /\ vault'.saved \in {vault.saved, DbAfter(c)}
         /\ \A k \in Name : \/ vault'.items[CrtItem(k)] = vault.items[CrtItem(k)]
                            \/ c.do = "create" /\ c.of = CrtItem(k)
                            \/ c.do = "archive_if_there" /\ c.of = CrtItem(k) /\ vault'.items[CrtItem(k)] = 0
         /\ Done(c) => db' = DbAfter(c)
         /\ \A k \in Name : Done(c) /\ c.do = "archive_if_there" /\ c.of = CrtItem(k) => vault'.items[CrtItem(k)] = 0
<1>1. vault' = vault \/ vault' = VaultAfter(c)
  BY DEF Done, Lost
<1>2. ~vault'.bad
  BY <1>1, BadKept
<1>3. c.do \notin {"put", "archive", "new_db", "replace_db"}
  BY DEF CertCall
<1>4. ASSUME vault' = VaultAfter(c)
      PROVE  /\ vault'.saved = vault.saved \/ (c.do = "store" /\ vault'.saved = Written(c))
             /\ c.do = "publish" => vault'.saved = vault.saved
             /\ \/ vault'.items = vault.items
                \/ c.do = "create" /\ vault'.items = [vault.items EXCEPT ![c.of] = More(@)]
                \/ c.do = "archive_if_there" /\ vault'.items = [vault.items EXCEPT ![c.of] = 0]
                \/ c.do = "store" /\ vault'.items = [vault.items EXCEPT ![DbItem] = 1]
                \/ c.do = "put_crl" /\ vault'.items = [vault.items EXCEPT ![CrlItem] = 1]
  <2>1. /\ \/ vault'.items = vault.items
           \/ c.do = "create" /\ vault'.items = [vault.items EXCEPT ![c.of] = More(@)]
           \/ c.do = "put" /\ vault'.items = [vault.items EXCEPT ![c.of] = 1]
           \/ c.do \in {"archive", "archive_if_there"} /\ vault'.items = [vault.items EXCEPT ![c.of] = 0]
           \/ c.do \in {"store", "new_db", "replace_db"} /\ vault'.items = [vault.items EXCEPT ![DbItem] = 1]
           \/ c.do = "put_crl" /\ vault'.items = [vault.items EXCEPT ![CrlItem] = 1]
        /\ \/ vault'.saved = vault.saved
           \/ c.do = "store" /\ vault'.saved = Written(c)
           \/ c.do \in {"new_db", "replace_db"} /\ vault'.saved = c.of
        /\ c.do = "publish" => vault'.saved = vault.saved
    BY <1>4, PartsChanged
  <2>2. QED
    BY <1>3, <2>1
<1>5. \/ db' = db /\ vault'.saved = vault.saved
      \/ db' = DbAfter(c) /\ vault'.saved \in {vault.saved, DbAfter(c)}
  <2>1. CASE c.do = "publish"
    <3>1. Written(c) = db
      BY <2>1 DEF Written
    <3>2. vault'.saved = vault.saved
      BY <1>1, <1>4, <2>1
    <3>3. QED
      BY <3>1, <3>2 DEF Done, Lost
  <2>2. CASE c.do # "publish"
    <3>1. DbAfter(c) = Written(c)
      BY <2>2 DEF DbAfter
    <3>2. vault'.saved \in {vault.saved, Written(c)}
      BY <1>1, <1>4
    <3>3. QED
      BY <3>1, <3>2 DEF Done, Lost
  <2>3. QED
    BY <2>1, <2>2
<1>6. ASSUME NEW k \in Name
      PROVE  /\ \/ vault'.items[CrtItem(k)] = vault.items[CrtItem(k)]
                \/ c.do = "create" /\ c.of = CrtItem(k)
                \/ c.do = "archive_if_there" /\ c.of = CrtItem(k) /\ vault'.items[CrtItem(k)] = 0
             /\ Done(c) /\ c.do = "archive_if_there" /\ c.of = CrtItem(k) => vault'.items[CrtItem(k)] = 0
  <2>1. CrtItem(k) \in Title /\ CrtItem(k) # DbItem /\ CrtItem(k) # CrlItem
    BY Titles DEF CrtItem, DbItem, CrlItem
  <2>2. CASE c.do \in {"create", "archive_if_there"}
    <3>1. PICK n \in Name : c.of = CrtItem(n)
      BY <2>2 DEF CertCall
    <3>2. c.of \in Title
      BY <3>1, Titles
    <3>3. CASE vault' = vault
      <4>1. Done(c) /\ c.do = "archive_if_there" => vault'.items = [vault.items EXCEPT ![c.of] = 0]
        BY <3>2, CallsLeave DEF Done, ItemsAre
      <4>2. QED
        BY <2>1, <3>2, <3>3, <4>1 DEF Counted
    <3>4. CASE vault' = VaultAfter(c)
      <4>1. c.do = "create" => vault'.items = [vault.items EXCEPT ![c.of] = More(@)]
        BY <3>2, <3>4, CallsLeave DEF ItemsAre
      <4>2. c.do = "archive_if_there" => vault'.items = [vault.items EXCEPT ![c.of] = 0]
        BY <3>2, <3>4, CallsLeave DEF ItemsAre
      <4>3. QED
        BY <2>1, <2>2, <3>2, <4>1, <4>2 DEF Counted
    <3>5. QED
      BY <1>1, <3>3, <3>4
  <2>3. CASE c.do \notin {"create", "archive_if_there"}
    BY <1>1, <1>4, <2>1, <2>3 DEF Counted
  <2>4. QED
    BY <2>2, <2>3
<1>7. Done(c) => db' = DbAfter(c)
  BY DEF Done
<1>8. QED
  BY <1>2, <1>5, <1>6, <1>7

(***************************************************************************)
(* What a plain call writes neither issues nor deletes.                    *)
(***************************************************************************)
LEMMA PlainWrites ==
  ASSUME NEW j, Counter(db, j), NEW c, PlainCall(c, db)
  PROVE  /\ Counter(DbAfter(c), j)
         /\ \A n : Gone(n) \in DbAfter(c) => Gone(n) \in db
         /\ \A n : Cert(n, "Valid") \in DbAfter(c) => Cert(n, "Valid") \in db
<1>1. CASE c.do = "publish"
  <2>1. DbAfter(c) = {r \in db : r[1] # "published"} \cup {Published(c.of)}
    BY <1>1 DEF DbAfter, Published
  <2>2. QED
    BY <2>1, CertTags DEF Counter
<1>2. CASE c.do \in {"rows", "store"}
  <2>1. DbAfter(c) = (db \ c.of.old) \cup c.of.new /\ PlainWrite(c.of, db)
    BY <1>2 DEF DbAfter, Written, PlainCall
  <2>2. \A n : Held(n, db) => n \in Name /\ n < j
    BY DEF Held, Counter
  <2>3. QED
    BY <2>1, <2>2 DEF Counter, PlainWrite
<1>3. CASE c.do \in {"read", "put_crl", "refuse"}
  BY <1>3 DEF DbAfter, Written
<1>4. QED
  BY <1>1, <1>2, <1>3 DEF PlainCall

(***************************************************************************)
(* With the state settled, what is left to do is what is still to show.    *)
(***************************************************************************)
LEMMA CertSettles ==
  ASSUME DeletedInv, Formed, Counted, area # "ca", client # "none", client' = client,
         run'.cmd = run.cmd, run'.todo = run.todo,
         NEW c, Done(c) \/ Lost(c), CertCall(c),
         NEW j, NEW k, Counter(db, j), j <= k, Counter(DbAfter(c), k), Spare(k),
         \A n \in Name : Gone(n) \in DbAfter(c) => Cert(n, "Valid") \notin DbAfter(c) /\ vault'.items[CrtItem(n)] = 0,
         c.do = "create" => \A n \in Name : c.of = CrtItem(n) => Gone(n) \notin db \cup vault.saved
  PROVE  /\ (CertToDo(run.calls))' => DeletedInv'
         /\ SpareNow'
         /\ \A n : Held(n, db) => Held(n, db')
<1>1. PICK d : d = DbAfter(c)
  OBVIOUS
<1>2. /\ ~vault'.bad
      /\ (db' = db /\ vault'.saved = vault.saved) \/ (db' = d /\ vault'.saved \in {vault.saved, d})
  BY <1>1, CertEffect DEF DeletedInv
<1>3. ASSUME NEW n \in Name, Gone(n) \in db \/ Gone(n) \in vault.saved PROVE vault'.items[CrtItem(n)] = 0
  <2>1. vault.items[CrtItem(n)] = 0
    BY <1>3 DEF DeletedInv, Closed
  <2>2. \/ vault'.items[CrtItem(n)] = vault.items[CrtItem(n)]
        \/ c.do = "create" /\ c.of = CrtItem(n)
        \/ c.do = "archive_if_there" /\ c.of = CrtItem(n) /\ vault'.items[CrtItem(n)] = 0
    BY CertEffect DEF DeletedInv
  <2>3. QED
    BY <1>3, <2>1, <2>2
<1>4. Numbered' /\ Closed(db)' /\ Closed(vault.saved)'
  BY <1>1, <1>2, <1>3, Settles DEF DeletedInv
<1>5. j \in Nat /\ k \in Nat /\ Cardinality(Name) \in Nat
  BY <1>1, TheSerial
<1>6. \A i : Serial(i) \in db' => i \in {j, k}
  BY <1>1, <1>2 DEF Counter
<1>7. Spare(j)
  <2>1. Len(run.todo) \in Nat
    BY LenProperties DEF DeletedInv, IsList
  <2>2. QED
    BY <1>5, <2>1 DEF Spare
<1>8. \A i : Spare(i)' = Spare(i)
  BY DEF Spare
<1>9. SpareNow'
  BY <1>6, <1>7, <1>8 DEF SpareNow
<1>10. \A n : Held(n, db) => Held(n, db')
  <2>1. ASSUME NEW n, Held(n, db) PROVE Held(n, db')
    <3>1. n \in Name /\ n < j /\ n \in Nat
      BY <2>1, Names DEF Held, Counter
    <3>2. Serial(j) \in db' \/ Serial(k) \in db'
      BY <1>1, <1>2 DEF Counter
    <3>3. QED
      BY <1>5, <3>1, <3>2 DEF Held
  <2>2. QED
    BY <2>1
<1>11. (CertToDo(run.calls))' => DeletedInv'
  BY <1>2, <1>4 DEF DeletedInv, IsList
<1>12. QED
  BY <1>9, <1>10, <1>11

(***************************************************************************)
(* The first call of a list, and the ones after it.                        *)
(***************************************************************************)
LEMMA Firsts ==
  /\ \A a, s : IsList(s) => Head(<<a>> \o s) = a /\ Tail(<<a>> \o s) = s
  /\ \A a : Head(<<a>>) = a /\ Tail(<<a>>) = <<>>
  /\ \A a, b : Head(<<a, b>>) = a /\ Tail(<<a, b>>) = <<b>>
  /\ \A a, b, c : Head(<<a, b, c>>) = a /\ Tail(<<a, b, c>>) = <<b, c>>
<1>1. \A a, s : IsList(s) => Head(<<a>> \o s) = a /\ Tail(<<a>> \o s) = s
  BY Consed
<1>2. \A a : <<a>> = <<a>> \o <<>>
  <2>1. IsList(<<>>)
    BY ShortLists
  <2>2. QED
    BY <2>1, Consed
<1>3. IsList(<<>>) /\ (\A b : IsList(<<b>>)) /\ \A b, c : IsList(<<b, c>>)
  BY ShortLists
<1>4. \A a : Head(<<a>>) = a /\ Tail(<<a>>) = <<>>
  BY <1>1, <1>2, <1>3
<1>5. \A a, b : <<a, b>> = <<a>> \o <<b>>
  BY ShortLists
<1>6. ASSUME NEW a, NEW b PROVE Head(<<a, b>>) = a /\ Tail(<<a, b>>) = <<b>>
  <2>1. PICK s : s = <<b>>
    OBVIOUS
  <2>2. IsList(s) /\ <<a, b>> = <<a>> \o s
    BY <1>3, <1>5, <2>1
  <2>3. Head(<<a>> \o s) = a /\ Tail(<<a>> \o s) = s
    BY <1>1, <2>2
  <2>4. QED
    BY <2>1, <2>2, <2>3
<1>7. \A a, b, c : <<a, b, c>> = <<a>> \o <<b, c>>
  BY ShortLists
<1>8. ASSUME NEW a, NEW b, NEW c PROVE Head(<<a, b, c>>) = a /\ Tail(<<a, b, c>>) = <<b, c>>
  <2>1. PICK s : s = <<b, c>>
    OBVIOUS
  <2>2. IsList(s) /\ <<a, b, c>> = <<a>> \o s
    BY <1>3, <1>7, <2>1
  <2>3. Head(<<a>> \o s) = a /\ Tail(<<a>> \o s) = s
    BY <1>1, <2>2
  <2>4. QED
    BY <2>1, <2>2, <2>3
<1>9. QED
  BY <1>1, <1>4, <1>6, <1>8

(***************************************************************************)
(* A call of the commands on certificates, done or lost.                   *)
(***************************************************************************)
CertStep(c) ==
    /\ DeletedInv /\ Formed /\ Counted /\ area # "ca" /\ client # "none" /\ client' = client
    /\ run'.cmd = run.cmd /\ run'.todo = run.todo /\ run.calls # <<>> /\ c = Head(run.calls) /\ (Done(c) \/ Lost(c))

(***************************************************************************)
(* Of a list that neither issues nor deletes.                              *)
(***************************************************************************)
LEMMA PlainStep ==
  ASSUME NEW c, CertStep(c), Plain(run.calls, db), SpareNow
  PROVE  DeletedInv'
<1> USE DEF CertStep
<1>1. PICK j : Counter(db, j) /\ j <= j /\ Spare(j)
  <2>1. PICK m, i : Counter(vault.saved, m) /\ Counter(db, i) /\ m <= i
    BY DEF DeletedInv, Numbered
  <2>2. i \in Nat
    BY <2>1, TheSerial
  <2>3. Spare(i) /\ i <= i
    BY <2>1, <2>2 DEF SpareNow, Counter
  <2>4. QED
    BY <2>1, <2>3
<1>2. PlainCall(c, db) /\ Plain(Tail(run.calls), db) /\ Plain(<<>>, db)
  BY PlainLists
<1>3. /\ Counter(DbAfter(c), j)
      /\ \A n : Gone(n) \in DbAfter(c) => Gone(n) \in db
      /\ \A n : Cert(n, "Valid") \in DbAfter(c) => Cert(n, "Valid") \in db
  BY <1>1, <1>2, PlainWrites
<1>4. CertCall(c) /\ c.do \notin {"create", "archive_if_there"}
  BY <1>2 DEF PlainCall, CertCall
<1>5. ASSUME NEW n \in Name, Gone(n) \in DbAfter(c)
      PROVE  Cert(n, "Valid") \notin DbAfter(c) /\ vault'.items[CrtItem(n)] = 0
  <2>1. Cert(n, "Valid") \notin db /\ vault.items[CrtItem(n)] = 0
    BY <1>3, <1>5 DEF DeletedInv, Closed
  <2>2. vault'.items[CrtItem(n)] = vault.items[CrtItem(n)]
    BY <1>4, CertEffect DEF DeletedInv
  <2>3. QED
    BY <1>3, <2>1, <2>2
<1>6. /\ (CertToDo(run.calls))' => DeletedInv'
      /\ SpareNow' /\ \A n : Held(n, db) => Held(n, db')
  BY <1>1, <1>3, <1>4, <1>5, CertSettles
<1>7. run'.calls = <<>> \/ run'.calls = Tail(run.calls)
  BY DEF Done, Lost
<1>8. PICK rest : rest = run'.calls /\ Plain(rest, db)
  BY <1>2, <1>7
<1>9. Plain(rest, db')
  BY <1>6, <1>8, StaysPlain
<1>10. QED
  BY <1>6, <1>8, <1>9 DEF CertToDo

(***************************************************************************)
(* Of a list that stops when its call is lost.                             *)
(***************************************************************************)
LEMMA CertStops ==
  ASSUME NEW c, CertStep(c), Lost(c), c.on = "stop", SpareNow', (CertToDo(run.calls))' => DeletedInv'
  PROVE  DeletedInv'
<1>1. run'.calls = <<>>
  BY DEF Lost
<1>2. Plain(<<>>, db')
  BY PlainLists
<1>3. QED
  BY <1>1, <1>2 DEF CertToDo

(***************************************************************************)
(* Of a list that issues: the certificate replaced is read.                *)
(***************************************************************************)
LEMMA IssueReadStep ==
  ASSUME NEW c, CertStep(c), NEW n \in Name, IssueRead(run.calls, n), Spare(n + 1)
  PROVE  DeletedInv'
<1> USE DEF CertStep
<1>1. PICK t, rest : run.calls = <<Read(t)>> \o rest /\ Numbering(rest, n, db) /\ Serial(n) \in db
  BY DEF IssueRead, IssueSerial
<1>2. c = Read(t) /\ Tail(run.calls) = rest
  BY <1>1, IssueShapes, Firsts
<1>3. PICK j : Counter(db, j) /\ j <= j /\ j = n /\ j \in Nat
  <2>1. PICK i : Counter(db, i) /\ i \in Nat
    BY TheSerial DEF DeletedInv, Numbered
  <2>2. i <= i /\ i = n
    BY <1>1, <2>1 DEF Counter
  <2>3. QED
    BY <2>1, <2>2
<1>4. Spare(j)
  <2>1. Len(run.todo) \in Nat
    BY LenProperties DEF DeletedInv, IsList
  <2>2. QED
    BY <1>3, <2>1, Names DEF Spare
<1>5. c.do = "read" /\ c.on = "stop" /\ CertCall(c) /\ DbAfter(c) = db
  BY <1>2 DEF Read, Call, CertCall, DbAfter, Written
<1>6. ASSUME NEW i \in Name, Gone(i) \in db PROVE Cert(i, "Valid") \notin db /\ vault'.items[CrtItem(i)] = 0
  BY <1>5, <1>6, CertEffect DEF DeletedInv, Closed
<1>7. /\ (CertToDo(run.calls))' => DeletedInv'
      /\ SpareNow' /\ \A i : Held(i, db) => Held(i, db')
  BY <1>3, <1>4, <1>5, <1>6, CertSettles
<1>8. CASE Done(c)
  <2>1. run'.calls = rest /\ db' = db
    BY <1>2, <1>5, <1>8 DEF Done
  <2>2. Numbering(rest, n, db')
    BY <1>1, <2>1
  <2>3. IssueSerial(run.calls, n)' /\ Spare(n + 1)'
    BY <1>1, <2>1, <2>2 DEF IssueSerial, Spare
  <2>4. QED
    BY <1>7, <2>3 DEF CertToDo
<1>9. QED
  BY <1>5, <1>7, <1>8, CertStops

(***************************************************************************)
(* The serial is spent: the row of it comes after.                         *)
(***************************************************************************)
LEMMA IssueSerialStep ==
  ASSUME NEW c, CertStep(c), NEW n \in Name, IssueSerial(run.calls, n), Spare(n + 1)
  PROVE  DeletedInv'
<1> USE DEF CertStep
<1>1. PICK rest : /\ run.calls = <<Rows({Serial(n)}, {Serial(n + 1)})>> \o rest
                  /\ Made(rest, n, db) /\ Serial(n) \in db
  BY DEF IssueSerial, Numbering
<1>2. c = Rows({Serial(n)}, {Serial(n + 1)}) /\ Tail(run.calls) = rest
  BY <1>1, IssueShapes, Firsts
<1>3. PICK m : Counter(db, n) /\ Counter(vault.saved, m) /\ m <= n /\ m \in Nat /\ n \in 1..Cardinality(Name)
               /\ Cardinality(Name) \in Nat
  <2>1. PICK m, i : Counter(vault.saved, m) /\ Counter(db, i) /\ m <= i
    BY DEF DeletedInv, Numbered
  <2>2. i = n
    BY <1>1, <2>1 DEF Counter
  <2>3. QED
    BY <2>1, <2>2, TheSerial, Names
<1>4. /\ c.do = "rows" /\ c.on = "stop" /\ CertCall(c)
      /\ DbAfter(c) = (db \ {Serial(n)}) \cup {Serial(n + 1)}
  BY <1>2 DEF Rows, Call, CertCall, DbAfter, Written
<1>5. Counter(DbAfter(c), n + 1)
  <2>1. n + 1 \in 1..(Cardinality(Name) + 1) /\ \A i \in Name : i < n => i < n + 1
    BY <1>3, Names
  <2>2. \A k : Serial(k) \in DbAfter(c) => k = n + 1
    BY <1>3, <1>4, CertTags DEF Counter
  <2>3. \A i : Gone(i) \in DbAfter(c) \/ (\E s : Cert(i, s) \in DbAfter(c)) => Gone(i) \in db \/ (\E s : Cert(i, s) \in db)
    BY <1>4, CertTags
  <2>4. \A i : Gone(i) \in DbAfter(c) \/ (\E s : Cert(i, s) \in DbAfter(c)) => i \in Name /\ i < n + 1
    BY <1>3, <2>1, <2>3 DEF Counter
  <2>5. QED
    BY <1>4, <2>1, <2>2, <2>4 DEF Counter
<1>6. ASSUME NEW i \in Name, Gone(i) \in DbAfter(c)
      PROVE  Cert(i, "Valid") \notin DbAfter(c) /\ vault'.items[CrtItem(i)] = 0
  <2>1. Gone(i) \in db
    BY <1>4, <1>6, CertTags
  <2>2. Cert(i, "Valid") \notin db /\ vault.items[CrtItem(i)] = 0
    BY <2>1 DEF DeletedInv, Closed
  <2>3. vault'.items[CrtItem(i)] = vault.items[CrtItem(i)]
    BY <1>4, CertEffect DEF DeletedInv
  <2>4. QED
    BY <1>4, <2>2, <2>3, CertTags
<1>7. n <= n + 1
  BY <1>3
<1>8. /\ (CertToDo(run.calls))' => DeletedInv'
      /\ SpareNow' /\ \A i : Held(i, db) => Held(i, db')
  BY <1>3, <1>4, <1>5, <1>6, <1>7, CertSettles
<1>9. CASE Done(c)
  <2>1. run'.calls = rest /\ db' = DbAfter(c) /\ vault'.saved \in {vault.saved, db'}
    BY <1>2, <1>4, <1>9, CertEffect DEF Done, DeletedInv
  <2>2. Made(rest, n, db')
    BY <1>1, <1>8, StaysPlain
  <2>3. Gone(n) \notin db /\ Gone(n) \notin vault.saved
    BY <1>3 DEF Counter
  <2>4. Gone(n) \notin db' /\ Gone(n) \notin vault'.saved /\ Serial(n + 1) \in db'
    BY <1>4, <2>1, <2>3, CertTags
  <2>5. IssueItem(run.calls, n)'
    BY <2>1, <2>2, <2>4 DEF IssueItem
  <2>6. QED
    BY <1>8, <2>5 DEF CertToDo
<1>10. QED
  BY <1>4, <1>8, <1>9, CertStops

(***************************************************************************)
(* The item is made: no certificate of the serial was deleted.             *)
(***************************************************************************)
LEMMA IssueItemStep ==
  ASSUME NEW c, CertStep(c), NEW n \in Name, IssueItem(run.calls, n), SpareNow
  PROVE  DeletedInv'
<1> USE DEF CertStep
<1>1. PICK rest : /\ run.calls = <<Create(CrtItem(n))>> \o rest /\ Recorded(rest, n, db)
                  /\ Serial(n + 1) \in db /\ Gone(n) \notin db /\ Gone(n) \notin vault.saved
  BY DEF IssueItem, Made
<1>2. c = Create(CrtItem(n)) /\ Tail(run.calls) = rest
  BY <1>1, IssueShapes, Firsts
<1>3. PICK j : Counter(db, j) /\ j <= j /\ Spare(j)
  <2>1. PICK i : Counter(db, i) /\ i \in Nat
    BY TheSerial DEF DeletedInv, Numbered
  <2>2. i <= i /\ Spare(i)
    BY <2>1 DEF Counter, SpareNow
  <2>3. QED
    BY <2>1, <2>2
<1>4. c.do = "create" /\ c.on = "stop" /\ c.of = CrtItem(n) /\ CertCall(c) /\ DbAfter(c) = db
  BY <1>2 DEF Create, Call, CertCall, DbAfter, Written
<1>5. \A i \in Name : c.of = CrtItem(i) => i = n
  BY <1>4 DEF CrtItem
<1>6. ASSUME NEW i \in Name, Gone(i) \in db PROVE Cert(i, "Valid") \notin db /\ vault'.items[CrtItem(i)] = 0
  <2>1. Cert(i, "Valid") \notin db /\ vault.items[CrtItem(i)] = 0
    BY <1>6 DEF DeletedInv, Closed
  <2>2. i # n
    BY <1>1, <1>6
  <2>3. vault'.items[CrtItem(i)] = vault.items[CrtItem(i)]
    BY <1>4, <1>5, <2>2, CertEffect DEF DeletedInv
  <2>4. QED
    BY <2>1, <2>3
<1>7. \A i \in Name : c.of = CrtItem(i) => Gone(i) \notin db \cup vault.saved
  BY <1>1, <1>5
<1>8. /\ (CertToDo(run.calls))' => DeletedInv'
      /\ SpareNow' /\ \A i : Held(i, db) => Held(i, db')
  BY <1>3, <1>4, <1>6, <1>7, CertSettles
<1>9. CASE Done(c)
  <2>1. run'.calls = rest /\ db' = db
    BY <1>2, <1>4, <1>9 DEF Done
  <2>2. Recorded(rest, n, db')
    BY <1>1, <2>1
  <2>3. IssueRow(run.calls, n)'
    BY <1>1, <2>1, <2>2 DEF IssueRow
  <2>4. QED
    BY <1>8, <2>3 DEF CertToDo
<1>10. QED
  BY <1>4, <1>8, <1>9, CertStops

(***************************************************************************)
(* The row is written, and what follows is plain.                          *)
(***************************************************************************)
LEMMA IssueRowStep ==
  ASSUME NEW c, CertStep(c), NEW n \in Name, IssueRow(run.calls, n), SpareNow
  PROVE  DeletedInv'
<1> USE DEF CertStep
<1>1. PICK e, rest, new : /\ run.calls = <<e>> \o rest /\ Plain(rest, db) /\ e \in {Store({}, new), Rows({}, new)}
                          /\ \A r \in new : r = Cert(n, "Valid") \/ r[1] = "ignored"
                          /\ Serial(n + 1) \in db /\ Gone(n) \notin db
  BY DEF IssueRow, Recorded
<1>2. c = e /\ Tail(run.calls) = rest
  <2>1. IsList(rest)
    BY <1>1, PlainLists
  <2>2. QED
    BY <1>1, <2>1, Firsts
<1>3. PICK j : Counter(db, j) /\ j <= j /\ Spare(j) /\ j = n + 1 /\ n < j
  <2>1. PICK i : Counter(db, i) /\ i \in Nat
    BY TheSerial DEF DeletedInv, Numbered
  <2>2. i = n + 1 /\ Spare(i)
    BY <1>1, <2>1 DEF Counter, SpareNow
  <2>3. i <= i /\ n < i
    BY <2>1, <2>2, Names
  <2>4. QED
    BY <2>1, <2>2, <2>3
<1>4. c.do \in {"store", "rows"} /\ c.on = "stop" /\ CertCall(c) /\ DbAfter(c) = db \cup new
  BY <1>1, <1>2 DEF Store, Rows, Call, CertCall, DbAfter, Written
<1>5. \A k : Serial(k) \notin new /\ Gone(k) \notin new /\ \A s : Cert(k, s) \in new => k = n
  <2>1. ASSUME NEW k, NEW r \in new, r = Serial(k) \/ r = Gone(k) PROVE FALSE
    <3>1. r = Cert(n, "Valid") \/ r[1] = "ignored"
      BY <1>1, <2>1
    <3>2. QED
      BY <2>1, <3>1 DEF Cert, Serial, Gone
  <2>2. ASSUME NEW k, NEW s, Cert(k, s) \in new PROVE k = n
    <3>1. Cert(k, s) = Cert(n, "Valid") \/ Cert(k, s)[1] = "ignored"
      BY <1>1, <2>2
    <3>2. QED
      BY <3>1 DEF Cert
  <2>3. QED
    BY <2>1, <2>2
<1>6. Counter(DbAfter(c), j)
  BY <1>3, <1>4, <1>5 DEF Counter
<1>7. ASSUME NEW i \in Name, Gone(i) \in DbAfter(c)
      PROVE  Cert(i, "Valid") \notin DbAfter(c) /\ vault'.items[CrtItem(i)] = 0
  <2>1. Gone(i) \in db /\ i # n
    BY <1>1, <1>4, <1>5, <1>7
  <2>2. Cert(i, "Valid") \notin db /\ vault.items[CrtItem(i)] = 0
    BY <2>1 DEF DeletedInv, Closed
  <2>3. vault'.items[CrtItem(i)] = vault.items[CrtItem(i)]
    BY <1>4, CertEffect DEF DeletedInv
  <2>4. QED
    BY <1>4, <1>5, <2>1, <2>2, <2>3
<1>8. /\ (CertToDo(run.calls))' => DeletedInv'
      /\ SpareNow' /\ \A i : Held(i, db) => Held(i, db')
  BY <1>3, <1>4, <1>6, <1>7, CertSettles
<1>9. CASE Done(c)
  <2>1. run'.calls = rest
    BY <1>2, <1>9 DEF Done
  <2>2. Plain(rest, db')
    BY <1>1, <1>8, StaysPlain
  <2>3. QED
    BY <1>8, <2>1, <2>2 DEF CertToDo
<1>10. QED
  BY <1>4, <1>8, <1>9, CertStops

(***************************************************************************)
(* Of a list that deletes, after its scan: the item goes, then the row is  *)
(* marked.                                                                 *)
(***************************************************************************)
LEMMA DeleteScanStep ==
  ASSUME NEW c, CertStep(c), NEW n \in Name, DeleteScan(run.calls, n), SpareNow
  PROVE  DeletedInv'
<1> USE DEF CertStep
<1>1. PICK p : /\ run.calls = <<Call("rows", p), ArchiveIfThere(CrtItem(n)), Store({}, {Ignored(n), Gone(n)})>>
               /\ PlainWrite(p, db) /\ Held(n, db) /\ Cert(n, "Valid") \notin (db \ p.old) \cup p.new
  BY DEF DeleteScan
<1>2. c = Call("rows", p) /\ Tail(run.calls) = <<ArchiveIfThere(CrtItem(n)), Store({}, {Ignored(n), Gone(n)})>>
  BY <1>1, Firsts
<1>3. PICK j : Counter(db, j) /\ j <= j /\ Spare(j)
  <2>1. PICK i : Counter(db, i) /\ i \in Nat
    BY TheSerial DEF DeletedInv, Numbered
  <2>2. i <= i /\ Spare(i)
    BY <2>1 DEF Counter, SpareNow
  <2>3. QED
    BY <2>1, <2>2
<1>4. /\ c.do = "rows" /\ c.on = "stop" /\ CertCall(c) /\ PlainCall(c, db)
      /\ DbAfter(c) = (db \ p.old) \cup p.new
  BY <1>1, <1>2 DEF Call, CertCall, DbAfter, Written, PlainCall
<1>5. /\ Counter(DbAfter(c), j)
      /\ \A i : Gone(i) \in DbAfter(c) => Gone(i) \in db
      /\ \A i : Cert(i, "Valid") \in DbAfter(c) => Cert(i, "Valid") \in db
  BY <1>3, <1>4, PlainWrites
<1>6. ASSUME NEW i \in Name, Gone(i) \in DbAfter(c)
      PROVE  Cert(i, "Valid") \notin DbAfter(c) /\ vault'.items[CrtItem(i)] = 0
  <2>1. Cert(i, "Valid") \notin db /\ vault.items[CrtItem(i)] = 0
    BY <1>5, <1>6 DEF DeletedInv, Closed
  <2>2. vault'.items[CrtItem(i)] = vault.items[CrtItem(i)]
    BY <1>4, CertEffect DEF DeletedInv
  <2>3. QED
    BY <1>5, <2>1, <2>2
<1>7. /\ (CertToDo(run.calls))' => DeletedInv'
      /\ SpareNow' /\ \A i : Held(i, db) => Held(i, db')
  BY <1>3, <1>4, <1>5, <1>6, CertSettles
<1>8. CASE Done(c)
  <2>1. run'.calls = <<ArchiveIfThere(CrtItem(n)), Store({}, {Ignored(n), Gone(n)})>> /\ db' = DbAfter(c)
    BY <1>2, <1>8 DEF Done
  <2>2. Held(n, db') /\ Cert(n, "Valid") \notin db'
    BY <1>1, <1>4, <1>7, <2>1
  <2>3. DeleteItem(run.calls, n)'
    BY <2>1, <2>2 DEF DeleteItem
  <2>4. QED
    BY <1>7, <2>3 DEF CertToDo
<1>9. QED
  BY <1>4, <1>7, <1>8, CertStops

(***************************************************************************)
(* The item is archived, or was already.                                   *)
(***************************************************************************)
LEMMA DeleteItemStep ==
  ASSUME NEW c, CertStep(c), NEW n \in Name, DeleteItem(run.calls, n), SpareNow
  PROVE  DeletedInv'
<1> USE DEF CertStep
<1>1. /\ run.calls = <<ArchiveIfThere(CrtItem(n)), Store({}, {Ignored(n), Gone(n)})>>
      /\ Held(n, db) /\ Cert(n, "Valid") \notin db
  BY DEF DeleteItem
<1>2. c = ArchiveIfThere(CrtItem(n)) /\ Tail(run.calls) = <<Store({}, {Ignored(n), Gone(n)})>>
  BY <1>1, Firsts
<1>3. PICK j : Counter(db, j) /\ j <= j /\ Spare(j)
  <2>1. PICK i : Counter(db, i) /\ i \in Nat
    BY TheSerial DEF DeletedInv, Numbered
  <2>2. i <= i /\ Spare(i)
    BY <2>1 DEF Counter, SpareNow
  <2>3. QED
    BY <2>1, <2>2
<1>4. c.do = "archive_if_there" /\ c.on = "stop" /\ c.of = CrtItem(n) /\ CertCall(c) /\ DbAfter(c) = db
  BY <1>2 DEF ArchiveIfThere, Call, CertCall, DbAfter, Written
<1>5. ASSUME NEW i \in Name, Gone(i) \in db PROVE Cert(i, "Valid") \notin db /\ vault'.items[CrtItem(i)] = 0
  <2>1. Cert(i, "Valid") \notin db /\ vault.items[CrtItem(i)] = 0
    BY <1>5 DEF DeletedInv, Closed
  <2>2. vault'.items[CrtItem(i)] \in {vault.items[CrtItem(i)], 0}
    BY <1>4, CertEffect DEF DeletedInv
  <2>3. QED
    BY <2>1, <2>2
<1>6. /\ (CertToDo(run.calls))' => DeletedInv'
      /\ SpareNow' /\ \A i : Held(i, db) => Held(i, db')
  BY <1>3, <1>4, <1>5, CertSettles
<1>7. CASE Done(c)
  <2>1. run'.calls = <<Store({}, {Ignored(n), Gone(n)})>> /\ db' = db
    BY <1>2, <1>4, <1>7 DEF Done
  <2>2. vault'.items[CrtItem(n)] = 0
    BY <1>4, <1>7, CertEffect DEF DeletedInv
  <2>3. DeleteRow(run.calls, n)'
    <3>1. Held(n, db') /\ Cert(n, "Valid") \notin db'
      BY <1>1, <2>1
    <3>2. QED
      BY <2>1, <2>2, <3>1 DEF DeleteRow
  <2>4. QED
    BY <1>6, <2>3 DEF CertToDo
<1>8. QED
  BY <1>4, <1>6, <1>7, CertStops

(***************************************************************************)
(* The row is marked once the item is gone.                                *)
(***************************************************************************)
LEMMA DeleteRowStep ==
  ASSUME NEW c, CertStep(c), NEW n \in Name, DeleteRow(run.calls, n), SpareNow
  PROVE  DeletedInv'
<1> USE DEF CertStep
<1>1. /\ run.calls = <<Store({}, {Ignored(n), Gone(n)})>>
      /\ Held(n, db) /\ Cert(n, "Valid") \notin db /\ vault.items[CrtItem(n)] = 0
  BY DEF DeleteRow
<1>2. c = Store({}, {Ignored(n), Gone(n)}) /\ Tail(run.calls) = <<>>
  BY <1>1, Firsts
<1>3. PICK j : Counter(db, j) /\ j <= j /\ Spare(j) /\ n < j
  <2>1. PICK i : Counter(db, i) /\ i \in Nat
    BY TheSerial DEF DeletedInv, Numbered
  <2>2. i <= i /\ Spare(i) /\ n < i
    BY <1>1, <2>1 DEF Counter, SpareNow, Held
  <2>3. QED
    BY <2>1, <2>2
<1>4. c.do = "store" /\ c.on = "stop" /\ CertCall(c) /\ DbAfter(c) = db \cup {Ignored(n), Gone(n)}
  BY <1>2 DEF Store, Call, CertCall, DbAfter, Written
<1>5. Counter(DbAfter(c), j)
  <2>1. \A k : Serial(k) \in DbAfter(c) => Serial(k) \in db
    BY <1>4, CertTags
  <2>2. \A i, s : Cert(i, s) \in DbAfter(c) => Cert(i, s) \in db
    BY <1>4, CertTags
  <2>3. \A i : Gone(i) \in DbAfter(c) => Gone(i) \in db \/ i = n
    BY <1>4, CertTags
  <2>4. QED
    BY <1>3, <1>4, <2>1, <2>2, <2>3 DEF Counter
<1>6. ASSUME NEW i \in Name, Gone(i) \in DbAfter(c)
      PROVE  Cert(i, "Valid") \notin DbAfter(c) /\ vault'.items[CrtItem(i)] = 0
  <2>1. Gone(i) \in db \/ i = n
    BY <1>4, <1>6, CertTags
  <2>2. Cert(i, "Valid") \notin db /\ vault.items[CrtItem(i)] = 0
    BY <1>1, <2>1 DEF DeletedInv, Closed
  <2>3. vault'.items[CrtItem(i)] = vault.items[CrtItem(i)]
    BY <1>4, CertEffect DEF DeletedInv
  <2>4. QED
    BY <1>4, <2>2, <2>3, CertTags
<1>7. /\ (CertToDo(run.calls))' => DeletedInv'
      /\ SpareNow' /\ \A i : Held(i, db) => Held(i, db')
  BY <1>3, <1>4, <1>5, <1>6, CertSettles
<1>8. CASE Done(c)
  <2>1. run'.calls = <<>>
    BY <1>2, <1>8 DEF Done
  <2>2. Plain(<<>>, db')
    BY PlainLists
  <2>3. QED
    BY <1>7, <2>1, <2>2 DEF CertToDo
<1>9. QED
  BY <1>4, <1>7, <1>8, CertStops

(***************************************************************************)
(* Whatever becomes of a call, what was deleted stays so.                  *)
(***************************************************************************)
LEMMA DeletedCallStep ==
  ASSUME DeletedInv, Formed, Counted, area # "ca", Succeeds \/ Refused \/ Fails
  PROVE  DeletedInv'
<1>1. PICK c : CertStep(c)
  BY CallSteps DEF CertStep
<1>2. CASE SpareNow /\ Plain(run.calls, db)
  BY <1>1, <1>2, PlainStep
<1>3. ASSUME SpareNow, NEW n \in Name, \/ IssueItem(run.calls, n) \/ IssueRow(run.calls, n) \/ DeleteRow(run.calls, n)
                                       \/ DeleteItem(run.calls, n) \/ DeleteScan(run.calls, n)
      PROVE  DeletedInv'
  BY <1>1, <1>3, IssueItemStep, IssueRowStep, DeleteRowStep, DeleteItemStep, DeleteScanStep
<1>4. ASSUME NEW n \in Name, IssueRead(run.calls, n) \/ IssueSerial(run.calls, n), Spare(n + 1) PROVE DeletedInv'
  BY <1>1, <1>4, IssueReadStep, IssueSerialStep
<1>5. CertToDo(run.calls)
  BY DEF DeletedInv
<1>6. QED
  BY <1>2, <1>3, <1>4, <1>5 DEF CertToDo

(***************************************************************************)
(* Between two calls the database is kept, loaded or dropped.              *)
(***************************************************************************)
Between ==
    /\ vault' = vault
    /\ \/ client # "none" /\ db' = db
       \/ client' = "none" /\ db' = {}
       \/ db' = Retrieved

(***************************************************************************)
(* So what is left to do is what is to show.                               *)
(***************************************************************************)
LEMMA BetweenSettles ==
  ASSUME DeletedInv, Between, IsList(run'.todo)
  PROVE  /\ (CertToDo(run.calls))' => DeletedInv'
         /\ client' # "none" => \E k : Counter(db', k)
<1>1. PICK m : Counter(vault.saved, m) /\ m \in Nat /\ m <= m
  BY TheSerial DEF DeletedInv, Numbered
<1>2. Retrieved = vault.saved
  BY DEF DeletedInv, Retrieved
<1>3. \A d, k : Counter(d, k)' = Counter(d, k)
  BY DEF Counter
<1>4. \/ client # "none" /\ db' = db /\ vault' = vault
      \/ client' = "none" /\ db' = {} /\ vault' = vault
      \/ db' = vault.saved /\ vault' = vault
  BY <1>2 DEF Between
<1>5. Closed(db)' /\ Closed(vault.saved)' /\ ~vault'.bad
  BY <1>4 DEF DeletedInv, Closed
<1>6. Numbered' /\ (client' # "none" => \E k : Counter(db', k))
  <2>1. CASE client # "none" /\ db' = db /\ vault' = vault
    <3>1. PICK i, k : Counter(vault.saved, i) /\ Counter(db, k) /\ i <= k
      BY <2>1 DEF DeletedInv, Numbered
    <3>2. QED
      BY <1>3, <2>1, <3>1 DEF Numbered, Counter
  <2>2. CASE client' = "none" /\ db' = {} /\ vault' = vault
    BY <1>1, <1>3, <2>2 DEF Numbered, Counter
  <2>3. CASE db' = vault.saved /\ vault' = vault
    BY <1>1, <1>3, <2>3 DEF Numbered, Counter
  <2>4. QED
    BY <1>4, <2>1, <2>2, <2>3
<1>7. (CertToDo(run.calls))' => DeletedInv'
  BY <1>5, <1>6 DEF DeletedInv, IsList
<1>8. QED
  BY <1>6, <1>7

(***************************************************************************)
(* A command without a list of serials.                                    *)
(***************************************************************************)
LEMMA SingleStart ==
  ASSUME DeletedInv, NEW cmd, NEW calls, NEW d, d \in {db, vault.saved},
         (d = db /\ InApp(cmd, calls)) \/ (d = vault.saved /\ InCli(cmd, calls, <<>>)),
         \/ Plain(calls, d)
         \/ /\ cmd \notin {"renew", "rekey"}
            /\ \E n \in Name : Serial(n) \in d /\ Numbering(calls, n, d)
  PROVE  DeletedInv'
<1>1. vault' = vault /\ run'.calls = calls /\ run'.todo = <<>> /\ run'.cmd = cmd /\ client' # "none"
  BY DEF InApp, InCli, Started, Idle
<1>2. Retrieved = vault.saved
  BY DEF DeletedInv, Retrieved
<1>3. Between /\ db' = d
  BY <1>1, <1>2 DEF Between, InApp, InCli
<1>4. IsList(run'.todo)
  BY <1>1, ShortLists
<1>5. PICK k : Counter(db', k) /\ ((CertToDo(run.calls))' => DeletedInv')
  BY <1>1, <1>3, <1>4, BetweenSettles
<1>6. SpareNow'
  <2>1. Len(run'.todo) = 0
    BY <1>1
  <2>2. \A i : Serial(i) \in db' => i <= Cardinality(Name) + 1 /\ i \in Nat
    BY <1>5, TheSerial DEF Counter
  <2>3. \A i : Serial(i) \in db' => Spare(i)'
    BY <2>1, <2>2 DEF Spare
  <2>4. QED
    BY <2>3 DEF SpareNow
<1>7. CASE Plain(calls, d)
  <2>1. Plain(calls, db')
    BY <1>3, <1>7
  <2>2. QED
    BY <1>1, <1>5, <1>6, <2>1 DEF CertToDo
<1>8. CASE cmd \notin {"renew", "rekey"} /\ \E n \in Name : Serial(n) \in d /\ Numbering(calls, n, d)
  <2>1. PICK n \in Name : Serial(n) \in db' /\ Numbering(calls, n, db')
    BY <1>3, <1>8
  <2>2. IssueSerial(run.calls, n)' /\ Spare(n + 1)'
    BY <1>1, <1>8, <2>1 DEF IssueSerial, Spare
  <2>3. QED
    BY <1>5, <2>2 DEF CertToDo
<1>9. QED
  BY <1>7, <1>8

(***************************************************************************)
(* A command with one, which has a serial for each renewal and rekey.      *)
(***************************************************************************)
LEMMA ListStart ==
  ASSUME DeletedInv, NEW cmd, NEW todo, IsList(todo), InAppFor(cmd, todo) \/ InCliFor(cmd, todo)
  PROVE  DeletedInv'
<1>1. vault' = vault /\ run'.calls = <<>> /\ run'.todo = todo /\ run'.cmd = cmd /\ client' # "none"
  BY DEF InAppFor, InCliFor, BulkInApp, InCli, Started, Idle
<1>2. Retrieved = vault.saved
  BY DEF DeletedInv, Retrieved
<1>3. Between /\ Room(db', cmd, todo)
  BY <1>1, <1>2 DEF Between, InAppFor, InCliFor, BulkInApp, InCli
<1>4. IsList(run'.todo)
  BY <1>1
<1>5. PICK k : Counter(db', k) /\ ((CertToDo(run.calls))' => DeletedInv')
  BY <1>1, <1>3, <1>4, BetweenSettles
<1>6. NextSerial(db') = k /\ k \in Nat /\ Cardinality(Name) \in Nat
  BY <1>5, TheSerial
<1>7. SpareNow'
  <2>1. PICK l \in Nat : l = Len(todo)
    BY <1>4, <1>1, LenProperties DEF IsList
  <2>2. cmd \in {"renew", "rekey"} => k + l - 1 \in 1..Cardinality(Name)
    BY <1>3, <1>6, <2>1, Names DEF Room
  <2>3. cmd \in {"renew", "rekey"} => k + l <= Cardinality(Name) + 1
    BY <1>6, <2>2
  <2>4. \A i : Serial(i) \in db' => i = k
    BY <1>5 DEF Counter
  <2>5. QED
    BY <1>1, <2>1, <2>3, <2>4 DEF SpareNow, Spare
<1>8. Plain(<<>>, db')
  BY PlainLists
<1>9. QED
  BY <1>1, <1>5, <1>7, <1>8 DEF CertToDo

(***************************************************************************)
(* What is called for a serial: plain calls, an issue or a delete.         *)
(***************************************************************************)
LEMMA ItemLists ==
  ASSUME NEW m, Counter(db, m), NEW cmd \in ItemCommands, NEW n
  PROVE  \/ Plain(ItemCalls(cmd, n), db)
         \/ cmd \in {"renew", "rekey"} /\ IssueRead(ItemCalls(cmd, n), m)
         \/ n \in Name /\ DeleteScan(ItemCalls(cmd, n), n)
<1>1. CASE n = 0
  <2>1. ItemCalls(cmd, n) = IF Won = {} THEN <<>> ELSE CrlCalls(db)
    BY <1>1 DEF ItemCalls
  <2>2. QED
    BY <2>1, PlainCommands
<1>2. CASE n # 0 /\ ~For(db, cmd, n)
  <2>1. ItemCalls(cmd, n) = <<Refuse>>
    BY <1>2 DEF ItemCalls
  <2>2. QED
    BY <2>1, PlainCommands
<1>3. CASE n # 0 /\ For(db, cmd, n)
  <2>1. /\ cmd = "revoke" => ItemCalls(cmd, n) = RevokeCalls(db, n)
        /\ cmd = "renew" => ItemCalls(cmd, n) = RenewCalls(db, n)
        /\ cmd = "rekey" => ItemCalls(cmd, n) = RekeyCalls(db, n)
        /\ cmd = "delete" => ItemCalls(cmd, n) = DeleteCalls(db, n)
        /\ cmd = "ignore" => ItemCalls(cmd, n) = IgnoreCalls(n)
        /\ cmd = "unignore" => ItemCalls(cmd, n) = UnignoreCalls(n)
        /\ cmd = "publish" => ItemCalls(cmd, n) = PublishCalls(n)
    BY <1>3 DEF ItemCalls
  <2>2. CASE cmd \in {"revoke", "ignore", "unignore", "publish"}
    BY <2>1, <2>2, PlainCommands
  <2>3. CASE cmd \in {"renew", "rekey"}
    <3>1. PICK calls : calls = ItemCalls(cmd, n)
      OBVIOUS
    <3>2. PICK t : /\ \E rest : RenewCalls(db, n) = <<Read(t)>> \o rest /\ Numbering(rest, m, db)
                   /\ \E rest : RekeyCalls(db, n) = <<Read(t)>> \o rest /\ Numbering(rest, m, db)
      BY IssueLists
    <3>3. PICK rest : calls = <<Read(t)>> \o rest /\ Numbering(rest, m, db)
      BY <2>1, <2>3, <3>1, <3>2
    <3>4. Serial(m) \in db
      BY DEF Counter
    <3>5. IssueRead(calls, m)
      BY <3>3, <3>4 DEF IssueRead, IssueSerial
    <3>6. QED
      BY <2>3, <3>1, <3>5
  <2>4. CASE cmd = "delete"
    <3>1. n \in Known(db)
      BY <1>3, <2>4 DEF For
    <3>2. n \in Name /\ Held(n, db)
      BY <3>1, ScanPlain DEF Known
    <3>3. PICK p : p = Process(db, {}) /\ PlainWrite(p, db)
      BY ScanPlain
    <3>4. ItemCalls(cmd, n) = IF Cert(n, "Valid") \in (db \ p.old) \cup p.new THEN <<Call("rows", p), Refuse>>
                              ELSE <<Call("rows", p), ArchiveIfThere(CrtItem(n)), Store({}, {Ignored(n), Gone(n)})>>
      BY <2>1, <2>4, <3>3 DEF DeleteCalls, Is, After
    <3>5. Plain(<<Call("rows", p), Refuse>>, db)
      BY <3>3, PlainKinds, PlainLists
    <3>6. CASE Cert(n, "Valid") \notin (db \ p.old) \cup p.new
      <4>1. PICK calls : calls = ItemCalls(cmd, n)
        OBVIOUS
      <4>2. calls = <<Call("rows", p), ArchiveIfThere(CrtItem(n)), Store({}, {Ignored(n), Gone(n)})>>
        BY <3>4, <3>6, <4>1
      <4>3. DeleteScan(calls, n)
        BY <3>2, <3>3, <3>6, <4>2 DEF DeleteScan
      <4>4. QED
        BY <3>2, <4>1, <4>3
    <3>7. QED
      BY <3>4, <3>5, <3>6
  <2>5. QED
    BY <2>2, <2>3, <2>4 DEF ItemCommands
<1>4. QED
  BY <1>1, <1>2, <1>3

(***************************************************************************)
(* A command goes on with its next serial.                                 *)
(***************************************************************************)
LEMMA ItemStart ==
  ASSUME DeletedInv, Formed, run.cmd \in ItemCommands, run.todo # <<>>, NextItem(ItemCalls(run.cmd, Head(run.todo)))
  PROVE  DeletedInv'
<1>r. run = [f \in RunFields |-> run[f]]
  BY DEF Formed
<1>1. PICK calls, n : calls = ItemCalls(run.cmd, Head(run.todo)) /\ n = Head(run.todo)
  OBVIOUS
<1>2. /\ run'.calls = calls /\ run'.todo = Tail(run.todo) /\ run'.cmd = run.cmd
      /\ vault' = vault /\ db' = db /\ client' = client /\ client # "none" /\ run.calls = <<>>
  BY <1>1, <1>r DEF NextItem, RunFields
<1>3. PICK l \in Nat : l = Len(run.todo) /\ l > 0 /\ IsList(Tail(run.todo)) /\ Len(Tail(run.todo)) = l - 1
  <2>1. PICK S : run.todo \in Seq(S)
    BY DEF DeletedInv, IsList
  <2>2. Tail(run.todo) \in Seq(S) /\ Len(Tail(run.todo)) = Len(run.todo) - 1
    BY <2>1, HeadTailProperties
  <2>3. Len(run.todo) \in Nat /\ Len(run.todo) > 0
    BY <2>1, LenProperties, EmptySeq
  <2>4. QED
    BY <2>2, <2>3 DEF IsList
<1>4. Between
  BY <1>2 DEF Between
<1>5. PICK m : Counter(db, m) /\ ((CertToDo(run.calls))' => DeletedInv')
  BY <1>2, <1>3, <1>4, BetweenSettles
<1>6. m \in Nat /\ Cardinality(Name) \in Nat /\ m \in 1..(Cardinality(Name) + 1)
  BY <1>5, TheSerial DEF Counter
<1>7. SpareNow
  <2>1. \A a, s : IsList(s) => <<a>> \o s # <<>>
    BY Consed
  <2>2. \A i : ~IssueRead(run.calls, i) /\ ~IssueSerial(run.calls, i)
    <3>1. ASSUME NEW i, IssueSerial(run.calls, i) PROVE FALSE
      <4>1. PICK rest : run.calls = <<Rows({Serial(i)}, {Serial(i + 1)})>> \o rest /\ Made(rest, i, db)
        BY <3>1 DEF IssueSerial, Numbering
      <4>2. QED
        BY <1>2, <2>1, <4>1, IssueShapes
    <3>2. ASSUME NEW i, IssueRead(run.calls, i) PROVE FALSE
      <4>1. PICK t, rest : run.calls = <<Read(t)>> \o rest /\ Numbering(rest, i, db)
        BY <3>2 DEF IssueRead, IssueSerial
      <4>2. QED
        BY <1>2, <2>1, <4>1, IssueShapes
    <3>3. QED
      BY <3>1, <3>2
  <2>3. QED
    BY <2>2 DEF DeletedInv, CertToDo
<1>8. run.cmd \in {"renew", "rekey"} => m + l <= Cardinality(Name) + 1
  BY <1>3, <1>5, <1>7 DEF SpareNow, Spare, Counter
<1>9. SpareNow'
  <2>1. \A i : Serial(i) \in db' => i = m
    BY <1>2, <1>5 DEF Counter
  <2>2. run'.cmd \in {"renew", "rekey"} => m + Len(run'.todo) <= Cardinality(Name) + 1
    BY <1>2, <1>3, <1>6, <1>8
  <2>3. QED
    BY <2>1, <2>2 DEF SpareNow, Spare
<1>10. CASE Plain(calls, db)
  <2>1. Plain(calls, db')
    BY <1>2, <1>10
  <2>2. QED
    BY <1>2, <1>5, <1>9, <2>1 DEF CertToDo
<1>11. CASE run.cmd \in {"renew", "rekey"} /\ IssueRead(calls, m)
  <2>1. m \in Name
    BY <1>3, <1>6, <1>8, <1>11, Names
  <2>2. m + 1 + Len(run'.todo) <= Cardinality(Name) + 1
    BY SMTT(60), <1>2, <1>3, <1>6, <1>8, <1>11
  <2>3. PICK t, rest : calls = <<Read(t)>> \o rest /\ Numbering(rest, m, db) /\ Serial(m) \in db
    BY <1>11 DEF IssueRead, IssueSerial
  <2>4. Numbering(rest, m, db')
    BY <1>2, <2>3
  <2>5. IssueSerial(rest, m)'
    BY <1>2, <2>3, <2>4 DEF IssueSerial
  <2>6. IssueRead(run.calls, m)'
    BY <1>2, <2>3, <2>5 DEF IssueRead
  <2>7. Spare(m + 1)'
    BY <1>2, <2>2 DEF Spare
  <2>8. QED
    BY <1>5, <2>1, <2>6, <2>7 DEF CertToDo
<1>12. CASE n \in Name /\ DeleteScan(calls, n)
  <2>1. DeleteScan(run.calls, n)'
    <3>1. PICK p : /\ calls = <<Call("rows", p), ArchiveIfThere(CrtItem(n)), Store({}, {Ignored(n), Gone(n)})>>
                   /\ PlainWrite(p, db) /\ Held(n, db) /\ Cert(n, "Valid") \notin (db \ p.old) \cup p.new
      BY <1>12 DEF DeleteScan
    <3>2. /\ run'.calls = <<Call("rows", p), ArchiveIfThere(CrtItem(n)), Store({}, {Ignored(n), Gone(n)})>>
          /\ PlainWrite(p, db') /\ Held(n, db') /\ Cert(n, "Valid") \notin (db' \ p.old) \cup p.new
      BY <1>2, <3>1
    <3>3. QED
      BY <3>2 DEF DeleteScan
  <2>2. QED
    BY <1>5, <1>9, <1>12, <2>1 DEF CertToDo
<1>13. QED
  BY <1>1, <1>5, <1>10, <1>11, <1>12, ItemLists

(***************************************************************************)
(* Whatever the commands on certificates start or go on with.              *)
(***************************************************************************)
LEMMA DeletedMove ==
  ASSUME DeletedInv, Formed, OwnList, area \in {"cert", "marks"}, CertNext \/ MarkNext
  PROVE  DeletedInv'
<1>l. /\ \A a : IsList(<<a>>) /\ IsList(Append(<<a>>, 0))
      /\ \A a, b : IsList(<<a, b>>) /\ IsList(<<a, b, 0>>)
  <2>1. ASSUME NEW a PROVE IsList(Append(<<a>>, 0))
    <3>1. PICK S : S = {a, 0}
      OBVIOUS
    <3>2. <<a>> \in Seq(S) /\ 0 \in S
      BY <3>1
    <3>3. Append(<<a>>, 0) \in Seq(S)
      BY <3>2, AppendProperties
    <3>4. QED
      BY <3>3 DEF IsList
  <2>2. QED
    BY <2>1, ShortLists
<1>b. ASSUME NEW cmd, NEW todo, IsList(todo), InAppFor(cmd, todo) \/ InCliFor(cmd, todo) PROVE DeletedInv'
  BY <1>b, ListStart
<1>u. ASSUME NEW cmds, Bulk(cmds) PROVE DeletedInv'
  <2>1. PICK cmd, n, k : BulkCerts(cmd, n, k)
    BY <1>u DEF Bulk
  <2>2. QED
    BY <2>1, <1>b, <1>l DEF BulkCerts
<1>p. ASSUME NEW cmd, NEW calls, NEW d, d \in {db, vault.saved}, Plain(calls, d),
             (d = db /\ InApp(cmd, calls)) \/ (d = vault.saved /\ InCli(cmd, calls, <<>>))
      PROVE  DeletedInv'
  BY <1>p, SingleStart
<1>s. PICK s : Counter(vault.saved, s)
  BY DEF DeletedInv, Numbered
<1>d. ASSUME client = "app" PROVE \E k : Counter(db, k)
  BY <1>d DEF DeletedInv, Numbered
<1>i. ASSUME Issuing PROVE DeletedInv'
  <2>1. ASSUME CreateCert PROVE DeletedInv'
    <3>1. InApp("create_cert", CreateCalls(db)) /\ NextSerial(db) \in Name /\ client = "app"
      BY <2>1 DEF CreateCert, CanIssue, InApp
    <3>2. PICK k : Counter(db, k)
      BY <1>d, <3>1
    <3>3. k \in Name /\ Serial(k) \in db /\ Numbering(CreateCalls(db), k, db)
      BY <3>1, <3>2, TheSerial, IssueLists DEF Counter
    <3>4. PICK cmd, calls : cmd = "create_cert" /\ calls = CreateCalls(db) /\ InApp(cmd, calls) /\ Numbering(calls, k, db)
      BY <3>1, <3>3
    <3>5. cmd \notin {"renew", "rekey"} /\ \E n \in Name : Serial(n) \in db /\ Numbering(calls, n, db)
      BY <3>3, <3>4
    <3>6. QED
      BY <3>4, <3>5, SingleStart
  <2>2. ASSUME CliCreateCert PROVE DeletedInv'
    <3>1. InCli("cert create", CreateCalls(vault.saved), <<>>) /\ NextSerial(vault.saved) \in Name
      BY <2>2 DEF CliCreateCert, CanIssue
    <3>2. s \in Name /\ Serial(s) \in vault.saved /\ Numbering(CreateCalls(vault.saved), s, vault.saved)
      BY <1>s, <3>1, TheSerial, IssueLists DEF Counter
    <3>3. PICK cmd, calls, d : /\ cmd = "cert create" /\ calls = CreateCalls(vault.saved) /\ d = vault.saved
                               /\ InCli(cmd, calls, <<>>) /\ Numbering(calls, s, d)
      BY <3>1, <3>2
    <3>4. cmd \notin {"renew", "rekey"} /\ \E n \in Name : Serial(n) \in d /\ Numbering(calls, n, d)
      BY <3>2, <3>3
    <3>5. QED
      BY <3>3, <3>4, SingleStart
  <2>3. ASSUME NEW n \in Name, RenewCert(n) \/ CliRenew(n) \/ RevokeCert(n) PROVE DeletedInv'
    BY <2>3, <1>b, <1>l DEF RenewCert, CliRenew, RevokeCert
  <2>4. ASSUME NEW n \in Name, Expire(n) PROVE DeletedInv'
    <3>1. UNCHANGED <<vault, db, client, run>>
      BY <2>4 DEF Expire
    <3>2. PICK calls : calls = run.calls /\ calls = run'.calls
      BY <3>1
    <3>3. CertToDo(calls)' = CertToDo(calls)
      BY <3>1 DEF CertToDo, SpareNow, Spare, IssueRead, IssueSerial, IssueItem, IssueRow, DeleteRow, DeleteItem, DeleteScan
    <3>4. QED
      BY <3>1, <3>2, <3>3 DEF DeletedInv, Numbered, Closed, Counter, IsList
  <2>5. ASSUME run.todo # <<>>, NextItem(ItemCalls(run.cmd, Head(run.todo))) PROVE DeletedInv'
    BY <2>5, ItemStart DEF OwnList
  <2>6. QED
    BY <1>i, <2>1, <2>2, <2>3, <2>4, <2>5 DEF Issuing
<1>1. ASSUME GenerateCrl \/ ListCerts PROVE DeletedInv'
  <2>1. PICK p \in Scans(db) : InApp("generate_crl", <<Call("rows", p)>> \o CrlCalls(After(db, p)))
                               \/ InApp("list_certs", <<Call("rows", p)>>)
    BY <1>1 DEF GenerateCrl, ListCerts
  <2>2. PICK k : Counter(db, k)
    BY <1>d, <2>1 DEF InApp
  <2>3. PlainWrite(p, db)
    BY <2>2, ScanPlain
  <2>4. Plain(<<Call("rows", p)>> \o CrlCalls(After(db, p)), db) /\ Plain(<<Call("rows", p)>>, db)
    BY <2>2, <2>3, PlainCommands
  <2>5. QED
    BY <2>1, <2>4, <1>p
<1>2. ASSUME CliCreateCrl PROVE DeletedInv'
  <2>1. PICK p : p = Process(vault.saved, {}) /\ InCli("crl create", <<Call("rows", p)>> \o CrlCalls(After(vault.saved, p)), <<>>)
    BY <1>2 DEF CliCreateCrl
  <2>2. PlainWrite(p, vault.saved)
    BY <1>s, <2>1, ScanPlain
  <2>3. Plain(<<Call("rows", p)>> \o CrlCalls(After(vault.saved, p)), vault.saved)
    BY <1>s, <2>2, PlainCommands
  <2>4. QED
    BY <2>1, <2>3, <1>p
<1>3. ASSUME GetDashboard PROVE DeletedInv'
  <2>1. PICK p : p = Process(db, {}) /\ InApp("get_dashboard", IF p.new = {} THEN <<>> ELSE <<Softly(Call("store", p))>>)
    BY <1>3 DEF GetDashboard
  <2>2. PICK k : Counter(db, k)
    BY <1>d, <2>1 DEF InApp
  <2>3. PlainWrite(p, db)
    BY <2>1, <2>2, ScanPlain
  <2>4. Plain(<<>>, db) /\ Plain(<<Softly(Call("store", p))>>, db)
    BY <2>2, <2>3, PlainCommands
  <2>5. QED
    BY <2>1, <2>4, <1>p
<1>4. ASSUME NEW n \in Name, BackfillCert(n) PROVE DeletedInv'
  <2>1. InApp("backfill_cert", <<Softly(Read(CrtItem(n))), Softly(Save)>>)
    BY <1>4 DEF BackfillCert
  <2>2. PICK k : Counter(db, k)
    BY <1>d, <2>1 DEF InApp
  <2>3. Plain(<<Softly(Read(CrtItem(n))), Softly(Save)>>, db)
    BY <2>2, PlainCommands
  <2>4. QED
    BY <2>1, <2>3, <1>p
<1>5. ASSUME NEW n \in Name, \/ DeleteCert(n) \/ RekeyCert(n) \/ CliRekey(n) \/ CliDelete(n) \/ CliRevoke(<<n>>)
                             \/ PublishCert(n) \/ CliPublish(n) \/ IgnoreCert(n) \/ UnignoreCert(n)
      PROVE  DeletedInv'
  BY <1>5, <1>b, <1>l DEF DeleteCert, RekeyCert, CliRekey, CliDelete, CliRevoke, PublishCert, CliPublish, IgnoreCert, UnignoreCert
<1>6. CASE CertNext
  BY <1>6, <1>i, <1>u, <1>1, <1>2, <1>3, <1>5 DEF CertNext
<1>7. CASE MarkNext
  BY <1>7, <1>i, <1>u, <1>4, <1>5 DEF MarkNext
<1>8. QED
  BY <1>6, <1>7

(***************************************************************************)
(* Every step of these areas keeps DeletedInv.                             *)
(***************************************************************************)
LEMMA DeletedStep ==
  ASSUME DeletedInv, Formed, Counted, OwnList, area \in {"cert", "marks"}, CommandNext
  PROVE  DeletedInv'
<1>1. CASE CertNext \/ MarkNext
  BY <1>1, DeletedMove
<1>2. CASE Succeeds \/ Refused \/ Fails
  BY <1>2, DeletedCallStep
<1>3. CASE Ends \/ OpenApp \/ CloseApp \/ Crash
  <2>1. /\ vault' = vault /\ run'.calls = <<>> /\ run'.todo = <<>> /\ run'.cmd = "idle"
        /\ \/ db' = db /\ client # "none"
           \/ db' = {} /\ client' = "none"
           \/ db' = Retrieved
    <3>1. /\ vault' = vault /\ run' = Idle
          /\ \/ db' = db /\ client' = client /\ client # "none" /\ Ends
             \/ db' = {} /\ client' = "none"
             \/ db' = Retrieved /\ client' = "app" /\ client = "none" /\ UNCHANGED faults
      BY <1>3, RestSteps DEF Rests
    <3>2. Idle.calls = <<>> /\ Idle.todo = <<>> /\ Idle.cmd = "idle"
      BY DEF Idle
    <3>3. QED
      BY <3>1, <3>2
  <2>2. Between /\ IsList(run'.todo)
    BY <2>1, ShortLists DEF Between
  <2>3. SpareNow'
    BY <2>1 DEF SpareNow, Spare
  <2>4. Plain(<<>>, db')
    BY PlainLists
  <2>5. QED
    BY <2>1, <2>2, <2>3, <2>4, BetweenSettles DEF CertToDo
<1>4. QED
  BY <1>1, <1>2, <1>3 DEF CommandNext, CsrNext, DkimNext, OpenVpnNext, ProfileNext, CaNext

-----------------------------------------------------------------------------
(* Rows *)

(***************************************************************************)
(* What holds of the rows besides, in the areas that delete and record.    *)
(***************************************************************************)
RowsInv ==
    /\ CallsInv
    /\ area = "profiles" => ProfileInv
    /\ area \in {"cert", "marks"} => DeletedInv

(***************************************************************************)
(* It holds at first.                                                      *)
(***************************************************************************)
LEMMA RowsStart == Init => RowsInv
<1> SUFFICES ASSUME Init PROVE RowsInv
  OBVIOUS
<1>1. PICK F : vault = [Empty EXCEPT !.fields = F, !.items[OpenVpn] = IF F = {} THEN 0 ELSE 1,
                                     !.saved = IF area \in {"cert", "marks"} THEN {Serial(1)} ELSE {}]
  BY DEF Init
<1>2. vault.saved = (IF area \in {"cert", "marks"} THEN {Serial(1)} ELSE {}) /\ vault.bad = FALSE
  BY <1>1 DEF Empty
<1>3. db = {} /\ client = "none" /\ run.calls = <<>> /\ run.todo = <<>> /\ run.cmd = "idle"
  BY DEF Init, Idle
<1>4. area = "profiles" => ProfileInv
  BY <1>2, <1>3, ProfileLists DEF ProfileInv, Documented
<1>5. ASSUME area \in {"cert", "marks"} PROVE DeletedInv
  <2>1. vault.saved = {Serial(1)}
    BY <1>2, <1>5
  <2>2. Counter(vault.saved, 1)
    <3>1. 1 \in 1..(Cardinality(Name) + 1)
      BY Names
    <3>2. QED
      BY <2>1, <3>1, CertTags DEF Counter
  <2>3. Closed(vault.saved) /\ Closed(db)
    BY <2>1, <1>3, CertTags DEF Closed
  <2>4. SpareNow /\ Plain(run.calls, db) /\ IsList(run.todo)
    BY <1>3, PlainLists, ShortLists DEF SpareNow, Spare
  <2>5. QED
    BY <1>2, <1>3, <2>2, <2>3, <2>4 DEF DeletedInv, Numbered, CertToDo
<1>6. QED
  BY <1>4, <1>5, CallsStart DEF RowsInv

(***************************************************************************)
(* Every step keeps it.                                                    *)
(***************************************************************************)
LEMMA RowsStep ==
  ASSUME RowsInv, [Next]_<<vars, sessionVars, schemaVars, copyVars, watchVars>>
  PROVE  RowsInv'
<1>1. CallsInv'
  BY CallsStep DEF RowsInv
<1>2. CASE UNCHANGED vars
  <2>1. UNCHANGED <<area, vault, db, client, run, past, faults>>
    BY <1>2 DEF vars
  <2>2. PICK calls : calls = run.calls /\ calls = run'.calls
    BY <2>1
  <2>3. CertToDo(calls)' = CertToDo(calls)
    BY <2>1 DEF CertToDo, SpareNow, Spare, IssueRead, IssueSerial, IssueItem, IssueRow, DeleteRow, DeleteItem, DeleteScan
  <2>4. DeletedInv => DeletedInv'
    BY <2>1, <2>2, <2>3 DEF DeletedInv, Numbered, Closed, Counter, IsList
  <2>5. ProfileCalls(calls)' = ProfileCalls(calls)
    BY <2>1 DEF ProfileCalls, StoredFirst, Stocked
  <2>6. ProfileInv => ProfileInv'
    BY <2>1, <2>2, <2>5 DEF ProfileInv, Documented, Stocked
  <2>7. QED
    BY <1>1, <2>1, <2>4, <2>6 DEF RowsInv
<1>3. CASE CommandNext
  <2>1. area' = area
    <3>1. Elsewhere => area' = area
      BY DEF Elsewhere, DeletedElsewhere, OlderClientAdds, Expire, DatabaseRemoved, CreateVault, LoadCa
    <3>2. StartsInApp \/ StartsInCli \/ StartsList \/ NextOfList => area' = area
      BY DEF StartsInApp, StartsInCli, StartsList, NextOfList, InApp, InCli, BulkInApp, NextItem
    <3>3. Succeeds \/ Refused \/ Fails \/ Ends \/ OpenApp \/ CloseApp \/ Crash => area' = area
      BY DEF Succeeds, Refused, Fails, Ends, OpenApp, CloseApp, Crash, Leave
    <3>4. QED
      BY <1>3, <3>1, <3>2, <3>3, StepKinds
  <2>2. area \in {"profiles", "cert", "marks"} => Formed /\ Counted /\ OwnList
    BY DEF RowsInv, CallsInv, OwnInv, OwnState
  <2>3. area = "profiles" => ProfileInv'
    BY <1>3, <2>2, ProfileStep DEF RowsInv
  <2>4. area \in {"cert", "marks"} => DeletedInv'
    BY <1>3, <2>2, DeletedStep DEF RowsInv
  <2>5. QED
    BY <1>1, <2>1, <2>3, <2>4 DEF RowsInv
<1>4. QED
  BY <1>2, <1>3 DEF Next, vars

(***************************************************************************)
(* Whatever fails on the way, a saved row is true of 1Password and of the  *)
(* public store: a certificate, a profile's document or an upload comes    *)
(* before its row, the archive of an item before the row that says so, and *)
(* a serial that was deleted is not issued again.                          *)
(***************************************************************************)
THEOREM RowsStayTrue == Spec => []RowsHold
<1>1. RowsInv => RowsHold
  <2> SUFFICES ASSUME RowsInv PROVE RowsHold
    OBVIOUS
  <2>1. CASE area = "csr"
    <3>1. CsrInv
      BY <2>1 DEF RowsInv, CallsInv
    <3>2. CsrSound(vault.saved)
      BY <3>1 DEF CsrInv
    <3>3. CompletedKept
      BY <3>2 DEF CompletedKept, CsrSound, CsrRowsOnly, HaveCertificates, Backed, CsrRows, Pending, Complete, External
    <3>5. ProfileStored /\ DeletedClosed /\ MarkedUploaded
      BY <3>2 DEF ProfileStored, DeletedClosed, MarkedUploaded, CsrSound, CsrRowsOnly, Profile, Gone, Published,
         External, Pending, Complete
    <3>6. QED
      BY <3>3, <3>5 DEF RowsHold
  <2>2. CASE area # "csr"
    <3>1. OwnInv
      BY <2>2 DEF RowsInv, CallsInv
    <3>2. Tagged(vault.saved, Tags) /\ Counted
      BY <3>1 DEF OwnInv, OwnState
    <3>3. "csr" \notin Tags
      BY DEF Tags, WrittenTags
    <3>4. CompletedKept
      BY <3>2, <3>3 DEF CompletedKept, CsrRows, Tagged
    <3>6. ProfileStored
      <4>1. CASE area = "profiles"
        <5>1. ASSUME NEW c \in Name, Profile(c) \in vault.saved PROVE vault.items[VpnItem(c)] + vault.items[Sent(c)] > 0
          <6>1. vault.items[VpnItem(c)] > 0 \/ vault.items[Sent(c)] > 0
            BY <4>1, <5>1 DEF RowsInv, ProfileInv, Documented, Stocked
          <6>2. vault.items[VpnItem(c)] \in 0..2 /\ vault.items[Sent(c)] \in 0..2
            BY <3>2, Titles DEF Counted
          <6>3. QED
            BY <6>1, <6>2
        <5>2. QED
          BY <5>1 DEF ProfileStored
      <4>2. CASE area # "profiles"
        <5>1. "vpn" \notin Tags
          BY <4>2 DEF Tags, WrittenTags
        <5>2. QED
          BY <3>2, <5>1 DEF ProfileStored, Profile, Tagged
      <4>3. QED
        BY <4>1, <4>2
    <3>7. DeletedClosed
      <4>1. CASE area \in {"cert", "marks"}
        BY <4>1 DEF RowsInv, DeletedInv, Closed, DeletedClosed, Is
      <4>2. CASE area \notin {"cert", "marks"}
        <5>1. "gone" \notin Tags
          BY <4>2 DEF Tags, WrittenTags
        <5>2. QED
          BY <3>2, <5>1 DEF DeletedClosed, Gone, Tagged
      <4>3. QED
        BY <4>1, <4>2
    <3>8. MarkedUploaded
      <4>1. CASE area \in {"cert", "marks"}
        BY <3>1, <4>1 DEF OwnInv, MarkedIn, MarkedUploaded
      <4>2. CASE area \notin {"cert", "marks"}
        <5>1. "published" \notin Tags
          BY <4>2 DEF Tags, WrittenTags
        <5>2. QED
          BY <3>2, <5>1 DEF MarkedUploaded, Published, Tagged
      <4>3. QED
        BY <4>1, <4>2
    <3>9. QED
      BY <3>4, <3>6, <3>7, <3>8 DEF RowsHold
  <2>3. QED
    BY <2>1, <2>2
<1>2. QED
  BY <1>1, RowsStart, RowsStep, PTL DEF Spec

-----------------------------------------------------------------------------
(* Templates on the item and in the database *)

(***************************************************************************)
(* A template that was edited has no copy from the item beside it, and     *)
(* there is none before the import.                                        *)
(***************************************************************************)
Tidy(d) ==
    /\ \A c \in Name : Template(c, "edited") \in d => Template(c, "vault") \notin d
    /\ NotImported(d) => \A c \in Name : Template(c, "edited") \notin d

\* A write that brings no template from the item, and edits only after the import.
Gentle(w, imported) ==
    /\ \A c \in Name : Template(c, "vault") \notin w.new
    /\ \A c \in Name : Template(c, "edited") \in w.new => imported /\ Template(c, "vault") \in w.old
    /\ w.old \cap ImportRows # {} => w.new \cap ImportRows # {}

\* A write that brings them, over none that was edited.
Bringing(w, d) ==
    /\ \A c \in Name : Template(c, "edited") \notin w.new
    /\ \A c \in Name : Template(c, "vault") \in w.new => Template(c, "edited") \notin d
    /\ w.old \cap ImportRows = {}

TemplateCall(c) ==
    /\ c.on = "stop"
    /\ c.do \in {"look", "read", "store", "inject", "put", "create", "note_fields", "archive_note", "remove_fields"}
TemplateCalls(s) == \E S : s \in Seq(S) /\ \A c \in S : TemplateCall(c)

\* Whether the import is done, or is among the first n calls.
ImportedBy(s, n, d) ==
    ~NotImported(d) \/ \E j \in 1..n : s[j].do = "store" /\ s[j].of.new \cap ImportRows # {}

(***************************************************************************)
(* Templates are brought in by the first write there is, if at all.        *)
(***************************************************************************)
WritesInOrder(s, d) ==
    \A i \in 1..Len(s) : s[i].do = "store" =>
        \/ Gentle(s[i].of, ImportedBy(s, i - 1, d))
        \/ Bringing(s[i].of, d) /\ \A j \in 1..(i - 1) : s[j].do # "store"

(***************************************************************************)
(* The fields are removed only after they were noted and the note archived. *)
(***************************************************************************)
NotesFirst(s) ==
    \A k \in 1..Len(s) : s[k].do = "remove_fields" =>
        \/ vault.fields \subseteq vault.notes
        \/ \E j \in 1..(k - 1) : /\ s[j].do = "archive_note"
                                 /\ \/ vault.fields \subseteq vault.copy
                                    \/ \E i \in 1..(j - 1) : s[i].do = "note_fields"

Orderly(s, d) == TemplateCalls(s) /\ WritesInOrder(s, d) /\ NotesFirst(s)

TemplateInv == Tidy(db) /\ Tidy(vault.saved) /\ vault.bad = FALSE /\ Orderly(run.calls, db)

\* Calls that neither write nor remove, and those that bring nothing.
Quiet(s) == \E S : s \in Seq(S) /\ \A c \in S : TemplateCall(c) /\ c.do \notin {"store", "remove_fields"}
GentleCalls(s, imported) ==
    \E S : s \in Seq(S) /\ \A c \in S : TemplateCall(c) /\ (c.do = "store" => Gentle(c.of, imported))

(***************************************************************************)
(* A list of gentle calls may follow what imports, or stand alone.         *)
(***************************************************************************)
LEMMA GentleFollow ==
  ASSUME NEW d, NEW s, NEW t, Orderly(s, d), GentleCalls(t, ImportedBy(s, Len(s), d)), NotesFirst(t)
  PROVE  Orderly(s \o t, d)
<1>1. PICK S : s \in Seq(S) /\ \A c \in S : TemplateCall(c)
  BY DEF Orderly, TemplateCalls
<1>2. PICK imported : imported = ImportedBy(s, Len(s), d)
  OBVIOUS
<1>3. PICK T : t \in Seq(T) /\ \A c \in T : TemplateCall(c) /\ (c.do = "store" => Gentle(c.of, imported))
  BY <1>2 DEF GentleCalls
<1>4. PICK m \in Nat, n \in Nat : m = Len(s) /\ n = Len(t)
  BY <1>1, <1>3, LenProperties
<1>5. s \in Seq(S \cup T) /\ t \in Seq(S \cup T)
  BY <1>1, <1>3, SeqMonotonic
<1>6. PICK all : all = s \o t
  OBVIOUS
<1>7. /\ all \in Seq(S \cup T) /\ Len(all) = m + n
      /\ \A i \in 1..(m + n) : all[i] = IF i <= m THEN s[i] ELSE t[i - m]
  BY <1>4, <1>5, <1>6, ConcatProperties
<1>8. /\ \A i \in 1..m : all[i] = s[i] /\ i \in 1..(m + n)
      /\ \A i \in 1..n : all[i + m] = t[i] /\ i + m \in 1..(m + n)
  BY SMTT(60), <1>4, <1>7
<1>9. TemplateCalls(all)
  BY <1>1, <1>3, <1>7 DEF TemplateCalls
<1>10. ASSUME NEW i \in 1..Len(all), all[i].do = "store"
       PROVE  \/ Gentle(all[i].of, ImportedBy(all, i - 1, d))
              \/ Bringing(all[i].of, d) /\ \A j \in 1..(i - 1) : all[j].do # "store"
  <2>1. CASE i <= m
    <3>1. i \in 1..Len(s) /\ all[i] = s[i] /\ \A j \in 1..(i - 1) : j \in 1..m /\ all[j] = s[j]
      BY <1>4, <1>7, <1>8, <2>1
    <3>2. \/ Gentle(s[i].of, ImportedBy(s, i - 1, d))
          \/ Bringing(s[i].of, d) /\ \A j \in 1..(i - 1) : s[j].do # "store"
      BY <1>10, <3>1 DEF Orderly, WritesInOrder
    <3>3. ImportedBy(all, i - 1, d) = ImportedBy(s, i - 1, d)
      BY <3>1 DEF ImportedBy
    <3>4. QED
      BY <3>1, <3>2, <3>3
  <2>2. CASE i > m
    <3>1. i - m \in 1..Len(t) /\ all[i] = t[i - m] /\ m <= i - 1
      BY <1>4, <1>7, <2>2
    <3>2. Gentle(all[i].of, imported)
      BY <1>3, <1>10, <3>1, ElementOfSeq
    <3>3. imported => ImportedBy(all, i - 1, d)
      <4>1. ASSUME NEW j \in 1..m PROVE j \in 1..(i - 1) /\ all[j] = s[j]
        BY <1>4, <1>7, <1>8, <3>1
      <4>2. QED
        BY <1>2, <1>4, <4>1 DEF ImportedBy
    <3>4. QED
      BY <3>2, <3>3 DEF Gentle
  <2>3. QED
    BY <1>4, <1>7, <2>1, <2>2
<1>11. ASSUME NEW k \in 1..Len(all), all[k].do = "remove_fields"
       PROVE  \/ vault.fields \subseteq vault.notes
              \/ \E j \in 1..(k - 1) : /\ all[j].do = "archive_note"
                                       /\ \/ vault.fields \subseteq vault.copy
                                          \/ \E i \in 1..(j - 1) : all[i].do = "note_fields"
  <2>1. CASE k <= m
    <3>1. k \in 1..Len(s) /\ all[k] = s[k] /\ \A j \in 1..(k - 1) : all[j] = s[j] /\ \A i \in 1..(j - 1) : all[i] = s[i]
      BY <1>4, <1>7, <1>8, <2>1
    <3>2. QED
      BY <1>11, <3>1 DEF Orderly, NotesFirst
  <2>2. CASE k > m
    <3>1. k - m \in 1..Len(t) /\ all[k] = t[k - m]
      BY <1>4, <1>7, <2>2
    <3>2. ASSUME NEW j \in 1..(k - m - 1)
          PROVE  j + m \in 1..(k - 1) /\ all[j + m] = t[j] /\ \A i \in 1..(j - 1) : i + m \in 1..(j + m - 1) /\ all[i + m] = t[i]
      BY <1>4, <1>7, <1>8, <2>2
    <3>3. \/ vault.fields \subseteq vault.notes
          \/ \E j \in 1..(k - m - 1) : /\ t[j].do = "archive_note"
                                       /\ \/ vault.fields \subseteq vault.copy
                                          \/ \E i \in 1..(j - 1) : t[i].do = "note_fields"
      BY <1>11, <3>1 DEF NotesFirst
    <3>4. CASE vault.fields \subseteq vault.notes
      BY <3>4
    <3>5. CASE ~(vault.fields \subseteq vault.notes)
      <4>1. PICK j \in 1..(k - m - 1) : /\ t[j].do = "archive_note"
                                        /\ \/ vault.fields \subseteq vault.copy
                                           \/ \E i \in 1..(j - 1) : t[i].do = "note_fields"
        BY <3>3, <3>5
      <4>2. j + m \in 1..(k - 1) /\ all[j + m].do = "archive_note"
        BY <3>2, <4>1
      <4>3. \A i \in 1..(j - 1) : i + m \in 1..(j + m - 1) /\ all[i + m] = t[i]
        BY <3>2
      <4>4. vault.fields \subseteq vault.copy \/ \E i \in 1..(j + m - 1) : all[i].do = "note_fields"
        BY <4>1, <4>3
      <4>5. QED
        BY <4>2, <4>4
    <3>6. QED
      BY <3>4, <3>5
  <2>3. QED
    BY <1>4, <1>7, <2>1, <2>2
<1>12. WritesInOrder(all, d) /\ NotesFirst(all)
  <2>1. WritesInOrder(all, d)
    BY <1>10 DEF WritesInOrder
  <2>2. NotesFirst(all)
    BY <1>11 DEF NotesFirst
  <2>3. QED
    BY <2>1, <2>2
<1>13. QED
  BY <1>6, <1>9, <1>12 DEF Orderly

(***************************************************************************)
(* A list may follow quiet calls.                                          *)
(***************************************************************************)
LEMMA QuietBefore ==
  ASSUME NEW d, NEW s, NEW t, Quiet(s), Orderly(t, d)
  PROVE  Orderly(s \o t, d)
<1>1. PICK S : s \in Seq(S) /\ \A c \in S : TemplateCall(c) /\ c.do \notin {"store", "remove_fields"}
  BY DEF Quiet
<1>2. PICK T : t \in Seq(T) /\ \A c \in T : TemplateCall(c)
  BY DEF Orderly, TemplateCalls
<1>3. PICK m \in Nat, n \in Nat : m = Len(s) /\ n = Len(t)
  BY <1>1, <1>2, LenProperties
<1>4. s \in Seq(S \cup T) /\ t \in Seq(S \cup T)
  BY <1>1, <1>2, SeqMonotonic
<1>5. PICK all : all = s \o t
  OBVIOUS
<1>6. /\ all \in Seq(S \cup T) /\ Len(all) = m + n
      /\ \A i \in 1..(m + n) : all[i] = IF i <= m THEN s[i] ELSE t[i - m]
  BY <1>3, <1>4, <1>5, ConcatProperties
<1>7. \A i \in 1..m : all[i] = s[i] /\ all[i].do \notin {"store", "remove_fields"}
  <2>1. \A i \in 1..m : s[i] \in S
    BY <1>1, <1>3, ElementOfSeq
  <2>2. QED
    BY <1>1, <1>3, <1>6, <2>1
<1>8. \A i \in 1..n : all[i + m] = t[i] /\ i + m \in 1..(m + n)
  BY SMTT(60), <1>3, <1>6
<1>9. TemplateCalls(all)
  BY <1>1, <1>2, <1>6 DEF TemplateCalls
<1>10. ASSUME NEW i \in 1..Len(all), all[i].do = "store"
       PROVE  \/ Gentle(all[i].of, ImportedBy(all, i - 1, d))
              \/ Bringing(all[i].of, d) /\ \A j \in 1..(i - 1) : all[j].do # "store"
  <2>1. i > m
    BY <1>3, <1>6, <1>7, <1>10
  <2>2. i - m \in 1..Len(t) /\ all[i] = t[i - m]
    BY <1>3, <1>6, <2>1
  <2>3. CASE Gentle(t[i - m].of, ImportedBy(t, i - m - 1, d))
    <3>1. ASSUME NEW j \in 1..(i - m - 1) PROVE j + m \in 1..(i - 1) /\ all[j + m] = t[j]
      BY <1>3, <1>6, <1>8, <2>1
    <3>2. ImportedBy(t, i - m - 1, d) => ImportedBy(all, i - 1, d)
      BY <3>1 DEF ImportedBy
    <3>3. QED
      BY <2>2, <2>3, <3>2 DEF Gentle
  <2>4. CASE Bringing(t[i - m].of, d) /\ \A j \in 1..(i - m - 1) : t[j].do # "store"
    <3>1. ASSUME NEW j \in 1..(i - 1) PROVE all[j].do # "store"
      <4>1. CASE j <= m
        BY <1>3, <1>7, <4>1
      <4>2. CASE j > m
        <5>1. j - m \in 1..(i - m - 1) /\ j \in 1..(m + n) /\ all[j] = t[j - m]
          BY <1>3, <1>6, <2>1, <4>2
        <5>2. QED
          BY <2>4, <5>1
      <4>3. QED
        BY <1>3, <4>1, <4>2
    <3>2. QED
      BY <2>2, <2>4, <3>1
  <2>5. QED
    BY <1>10, <2>2, <2>3, <2>4 DEF Orderly, WritesInOrder
<1>11. ASSUME NEW k \in 1..Len(all), all[k].do = "remove_fields"
       PROVE  \/ vault.fields \subseteq vault.notes
              \/ \E j \in 1..(k - 1) : /\ all[j].do = "archive_note"
                                       /\ \/ vault.fields \subseteq vault.copy
                                          \/ \E i \in 1..(j - 1) : all[i].do = "note_fields"
  <2>1. k > m
    BY <1>3, <1>6, <1>7, <1>11
  <2>2. k - m \in 1..Len(t) /\ all[k] = t[k - m]
    BY <1>3, <1>6, <2>1
  <2>3. ASSUME NEW j \in 1..(k - m - 1)
        PROVE  j + m \in 1..(k - 1) /\ all[j + m] = t[j] /\ \A i \in 1..(j - 1) : i + m \in 1..(j + m - 1) /\ all[i + m] = t[i]
    BY <1>3, <1>6, <1>8, <2>1
  <2>4. \/ vault.fields \subseteq vault.notes
        \/ \E j \in 1..(k - m - 1) : /\ t[j].do = "archive_note"
                                     /\ \/ vault.fields \subseteq vault.copy
                                        \/ \E i \in 1..(j - 1) : t[i].do = "note_fields"
    BY <1>11, <2>2 DEF Orderly, NotesFirst
  <2>5. CASE vault.fields \subseteq vault.notes
    BY <2>5
  <2>6. CASE ~(vault.fields \subseteq vault.notes)
    <3>1. PICK j \in 1..(k - m - 1) : /\ t[j].do = "archive_note"
                                      /\ \/ vault.fields \subseteq vault.copy
                                         \/ \E i \in 1..(j - 1) : t[i].do = "note_fields"
      BY <2>4, <2>6
    <3>2. j + m \in 1..(k - 1) /\ all[j + m].do = "archive_note"
      BY <2>3, <3>1
    <3>3. \A i \in 1..(j - 1) : i + m \in 1..(j + m - 1) /\ all[i + m] = t[i]
      BY <2>3
    <3>4. vault.fields \subseteq vault.copy \/ \E i \in 1..(j + m - 1) : all[i].do = "note_fields"
      BY <3>1, <3>3
    <3>5. QED
      BY <3>2, <3>4
  <2>7. QED
    BY <2>5, <2>6
<1>12. WritesInOrder(all, d) /\ NotesFirst(all)
  <2>1. WritesInOrder(all, d)
    BY <1>10 DEF WritesInOrder
  <2>2. NotesFirst(all)
    BY <1>11 DEF NotesFirst
  <2>3. QED
    BY <2>1, <2>2
<1>13. QED
  BY <1>5, <1>9, <1>12 DEF Orderly

(***************************************************************************)
(* The shortest lists.                                                     *)
(***************************************************************************)
LEMMA ShortOrders ==
  ASSUME NEW d
  PROVE  /\ Orderly(<<>>, d) /\ \A x : GentleCalls(<<>>, x)
         /\ \A a : TemplateCall(a) /\ a.do # "remove_fields"
                   /\ (a.do = "store" => Gentle(a.of, ~NotImported(d)) \/ Bringing(a.of, d)) => Orderly(<<a>>, d)
         /\ \A a : TemplateCall(a) /\ a.do \notin {"store", "remove_fields"} => Quiet(<<a>>)
         /\ \A a, x : TemplateCall(a) /\ (a.do = "store" => Gentle(a.of, x)) => GentleCalls(<<a>>, x)
         /\ \A a, b, c, x : /\ TemplateCall(a) /\ TemplateCall(b) /\ TemplateCall(c)
                            /\ \A e \in {a, b, c} : e.do = "store" => Gentle(e.of, x)
                            => GentleCalls(<<a, b, c>>, x)
         /\ \A a, b, x : /\ TemplateCall(a) /\ TemplateCall(b)
                         /\ \A e \in {a, b} : e.do = "store" => Gentle(e.of, x)
                         => GentleCalls(<<a, b>>, x)
<1>1. Orderly(<<>>, d) /\ \A x : GentleCalls(<<>>, x)
  <2>1. PICK S : S = {}
    OBVIOUS
  <2>2. <<>> \in Seq(S) /\ \A c \in S : TemplateCall(c)
    BY <2>1
  <2>3. TemplateCalls(<<>>) /\ \A x : GentleCalls(<<>>, x)
    BY <2>1, <2>2 DEF TemplateCalls, GentleCalls
  <2>4. WritesInOrder(<<>>, d) /\ NotesFirst(<<>>)
    BY DEF WritesInOrder, NotesFirst
  <2>5. QED
    BY <2>3, <2>4 DEF Orderly
<1>2. ASSUME NEW a, TemplateCall(a), a.do # "remove_fields",
             a.do = "store" => Gentle(a.of, ~NotImported(d)) \/ Bringing(a.of, d)
      PROVE  Orderly(<<a>>, d)
  <2>1. PICK S : S = {a}
    OBVIOUS
  <2>2. <<a>> \in Seq(S) /\ \A c \in S : TemplateCall(c)
    BY <1>2, <2>1
  <2>3. TemplateCalls(<<a>>)
    BY <2>2 DEF TemplateCalls
  <2>l. PICK s : s = <<a>>
    OBVIOUS
  <2>4. s = <<a>> /\ Len(s) = 1 /\ s[1] = a
    BY <2>l
  <2>5. ImportedBy(s, 0, d) = ~NotImported(d)
    BY DEF ImportedBy
  <2>6. WritesInOrder(s, d)
    <3>1. ASSUME NEW i \in 1..Len(s), s[i].do = "store"
          PROVE  \/ Gentle(s[i].of, ImportedBy(s, i - 1, d))
                 \/ Bringing(s[i].of, d) /\ \A j \in 1..(i - 1) : s[j].do # "store"
      <4>1. i = 1 /\ i - 1 = 0
        BY <2>4
      <4>2. \A j \in 1..(i - 1) : FALSE
        BY <4>1
      <4>3. CASE Gentle(a.of, ~NotImported(d))
        BY <2>4, <2>5, <4>1, <4>3
      <4>4. CASE Bringing(a.of, d)
        BY <2>4, <4>1, <4>2, <4>4
      <4>5. QED
        BY <1>2, <2>4, <3>1, <4>1, <4>3, <4>4
    <3>2. QED
      BY <3>1 DEF WritesInOrder
  <2>7. NotesFirst(s)
    BY <1>2, <2>4 DEF NotesFirst
  <2>8. QED
    BY <2>3, <2>4, <2>6, <2>7 DEF Orderly
<1>3. ASSUME NEW a, TemplateCall(a), a.do \notin {"store", "remove_fields"} PROVE Quiet(<<a>>)
  <2>1. PICK S : S = {a}
    OBVIOUS
  <2>2. <<a>> \in Seq(S) /\ \A c \in S : TemplateCall(c) /\ c.do \notin {"store", "remove_fields"}
    BY <1>3, <2>1
  <2>3. QED
    BY <2>2 DEF Quiet
<1>4. ASSUME NEW a, NEW x, TemplateCall(a), a.do = "store" => Gentle(a.of, x) PROVE GentleCalls(<<a>>, x)
  <2>1. PICK S : S = {a}
    OBVIOUS
  <2>2. <<a>> \in Seq(S) /\ \A c \in S : TemplateCall(c) /\ (c.do = "store" => Gentle(c.of, x))
    BY <1>4, <2>1
  <2>3. QED
    BY <2>2 DEF GentleCalls
<1>5. ASSUME NEW a, NEW b, NEW c, NEW x, TemplateCall(a), TemplateCall(b), TemplateCall(c),
             \A e \in {a, b, c} : e.do = "store" => Gentle(e.of, x)
      PROVE  GentleCalls(<<a, b, c>>, x)
  <2>1. PICK S : S = {a, b, c}
    OBVIOUS
  <2>2. <<a, b, c>> \in Seq(S) /\ \A e \in S : TemplateCall(e) /\ (e.do = "store" => Gentle(e.of, x))
    BY <1>5, <2>1
  <2>3. QED
    BY <2>2 DEF GentleCalls
<1>6. ASSUME NEW a, NEW b, NEW x, TemplateCall(a), TemplateCall(b),
             \A e \in {a, b} : e.do = "store" => Gentle(e.of, x)
      PROVE  GentleCalls(<<a, b>>, x)
  <2>1. PICK S : S = {a, b}
    OBVIOUS
  <2>2. <<a, b>> \in Seq(S) /\ \A e \in S : TemplateCall(e) /\ (e.do = "store" => Gentle(e.of, x))
    BY <1>6, <2>1
  <2>3. QED
    BY <2>2 DEF GentleCalls
<1>7. QED
  BY <1>1, <1>2, <1>3, <1>4, <1>5, <1>6

(***************************************************************************)
(* Lists without remove_fields wait for no note.                           *)
(***************************************************************************)
LEMMA NoNotes ==
  ASSUME NEW s, \E S : s \in Seq(S) /\ \A c \in S : c.do # "remove_fields"
  PROVE  NotesFirst(s)
<1>1. PICK S : s \in Seq(S) /\ \A c \in S : c.do # "remove_fields"
  OBVIOUS
<1>2. \A i \in 1..Len(s) : s[i] \in S
  BY <1>1, ElementOfSeq
<1>3. QED
  BY <1>1, <1>2 DEF NotesFirst

(***************************************************************************)
(* The calls of this area.                                                 *)
(***************************************************************************)
LEMMA TemplateKinds ==
  /\ \A t : /\ TemplateCall(Look(t)) /\ TemplateCall(Read(t)) /\ TemplateCall(Put(t)) /\ TemplateCall(Create(t))
            /\ {Look(t).do, Read(t).do, Put(t).do, Create(t).do} \subseteq {"look", "read", "put", "create"}
  /\ TemplateCall(Call("inject", 0)) /\ Call("inject", 0).do = "inject"
  /\ TemplateCall(Call("note_fields", 0)) /\ Call("note_fields", 0).do = "note_fields"
  /\ TemplateCall(Call("archive_note", 0)) /\ Call("archive_note", 0).do = "archive_note"
  /\ \A t : TemplateCall(Call("remove_fields", t)) /\ Call("remove_fields", t).do = "remove_fields"
  /\ \A old, new : /\ TemplateCall(Store(old, new)) /\ Store(old, new).do = "store"
                   /\ Store(old, new).of = [old |-> old, new |-> new]
BY DEF TemplateCall, Look, Read, Put, Create, Store, Call

(***************************************************************************)
(* The writes of this area: those that import, and those that do not.      *)
(***************************************************************************)
LEMMA TemplateWrites ==
  /\ \A d, F : Tidy(d) /\ NotImported(d) =>
        Bringing([old |-> UNION {Copies(c) : c \in F},
                  new |-> {Template(c, "vault") : c \in F}
                          \cup {<<"import", IF F = {} THEN "Settled" ELSE "AwaitingCleanup">>}], d)
  /\ \A d, M : M \cap Templates(d) = {} => Bringing([old |-> {}, new |-> {Template(c, "vault") : c \in M}], d)
  /\ \A x : Gentle([old |-> ImportRows, new |-> {<<"import", "Settled">>}], x)
  /\ \A c : Gentle([old |-> Copies(c), new |-> {Template(c, "edited")}], TRUE)
  /\ \A c, x : Gentle([old |-> Copies(c), new |-> {}], x)
  /\ \A C, c, x : /\ Gentle([old |-> ProfileRows({c}), new |-> {Profile(c)}], x)
                  /\ Gentle([old |-> ProfileRows(C), new |-> {Entry(e) : e \in C}], x)
                  /\ Gentle([old |-> ProfileRows(C), new |-> {}], x)
<1>r. \A r \in ImportRows : r[1] = "import" /\ r \in {<<"import", "AwaitingCleanup">>, <<"import", "Settled">>}
  BY DEF ImportRows
<1>t. \A c, x : Template(c, x)[1] = "tpl" /\ Template(c, x)[2] = c /\ Template(c, x)[3] = x
  BY DEF Template
<1>c. \A c : Copies(c) = {Template(c, "vault"), Template(c, "edited")}
  BY DEF Copies, Content
<1>i. \A x : <<"import", x>>[1] = "import" /\ <<"import", x>>[1] # "tpl"
  OBVIOUS
<1>v. \A c : Profile(c)[1] = "vpn" /\ Entry(c)[1] = "vpn"
  BY DEF Profile, Entry
<1>1. ASSUME NEW d, NEW F, Tidy(d), NotImported(d)
      PROVE  Bringing([old |-> UNION {Copies(c) : c \in F},
                       new |-> {Template(c, "vault") : c \in F}
                               \cup {<<"import", IF F = {} THEN "Settled" ELSE "AwaitingCleanup">>}], d)
  <2>o. PICK old : old = UNION {Copies(c) : c \in F}
    OBVIOUS
  <2>n. PICK new : new = {Template(c, "vault") : c \in F}
                         \cup {<<"import", IF F = {} THEN "Settled" ELSE "AwaitingCleanup">>}
    OBVIOUS
  <2>1. /\ old = UNION {Copies(c) : c \in F}
        /\ new = {Template(c, "vault") : c \in F}
                 \cup {<<"import", IF F = {} THEN "Settled" ELSE "AwaitingCleanup">>}
    BY <2>o, <2>n
  <2>2. \A c \in Name : Template(c, "edited") \notin new
    BY <2>1, <1>t, <1>i
  <2>3. \A c \in Name : Template(c, "edited") \notin d
    BY <1>1 DEF Tidy
  <2>4. old \cap ImportRows = {}
    BY <2>1, <1>r, <1>t, <1>c
  <2>5. QED
    BY <2>1, <2>2, <2>3, <2>4 DEF Bringing
<1>2. ASSUME NEW d, NEW M, M \cap Templates(d) = {}
      PROVE  Bringing([old |-> {}, new |-> {Template(c, "vault") : c \in M}], d)
  <2>1. PICK new : new = {Template(c, "vault") : c \in M}
    OBVIOUS
  <2>2. \A c \in Name : Template(c, "edited") \notin new
    BY <2>1, <1>t
  <2>3. ASSUME NEW c \in Name, Template(c, "vault") \in new PROVE Template(c, "edited") \notin d
    <3>1. c \in M
      BY <2>1, <2>3, <1>t
    <3>2. QED
      BY <1>2, <1>c, <3>1 DEF Templates
  <2>4. QED
    BY <2>1, <2>2, <2>3 DEF Bringing
<1>3. ASSUME NEW x PROVE Gentle([old |-> ImportRows, new |-> {<<"import", "Settled">>}], x)
  <2>1. \A c, y : Template(c, y) \notin {<<"import", "Settled">>}
    BY <1>t, <1>i
  <2>2. <<"import", "Settled">> \in {<<"import", "Settled">>} \cap ImportRows
    BY DEF ImportRows
  <2>3. QED
    BY <2>1, <2>2 DEF Gentle
<1>4. ASSUME NEW c, NEW x
      PROVE  /\ Gentle([old |-> Copies(c), new |-> {Template(c, "edited")}], TRUE)
             /\ Gentle([old |-> Copies(c), new |-> {}], x)
  <2>1. \A e : Template(e, "vault") \notin {Template(c, "edited")}
    BY <1>t
  <2>2. \A e : Template(e, "edited") \in {Template(c, "edited")} => Template(e, "vault") \in Copies(c)
    BY <1>t, <1>c
  <2>3. Copies(c) \cap ImportRows = {}
    BY <1>r, <1>t, <1>c
  <2>4. QED
    BY <2>1, <2>2, <2>3 DEF Gentle
<1>5. ASSUME NEW C, NEW x, NEW new, \A r \in new : r[1] = "vpn" PROVE Gentle([old |-> ProfileRows(C), new |-> new], x)
  <2>1. \A r \in ProfileRows(C) : r[1] = "vpn"
    BY <1>v DEF ProfileRows
  <2>2. ProfileRows(C) \cap ImportRows = {} /\ \A c, y : Template(c, y) \notin new
    BY <1>5, <1>r, <1>t, <2>1
  <2>3. QED
    BY <2>2 DEF Gentle
<1>6. ASSUME NEW C, NEW c, NEW x
      PROVE  /\ Gentle([old |-> ProfileRows({c}), new |-> {Profile(c)}], x)
             /\ Gentle([old |-> ProfileRows(C), new |-> {Entry(e) : e \in C}], x)
             /\ Gentle([old |-> ProfileRows(C), new |-> {}], x)
  <2>1. \A r \in {Profile(c)} \cup {Entry(e) : e \in C} : r[1] = "vpn"
    BY <1>v
  <2>2. QED
    BY <1>5, <2>1
<1>7. QED
  BY <1>1, <1>2, <1>3, <1>4, <1>6

(***************************************************************************)
(* The import, alone and followed by what edits.                           *)
(***************************************************************************)
LEMMA ImportOrder ==
  ASSUME NEW d, Tidy(d)
  PROVE  Orderly(ImportCalls(d), d) /\ ImportedBy(ImportCalls(d), Len(ImportCalls(d)), d)
<1>1. CASE ~NotImported(d)
  <2>1. ImportCalls(d) = <<>>
    BY <1>1 DEF ImportCalls
  <2>2. QED
    BY <1>1, <2>1, ShortOrders DEF ImportedBy
<1>2. CASE NotImported(d)
  <2>1. PICK new : new = {Template(c, "vault") : c \in vault.fields}
                         \cup {<<"import", IF vault.fields = {} THEN "Settled" ELSE "AwaitingCleanup">>}
    OBVIOUS
  <2>2. PICK w : w = Store(UNION {Copies(c) : c \in vault.fields}, new)
    OBVIOUS
  <2>3. w.do = "store" /\ w.of.new = new /\ TemplateCall(w) /\ Bringing(w.of, d)
    <3>1. w.do = "store" /\ TemplateCall(w) /\ w.of = [old |-> UNION {Copies(c) : c \in vault.fields}, new |-> new]
      BY <2>2, TemplateKinds
    <3>2. \A F : /\ F = vault.fields
                 => Bringing([old |-> UNION {Copies(c) : c \in F},
                              new |-> {Template(c, "vault") : c \in F}
                                      \cup {<<"import", IF F = {} THEN "Settled" ELSE "AwaitingCleanup">>}], d)
      BY <1>2, TemplateWrites
    <3>3. Bringing([old |-> UNION {Copies(c) : c \in vault.fields}, new |-> new], d)
      BY <2>1, <3>2
    <3>4. QED
      BY <3>1, <3>3
  <2>4. Orderly(<<w>>, d) /\ Quiet(<<Look(OpenVpn)>>)
    BY <2>3, ShortOrders, TemplateKinds
  <2>5. <<Look(OpenVpn)>> \o <<w>> = <<Look(OpenVpn), w>>
    BY Joined
  <2>6. ImportCalls(d) = <<Look(OpenVpn), w>>
    BY <1>2, <2>1, <2>2 DEF ImportCalls
  <2>7. Orderly(<<Look(OpenVpn), w>>, d)
    BY <2>4, <2>5, QuietBefore
  <2>l. PICK look : look = Look(OpenVpn)
    OBVIOUS
  <2>s. PICK s : s = <<look, w>>
    OBVIOUS
  <2>8. s = <<look, w>> /\ Len(s) = 2 /\ s[2] = w
    BY <2>s
  <2>9. new \cap ImportRows # {}
    <3>1. <<"import", IF vault.fields = {} THEN "Settled" ELSE "AwaitingCleanup">> \in ImportRows
      BY DEF ImportRows
    <3>2. QED
      BY <2>1, <3>1
  <2>10. ImportedBy(s, 2, d)
    <3>1. 2 \in 1..2
      OBVIOUS
    <3>2. QED
      BY <2>3, <2>8, <2>9, <3>1 DEF ImportedBy
  <2>11. QED
    BY <2>6, <2>7, <2>8, <2>10, <2>l
<1>3. QED
  BY <1>1, <1>2

(***************************************************************************)
(* Past a write that did the import, whatever follows is in order.         *)
(***************************************************************************)
LEMMA AfterImport ==
  ASSUME NEW d, Tidy(d), NEW t, GentleCalls(t, TRUE), NotesFirst(t)
  PROVE  Orderly(ImportCalls(d) \o t, d)
<1>1. ImportedBy(ImportCalls(d), Len(ImportCalls(d)), d) = TRUE /\ Orderly(ImportCalls(d), d)
  BY ImportOrder DEF ImportedBy
<1>2. PICK x : x = ImportedBy(ImportCalls(d), Len(ImportCalls(d)), d)
  OBVIOUS
<1>3. GentleCalls(t, x)
  BY <1>1, <1>2
<1>4. QED
  BY <1>1, <1>2, <1>3, GentleFollow

(***************************************************************************)
(* The lists of the commands on templates and profiles.                    *)
(***************************************************************************)
LEMMA TemplateLists ==
  ASSUME NEW d, Tidy(d)
  PROVE  /\ Orderly(ImportCalls(d), d) /\ Orderly(Settle, d) /\ Orderly(AwaitingCalls(d), d)
         /\ Orderly(ArchiveCalls(d), d)
         /\ \A c : /\ Orderly(SaveTemplateCalls(d, c), d) /\ Orderly(AddStarterCalls(d, c), d)
                   /\ Orderly(DeleteTemplateCalls(d, c), d)
                   /\ \A t : Orderly(GenerateCalls(d, c, t), d)
                   /\ Orderly(ImportCalls(d) \o <<Call("inject", 0), Create(VpnItem(c))>>, d)
                   /\ Orderly(<<Read(VpnItem(c)), Create(Sent(c))>>, d)
         /\ \A C : /\ Orderly(<<Store(ProfileRows(C), {Entry(c) : c \in C})>>, d)
                   /\ Orderly(<<Store(ProfileRows(C), {})>>, d)
<1>1. Orderly(ImportCalls(d), d)
  BY ImportOrder
<1>2. Orderly(Settle, d) /\ \A x : GentleCalls(Settle, x) /\ NotesFirst(Settle)
  <2>1. PICK w : w = Store(ImportRows, {<<"import", "Settled">>})
    OBVIOUS
  <2>2. TemplateCall(w) /\ w.do = "store" /\ \A x : Gentle(w.of, x)
    BY ZenonT(60), <2>1, TemplateKinds, TemplateWrites
  <2>3. w.do # "remove_fields"
    BY <2>2
  <2>4. Orderly(<<w>>, d) /\ \A x : GentleCalls(<<w>>, x)
    BY <2>2, <2>3, ShortOrders
  <2>5. QED
    BY <2>1, <2>4 DEF Settle, Orderly
<1>3. Orderly(CopyMissing(d), d)
  <2>1. PICK missing : missing = vault.fields \ Templates(d)
    OBVIOUS
  <2>2. PICK w : w = Store({}, {Template(c, "vault") : c \in missing})
    OBVIOUS
  <2>3. missing \cap Templates(d) = {}
    BY <2>1
  <2>4. TemplateCall(w) /\ w.do = "store" /\ Bringing(w.of, d)
    <3>1. w.do = "store" /\ TemplateCall(w) /\ w.of = [old |-> {}, new |-> {Template(c, "vault") : c \in missing}]
      BY <2>2, TemplateKinds
    <3>2. Bringing([old |-> {}, new |-> {Template(c, "vault") : c \in missing}], d)
      BY <2>3, TemplateWrites
    <3>3. QED
      BY <3>1, <3>2
  <2>5. w.do # "remove_fields"
    BY <2>4
  <2>6. Orderly(<<w>>, d)
    BY <2>4, <2>5, ShortOrders
  <2>7. CopyMissing(d) = IF missing = {} THEN <<>> ELSE <<w>>
    BY <2>1, <2>2 DEF CopyMissing
  <2>8. QED
    BY <2>6, <2>7, ShortOrders
<1>q. Quiet(<<Look(OpenVpn)>>) /\ Orderly(<<>>, d) /\ Orderly(<<Look(OpenVpn)>>, d)
  BY ShortOrders, TemplateKinds
<1>4. Orderly(AwaitingCalls(d), d)
  <2>1. Orderly(<<Look(OpenVpn)>> \o Settle, d) /\ Orderly(<<Look(OpenVpn)>> \o CopyMissing(d), d)
    BY <1>2, <1>3, <1>q, QuietBefore
  <2>2. QED
    BY <2>1, <1>q DEF AwaitingCalls
<1>5. Orderly(ArchiveCalls(d), d)
  <2>1. PICK a, b, c : a = Call("note_fields", 0) /\ b = Call("archive_note", 0) /\ c = Call("remove_fields", OpenVpn)
    OBVIOUS
  <2>2. /\ TemplateCall(a) /\ TemplateCall(b) /\ TemplateCall(c)
        /\ a.do = "note_fields" /\ b.do = "archive_note" /\ c.do = "remove_fields"
    BY <2>1, TemplateKinds
  <2>3. \A x : GentleCalls(<<a, b, c>>, x)
    BY <2>2, ShortOrders
  <2>4. NotesFirst(<<a, b, c>>)
    <3>0. PICK s : s = <<a, b, c>>
      OBVIOUS
    <3>1. s = <<a, b, c>> /\ Len(s) = 3 /\ s[1] = a /\ s[2] = b /\ s[3] = c
      BY <3>0
    <3>2. ASSUME NEW k \in 1..Len(s), s[k].do = "remove_fields"
          PROVE  \E j \in 1..(k - 1) : s[j].do = "archive_note" /\ \E i \in 1..(j - 1) : s[i].do = "note_fields"
      <4>1. k = 3
        BY <2>2, <3>1, <3>2
      <4>2. 2 \in 1..(k - 1) /\ 1 \in 1..(2 - 1)
        BY <4>1
      <4>3. QED
        BY <2>2, <3>1, <4>2
    <3>3. NotesFirst(s)
      BY <3>2 DEF NotesFirst
    <3>4. QED
      BY <3>1, <3>3
  <2>5. Orderly(CopyMissing(d) \o <<a, b, c>>, d)
    <3>1. PICK x : x = ImportedBy(CopyMissing(d), Len(CopyMissing(d)), d)
      OBVIOUS
    <3>2. GentleCalls(<<a, b, c>>, x)
      BY <2>3
    <3>3. QED
      BY <1>3, <2>4, <3>1, <3>2, GentleFollow
  <2>6. PICK mid : mid = IF vault.fields = {} THEN <<>> ELSE CopyMissing(d) \o <<a, b, c>>
    OBVIOUS
  <2>7. Orderly(<<Look(OpenVpn)>> \o mid, d)
    BY <1>q, <2>5, <2>6, QuietBefore
  <2>8. PICK s : s = <<Look(OpenVpn)>> \o mid
    OBVIOUS
  <2>9. PICK x : x = ImportedBy(s, Len(s), d)
    OBVIOUS
  <2>10. GentleCalls(Settle, x) /\ NotesFirst(Settle)
    BY <1>2
  <2>11. Orderly(s \o Settle, d)
    BY <2>7, <2>8, <2>9, <2>10, GentleFollow
  <2>12. ArchiveCalls(d) = s \o Settle
    BY <2>1, <2>6, <2>8 DEF ArchiveCalls
  <2>13. QED
    BY <2>11, <2>12
\* What follows an import.
<1>e. \A c : LET w == Store(Copies(c), {Template(c, "edited")})
             IN  TemplateCall(w) /\ w.do = "store" /\ Gentle(w.of, TRUE)
  <2>1. ASSUME NEW c, NEW w, w = Store(Copies(c), {Template(c, "edited")})
        PROVE  TemplateCall(w) /\ w.do = "store" /\ Gentle(w.of, TRUE)
    <3>1. w.do = "store" /\ TemplateCall(w) /\ w.of = [old |-> Copies(c), new |-> {Template(c, "edited")}]
      BY <2>1, TemplateKinds
    <3>2. Gentle([old |-> Copies(c), new |-> {Template(c, "edited")}], TRUE)
      BY TemplateWrites
    <3>3. QED
      BY <3>1, <3>2
  <2>2. QED
    BY <2>1
<1>x. \A c : LET w == Store(Copies(c), {}) IN TemplateCall(w) /\ w.do = "store" /\ Gentle(w.of, TRUE)
  <2>1. ASSUME NEW c, NEW w, w = Store(Copies(c), {}) PROVE TemplateCall(w) /\ w.do = "store" /\ Gentle(w.of, TRUE)
    <3>1. w.do = "store" /\ TemplateCall(w) /\ w.of = [old |-> Copies(c), new |-> {}]
      BY <2>1, TemplateKinds
    <3>2. Gentle([old |-> Copies(c), new |-> {}], TRUE)
      BY TemplateWrites
    <3>3. QED
      BY <3>1, <3>2
  <2>2. QED
    BY <2>1
<1>o. ASSUME NEW w, TemplateCall(w), w.do = "store", Gentle(w.of, TRUE) PROVE Orderly(ImportCalls(d) \o <<w>>, d)
  <2>1. GentleCalls(<<w>>, TRUE)
    BY <1>o, ShortOrders
  <2>2. NotesFirst(<<w>>)
    BY <1>o DEF NotesFirst
  <2>3. QED
    BY <2>1, <2>2, AfterImport
<1>6. ASSUME NEW c
      PROVE  /\ Orderly(SaveTemplateCalls(d, c), d) /\ Orderly(AddStarterCalls(d, c), d)
             /\ Orderly(DeleteTemplateCalls(d, c), d)
  <2>1. Orderly(ImportCalls(d) \o <<Store(Copies(c), {Template(c, "edited")})>>, d)
    BY <1>e, <1>o
  <2>2. Orderly(ImportCalls(d) \o <<Store(Copies(c), {})>>, d)
    BY <1>x, <1>o
  <2>3. GentleCalls(<<>>, TRUE) /\ NotesFirst(<<>>)
    BY ShortOrders DEF Orderly
  <2>4. Orderly(ImportCalls(d) \o <<>>, d)
    BY <2>3, AfterImport
  <2>5. QED
    BY <1>1, <2>1, <2>2, <2>4 DEF SaveTemplateCalls, AddStarterCalls, DeleteTemplateCalls
<1>p. /\ TemplateCall(Call("inject", 0)) /\ Call("inject", 0).do = "inject"
      /\ \A t : /\ TemplateCall(Read(t)) /\ TemplateCall(Put(t)) /\ TemplateCall(Create(t))
                /\ Read(t).do = "read" /\ Put(t).do = "put" /\ Create(t).do = "create"
  BY DEF TemplateCall, Call, Read, Put, Create
<1>7. ASSUME NEW c, NEW t PROVE Orderly(GenerateCalls(d, c, t), d)
  <2>1. PICK w : w = Store(ProfileRows({c}), {Profile(c)})
    OBVIOUS
  <2>2. TemplateCall(w) /\ w.do = "store" /\ Gentle(w.of, TRUE)
    <3>1. w.do = "store" /\ TemplateCall(w) /\ w.of = [old |-> ProfileRows({c}), new |-> {Profile(c)}]
      BY <2>1, TemplateKinds
    <3>2. Gentle([old |-> ProfileRows({c}), new |-> {Profile(c)}], TRUE)
      BY TemplateWrites
    <3>3. QED
      BY <3>1, <3>2
  <2>3. PICK a, b : a = Call("inject", 0) /\ b = Put(t)
    OBVIOUS
  <2>4. TemplateCall(a) /\ TemplateCall(b) /\ a.do = "inject" /\ b.do = "put"
    BY <1>p, <2>3
  <2>5. GentleCalls(<<a, b, w>>, TRUE)
    BY <2>2, <2>4, ShortOrders
  <2>6. NotesFirst(<<a, b, w>>)
    <3>1. PICK S : S = {a, b, w}
      OBVIOUS
    <3>2. <<a, b, w>> \in Seq(S) /\ \A e \in S : e.do # "remove_fields"
      BY <2>2, <2>4, <3>1
    <3>3. QED
      BY <3>2, NoNotes
  <2>7. Orderly(ImportCalls(d) \o <<a, b, w>>, d)
    BY <2>5, <2>6, AfterImport
  <2>8. QED
    BY <2>1, <2>3, <2>7 DEF GenerateCalls
<1>8. ASSUME NEW c PROVE Orderly(ImportCalls(d) \o <<Call("inject", 0), Create(VpnItem(c))>>, d)
  <2>1. PICK a, b : a = Call("inject", 0) /\ b = Create(VpnItem(c))
    OBVIOUS
  <2>2. TemplateCall(a) /\ TemplateCall(b) /\ a.do = "inject" /\ b.do = "create"
    BY <1>p, <2>1
  <2>3. GentleCalls(<<a, b>>, TRUE)
    BY <2>2, ShortOrders
  <2>4. NotesFirst(<<a, b>>)
    <3>1. PICK S : S = {a, b}
      OBVIOUS
    <3>2. <<a, b>> \in Seq(S) /\ \A e \in S : e.do # "remove_fields"
      BY <2>2, <3>1
    <3>3. QED
      BY <3>2, NoNotes
  <2>5. QED
    BY <2>1, <2>3, <2>4, AfterImport
<1>9. ASSUME NEW c PROVE Orderly(<<Read(VpnItem(c)), Create(Sent(c))>>, d)
  <2>1. Quiet(<<Read(VpnItem(c))>>)
    BY <1>p, ShortOrders
  <2>2. Orderly(<<Create(Sent(c))>>, d)
    BY <1>p, ShortOrders
  <2>3. <<Read(VpnItem(c))>> \o <<Create(Sent(c))>> = <<Read(VpnItem(c)), Create(Sent(c))>>
    BY Joined
  <2>4. QED
    BY <2>1, <2>2, <2>3, QuietBefore
<1>10. ASSUME NEW C
       PROVE  /\ Orderly(<<Store(ProfileRows(C), {Entry(c) : c \in C})>>, d)
              /\ Orderly(<<Store(ProfileRows(C), {})>>, d)
  <2>1. ASSUME NEW w, w \in {Store(ProfileRows(C), {Entry(c) : c \in C}), Store(ProfileRows(C), {})}
        PROVE  Orderly(<<w>>, d)
    <3>1. TemplateCall(w) /\ w.do = "store" /\ Gentle(w.of, ~NotImported(d))
      <4>1. PICK rows, entries : rows = ProfileRows(C) /\ entries = {Entry(c) : c \in C}
        OBVIOUS
      <4>2. /\ TemplateCall(w) /\ w.do = "store"
            /\ w.of \in {[old |-> rows, new |-> entries], [old |-> rows, new |-> {}]}
        <5>1. CASE w = Store(rows, entries)
          BY <5>1, TemplateKinds
        <5>2. CASE w = Store(rows, {})
          BY <5>2, TemplateKinds
        <5>3. QED
          BY <2>1, <4>1, <5>1, <5>2
      <4>3. PICK x : x = ~NotImported(d)
        OBVIOUS
      <4>4. Gentle([old |-> rows, new |-> entries], x) /\ Gentle([old |-> rows, new |-> {}], x)
        BY <4>1, TemplateWrites
      <4>5. QED
        BY <4>2, <4>3, <4>4
    <3>2. w.do # "remove_fields"
      BY <3>1
    <3>3. QED
      BY <3>1, <3>2, ShortOrders
  <2>2. QED
    BY <2>1
<1>11. QED
  BY <1>1, <1>2, <1>4, <1>5, <1>6, <1>7, <1>8, <1>9, <1>10

(***************************************************************************)
(* What a call leaves of the fields, of the note and of what it has.       *)
(***************************************************************************)
LEMMA FieldsAfter ==
  ASSUME Formed, NEW c
  PROVE  /\ VaultAfter(c).fields = IF c.do = "remove_fields" THEN {} ELSE vault.fields
         /\ VaultAfter(c).notes = IF c.do = "archive_note" THEN vault.notes \cup vault.copy ELSE vault.notes
         /\ VaultAfter(c).copy = CASE c.do = "note_fields" -> vault.copy \cup vault.fields
                                   [] c.do = "archive_note" -> {}
                                   [] OTHER -> vault.copy
<1>f. vault = [f \in VaultFields |-> vault[f]]
  BY DEF Formed
<1> USE <1>f DEF VaultFields
<1>1. CASE c.do = "store" \/ c.do \in {"new_db", "replace_db"}
  <2>1. PICK d : VaultAfter(c) = Saved(d)
    <3>1. c.do = "store" => VaultAfter(c) = Saved(Written(c))
      BY CallsDo
    <3>2. c.do \in {"new_db", "replace_db"} => VaultAfter(c) = Saved(c.of)
      BY CallsDo
    <3>3. QED
      BY <1>1, <3>1, <3>2
  <2>2. Saved(d).fields = vault.fields /\ Saved(d).notes = vault.notes /\ Saved(d).copy = vault.copy
    BY DEF Saved
  <2>3. QED
    BY <1>1, <2>1, <2>2
<1>2. CASE c.do \in {"create", "put", "archive", "archive_if_there"}
  <2>1. \/ VaultAfter(c) = [vault EXCEPT !.items[c.of] = More(@)]
        \/ VaultAfter(c) = [vault EXCEPT !.items[c.of] = 1]
        \/ VaultAfter(c) = [vault EXCEPT !.items[c.of] = 0]
    BY <1>2, CallsDo
  <2>2. QED
    BY <1>2, <2>1
<1>3. CASE c.do \in {"keep", "take", "write_file"}
  <2>1. \/ VaultAfter(c) = [vault EXCEPT !.kept = Keep(@, db)]
        \/ VaultAfter(c) = [vault EXCEPT !.draft = Take(@, c.of)]
        \/ VaultAfter(c) = [vault EXCEPT !.file = vault.draft, !.draft = NoFile]
    BY <1>3, CallsDo
  <2>2. QED
    BY <1>3, <2>1
<1>4. CASE c.do \in {"put_crl", "publish"}
  <2>1. \/ VaultAfter(c) = [vault EXCEPT !.items[<<"CRL", 0>>] = 1, !.crl = c.of]
        \/ VaultAfter(c) = [vault EXCEPT !.public = @ \cup {c.of}]
    BY <1>4, CallsDo
  <2>2. QED
    BY <1>4, <2>1
<1>5. CASE c.do = "note_fields"
  <2>1. VaultAfter(c) = [vault EXCEPT !.copy = @ \cup vault.fields]
    BY <1>5, CallsDo
  <2>2. QED
    BY <1>5, <2>1
<1>6. CASE c.do = "archive_note"
  <2>1. VaultAfter(c) = [vault EXCEPT !.notes = @ \cup vault.copy, !.copy = {}]
    BY <1>6, CallsDo
  <2>2. QED
    BY <1>6, <2>1
<1>7. CASE c.do = "remove_fields"
  <2>1. VaultAfter(c) = [vault EXCEPT !.fields = {}]
    BY <1>7, CallsDo
  <2>2. QED
    BY <1>7, <2>1
<1>8. CASE c.do \notin {"create", "put", "archive", "archive_if_there", "store", "new_db", "replace_db", "keep",
                        "take", "write_file", "put_crl", "publish", "note_fields", "archive_note", "remove_fields"}
  <2>1. VaultAfter(c) = vault
    BY <1>8, CallsDo
  <2>2. QED
    BY <1>8, <2>1
<1>9. QED
  BY <1>1, <1>2, <1>3, <1>4, <1>5, <1>6, <1>7, <1>8

(***************************************************************************)
(* A write in order leaves a tidy database, does not bring back over an    *)
(* edited template the one of the item, and keeps that the import was run. *)
(***************************************************************************)
LEMMA TidyWrite ==
  ASSUME NEW d, Tidy(d), NEW w, Gentle(w, ~NotImported(d)) \/ Bringing(w, d)
  PROVE  LET e == (d \ w.old) \cup w.new
         IN  /\ Tidy(e) /\ \A c \in Name : Template(c, "edited") \in d => Template(c, "vault") \notin e
             /\ ~NotImported(d) => ~NotImported(e)
             /\ w.new \cap ImportRows # {} => ~NotImported(e)
<1>1. PICK e : e = (d \ w.old) \cup w.new
  OBVIOUS
<1>2. \A c \in Name : Template(c, "edited") \in d => Template(c, "vault") \notin e
  BY <1>1 DEF Tidy, Gentle, Bringing
<1>3. ~NotImported(d) => ~NotImported(e)
  BY <1>1 DEF NotImported, Gentle, Bringing
<1>4. w.new \cap ImportRows # {} => ~NotImported(e)
  BY <1>1 DEF NotImported
<1>5. ASSUME NEW c \in Name, Template(c, "edited") \in e PROVE Template(c, "vault") \notin e
  <2>1. CASE Template(c, "edited") \in d
    BY <1>2, <2>1
  <2>2. CASE Template(c, "edited") \notin d
    <3>1. Template(c, "edited") \in w.new
      BY <1>1, <1>5, <2>2
    <3>2. ~Bringing(w, d)
      BY <3>1 DEF Bringing
    <3>3. QED
      BY <1>1, <3>1, <3>2 DEF Gentle
  <2>3. QED
    BY <2>1, <2>2
<1>6. ASSUME NEW c \in Name, Template(c, "edited") \in e PROVE ~NotImported(e)
  <2>1. CASE Template(c, "edited") \in d
    BY <1>3, <2>1 DEF Tidy
  <2>2. CASE Template(c, "edited") \notin d
    <3>1. Template(c, "edited") \in w.new
      BY <1>1, <1>6, <2>2
    <3>2. ~Bringing(w, d)
      BY <3>1 DEF Bringing
    <3>3. ~NotImported(d)
      BY <3>1, <3>2 DEF Gentle
    <3>4. QED
      BY <1>3, <3>3
  <2>3. QED
    BY <2>1, <2>2
<1>7. Tidy(e)
  BY <1>5, <1>6 DEF Tidy
<1>8. QED
  BY <1>1, <1>2, <1>3, <1>4, <1>7

\* What TemplatesKept says of a step.
KeepsTemplates ==
    /\ vault.fields \ vault'.fields \subseteq vault'.notes
    /\ client = client' => \A c \in Name : Template(c, "edited") \in db => Template(c, "vault") \notin db'

(***************************************************************************)
(* Whatever becomes of a call, the templates are kept and the rest of the  *)
(* list stays in order.                                                    *)
(***************************************************************************)
LEMMA TemplateCallStep ==
  ASSUME TemplateInv, Formed, area \in {"openvpn", "profiles"}, Succeeds \/ Refused \/ Fails
  PROVE  TemplateInv' /\ KeepsTemplates
<1>1. PICK c : run.calls # <<>> /\ c = Head(run.calls) /\ (Done(c) \/ Lost(c))
  BY CallSteps
<1>o. PICK calls : calls = run.calls /\ Orderly(calls, db)
  BY DEF TemplateInv
<1>2. PICK S : calls \in Seq(S) /\ \A e \in S : TemplateCall(e)
  BY <1>o DEF Orderly, TemplateCalls
<1>3. PICK m \in Nat : m = Len(calls) /\ m > 0
  BY <1>1, <1>2, <1>o, LenProperties, EmptySeq
<1>4. c = calls[1] /\ c \in S /\ TemplateCall(c) /\ 1 \in 1..Len(calls)
  BY <1>1, <1>2, <1>3, <1>o, ElementOfSeq
<1>5. PICK rest : rest = Tail(calls)
  OBVIOUS
<1>6. rest \in Seq(S) /\ Len(rest) = m - 1 /\ \A i \in 1..(m - 1) : rest[i] = calls[i + 1]
  BY <1>1, <1>2, <1>3, <1>5, <1>o, HeadTailProperties
<1>7. c.do \notin {"rows", "publish", "new_db", "replace_db"} /\ c.on = "stop"
  BY <1>4 DEF TemplateCall
<1>8. /\ db' \in {db, Written(c)} /\ (Done(c) => db' = Written(c))
      /\ vault' = vault \/ vault' = VaultAfter(c)
      /\ Done(c) => vault' = VaultAfter(c)
  BY <1>1, <1>7 DEF Done, Lost, DbAfter
<1>9. vault'.saved \in {vault.saved, Written(c)}
  <2>1. VaultAfter(c).saved \in {vault.saved, Written(c)}
    <3>1. PICK v : v = VaultAfter(c)
      OBVIOUS
    <3>2. CASE c.do = "store"
      <4>1. v = Saved(Written(c))
        BY <3>1, <3>2, CallsDo
      <4>2. QED
        BY <3>1, <4>1 DEF Saved, Formed, VaultFields
    <3>3. CASE c.do # "store"
      <4>1. \/ v = vault \/ v = [vault EXCEPT !.items[c.of] = More(@)] \/ v = [vault EXCEPT !.items[c.of] = 1]
            \/ v = [vault EXCEPT !.copy = @ \cup vault.fields]
            \/ v = [vault EXCEPT !.notes = @ \cup vault.copy, !.copy = {}]
            \/ v = [vault EXCEPT !.fields = {}]
        BY <1>4, <3>1, <3>3, CallsDo DEF TemplateCall
      <4>2. QED
        BY <3>1, <4>1 DEF Formed, VaultFields
    <3>4. QED
      BY <3>2, <3>3
  <2>2. QED
    BY <1>8, <2>1
<1>10. c.do # "store" => Written(c) = db
  BY <1>7 DEF Written
<1>11. c.do = "store" => /\ Written(c) = (db \ c.of.old) \cup c.of.new
                         /\ Gentle(c.of, ~NotImported(db)) \/ Bringing(c.of, db)
  <2>1. ASSUME c.do = "store" PROVE Gentle(c.of, ~NotImported(db)) \/ Bringing(c.of, db)
    <3>1. \/ Gentle(c.of, ImportedBy(calls, 1 - 1, db))
          \/ Bringing(c.of, db)
      BY <1>4, <1>o, <2>1 DEF Orderly, WritesInOrder
    <3>2. ImportedBy(calls, 1 - 1, db) = ~NotImported(db)
      <4>1. \A j \in 1..(1 - 1) : FALSE
        OBVIOUS
      <4>2. QED
        BY <4>1 DEF ImportedBy
    <3>3. QED
      BY <3>1, <3>2
  <2>2. QED
    BY <2>1 DEF Written
<1>t. Tidy(db) /\ Tidy(vault.saved)
  BY DEF TemplateInv
<1>12. /\ Tidy(Written(c)) /\ \A k \in Name : Template(k, "edited") \in db => Template(k, "vault") \notin Written(c)
       /\ ~NotImported(db) => ~NotImported(Written(c))
       /\ c.do = "store" /\ c.of.new \cap ImportRows # {} => ~NotImported(Written(c))
  <2>1. CASE c.do = "store"
    <3>1. PICK w : w = c.of
      OBVIOUS
    <3>2. PICK e : e = (db \ w.old) \cup w.new
      OBVIOUS
    <3>3. /\ Tidy(e) /\ \A k \in Name : Template(k, "edited") \in db => Template(k, "vault") \notin e
          /\ ~NotImported(db) => ~NotImported(e)
          /\ w.new \cap ImportRows # {} => ~NotImported(e)
      BY <1>11, <1>t, <2>1, <3>1, <3>2, TidyWrite
    <3>4. QED
      BY <1>11, <2>1, <3>1, <3>2, <3>3
  <2>2. CASE c.do # "store"
    BY <1>10, <1>t, <2>2 DEF Tidy
  <2>3. QED
    BY <2>1, <2>2
<1>13. Tidy(db') /\ Tidy(vault'.saved)
  BY <1>8, <1>9, <1>12, <1>t
\* The fields and the note.
<1>14. \/ vault' = vault
       \/ /\ vault'.fields = IF c.do = "remove_fields" THEN {} ELSE vault.fields
          /\ vault'.notes = IF c.do = "archive_note" THEN vault.notes \cup vault.copy ELSE vault.notes
          /\ vault'.copy = CASE c.do = "note_fields" -> vault.copy \cup vault.fields
                            [] c.do = "archive_note" -> {}
                            [] OTHER -> vault.copy
  BY <1>8, FieldsAfter
<1>15. vault'.fields \subseteq vault.fields /\ vault.notes \subseteq vault'.notes
  BY <1>14
<1>16. vault.fields \ vault'.fields \subseteq vault'.notes
  <2>1. CASE c.do = "remove_fields"
    <3>1. \/ vault.fields \subseteq vault.notes
          \/ \E j \in 1..(1 - 1) : calls[j].do = "archive_note"
      BY <1>4, <1>o, <2>1 DEF Orderly, NotesFirst
    <3>2. QED
      BY <1>15, <3>1
  <2>2. CASE c.do # "remove_fields"
    BY <1>14, <2>2
  <2>3. QED
    BY <2>1, <2>2
<1>17. KeepsTemplates
  BY <1>8, <1>12, <1>16, <1>t DEF KeepsTemplates, Tidy
\* What is left to do.
<1>18. ASSUME NEW i \in 1..Len(rest)
       PROVE  /\ i + 1 \in 1..Len(calls) /\ rest[i] = calls[i + 1]
              /\ \A j \in 1..i : j = 1 \/ (j - 1 \in 1..(i - 1) /\ rest[j - 1] = calls[j])
  BY <1>3, <1>6
<1>19. ASSUME Done(c) PROVE WritesInOrder(rest, db')
  <2>1. db' = Written(c)
    BY <1>8, <1>19
  <2>2. ASSUME NEW i \in 1..Len(rest), rest[i].do = "store"
        PROVE  \/ Gentle(rest[i].of, ImportedBy(rest, i - 1, db'))
               \/ Bringing(rest[i].of, db') /\ \A j \in 1..(i - 1) : rest[j].do # "store"
    <3>1. i + 1 \in 1..Len(calls) /\ rest[i] = calls[i + 1] /\ (i + 1) - 1 = i /\ 1 \in 1..i /\ i \in Nat
      BY <1>18, <1>6, <1>3
    <3>2. \/ Gentle(calls[i + 1].of, ImportedBy(calls, (i + 1) - 1, db))
          \/ Bringing(calls[i + 1].of, db) /\ \A j \in 1..((i + 1) - 1) : calls[j].do # "store"
      BY <1>o, <2>2, <3>1 DEF Orderly, WritesInOrder
    <3>3. ImportedBy(calls, i, db) => ImportedBy(rest, i - 1, db')
      <4>1. SUFFICES ASSUME ImportedBy(calls, i, db), NotImported(db') PROVE ImportedBy(rest, i - 1, db')
        BY DEF ImportedBy
      <4>2. NotImported(db)
        BY <1>12, <2>1, <4>1
      <4>3. PICK j \in 1..i : calls[j].do = "store" /\ calls[j].of.new \cap ImportRows # {}
        BY <4>1, <4>2 DEF ImportedBy
      <4>4. j # 1
        BY <1>4, <1>12, <2>1, <4>1, <4>3
      <4>5. j - 1 \in 1..(i - 1) /\ rest[j - 1] = calls[j]
        BY <1>18, <4>4
      <4>6. QED
        BY <4>3, <4>5 DEF ImportedBy
    <3>4. CASE Gentle(calls[i + 1].of, ImportedBy(calls, i, db))
      <4>1. Gentle(rest[i].of, ImportedBy(rest, i - 1, db'))
        BY <3>1, <3>3, <3>4 DEF Gentle
      <4>2. QED
        BY <4>1
    <3>5. CASE Bringing(calls[i + 1].of, db) /\ \A j \in 1..i : calls[j].do # "store"
      <4>1. c.do # "store" /\ db' = db
        BY <1>4, <1>10, <2>1, <3>1, <3>5
      <4>2. \A j \in 1..(i - 1) : j + 1 \in 1..i /\ j \in 1..(m - 1)
        BY SMTT(60), <1>3, <1>6, <3>1
      <4>3. \A j \in 1..(i - 1) : rest[j].do # "store"
        BY <1>6, <3>5, <4>2
      <4>4. QED
        BY <3>1, <3>5, <4>1, <4>3
    <3>6. QED
      BY <3>1, <3>2, <3>4, <3>5
  <2>3. QED
    BY <2>2 DEF WritesInOrder
<1>20. ASSUME Done(c) PROVE NotesFirst(rest)'
  <2>1. /\ vault'.fields = IF c.do = "remove_fields" THEN {} ELSE vault.fields
        /\ vault'.notes = IF c.do = "archive_note" THEN vault.notes \cup vault.copy ELSE vault.notes
        /\ vault'.copy = CASE c.do = "note_fields" -> vault.copy \cup vault.fields
                          [] c.do = "archive_note" -> {}
                          [] OTHER -> vault.copy
    BY <1>8, <1>20, FieldsAfter
  <2>2. ASSUME NEW k \in 1..Len(rest), rest[k].do = "remove_fields", ~(vault'.fields \subseteq vault'.notes)
        PROVE  \E j \in 1..(k - 1) : /\ rest[j].do = "archive_note"
                                     /\ \/ vault'.fields \subseteq vault'.copy
                                        \/ \E i \in 1..(j - 1) : rest[i].do = "note_fields"
    <3>1. k + 1 \in 1..Len(calls) /\ rest[k] = calls[k + 1] /\ (k + 1) - 1 = k /\ k \in Nat
      BY <1>3, <1>6, <1>18
    <3>2. ~(vault.fields \subseteq vault.notes)
      BY <1>15, <2>2
    <3>3. PICK j \in 1..k : /\ calls[j].do = "archive_note"
                            /\ \/ vault.fields \subseteq vault.copy
                               \/ \E i \in 1..(j - 1) : calls[i].do = "note_fields"
      BY <1>o, <2>2, <3>1, <3>2 DEF Orderly, NotesFirst
    <3>4. j # 1
      <4>1. ASSUME j = 1 PROVE FALSE
        <5>1. c.do = "archive_note" /\ \A i \in 1..(j - 1) : FALSE
          BY <1>4, <3>3, <4>1
        <5>2. vault.fields \subseteq vault.copy
          BY <3>3, <5>1
        <5>3. QED
          BY <2>1, <2>2, <5>1, <5>2
      <4>2. QED
        BY <4>1
    <3>5. j - 1 \in 1..(k - 1) /\ rest[j - 1] = calls[j] /\ j - 1 \in 1..Len(rest) /\ (j - 1) - 1 = j - 2
      BY <1>3, <1>6, <1>18, <3>4
    <3>6. vault'.fields \subseteq vault'.copy \/ \E i \in 1..((j - 1) - 1) : rest[i].do = "note_fields"
      <4>1. CASE vault.fields \subseteq vault.copy
        <5>1. c.do # "archive_note"
          BY <2>1, <2>2, <4>1
        <5>2. QED
          BY <2>1, <4>1, <5>1
      <4>2. CASE \E i \in 1..(j - 1) : calls[i].do = "note_fields"
        <5>1. PICK i \in 1..(j - 1) : calls[i].do = "note_fields"
          BY <4>2
        <5>2. CASE i = 1
          <6>1. c.do = "note_fields"
            BY <1>4, <5>1, <5>2
          <6>2. QED
            BY <2>1, <6>1
        <5>3. CASE i # 1
          <6>1. i \in 1..k /\ i - 1 \in 1..((j - 1) - 1)
            BY <3>1, <3>5, <5>3
          <6>2. rest[i - 1] = calls[i]
            BY <1>18, <5>3, <6>1
          <6>3. QED
            BY <5>1, <6>1, <6>2
        <5>4. QED
          BY <5>2, <5>3
      <4>3. QED
        BY <3>3, <4>1, <4>2
    <3>7. QED
      BY <3>3, <3>5, <3>6
  <2>3. QED
    BY <2>2 DEF NotesFirst
<1>21. Orderly(run.calls, db)'
  <2>1. CASE Done(c)
    <3>1. run'.calls = rest
      BY <1>5, <1>o, <2>1 DEF Done
    <3>2. TemplateCalls(rest)
      BY <1>2, <1>6 DEF TemplateCalls
    <3>3. WritesInOrder(rest, db') /\ NotesFirst(rest)'
      BY <1>19, <1>20, <2>1
    <3>4. QED
      BY <3>1, <3>2, <3>3 DEF Orderly, TemplateCalls, TemplateCall, WritesInOrder, NotesFirst
  <2>2. CASE Lost(c)
    <3>1. run'.calls = <<>>
      BY <1>7, <2>2 DEF Lost
    <3>2. TemplateCalls(<<>>) /\ \A d : WritesInOrder(<<>>, d)
      BY ShortOrders DEF Orderly
    <3>3. NotesFirst(<<>>)'
      BY DEF NotesFirst
    <3>4. QED
      BY <3>1, <3>2, <3>3 DEF Orderly
  <2>3. QED
    BY <1>1, <2>1, <2>2
<1>22. vault'.bad = FALSE
  BY <1>8, BadKept DEF TemplateInv
<1>23. QED
  BY <1>13, <1>17, <1>21, <1>22 DEF TemplateInv

(***************************************************************************)
(* A command that starts, goes on or ends with calls in order.             *)
(***************************************************************************)
LEMMA TemplateStart ==
  ASSUME TemplateInv, vault' = vault, db' \in {db, {}, Retrieved}, Orderly(run'.calls, db'),
         client' = client => db' \in {db, {}}
  PROVE  TemplateInv' /\ KeepsTemplates
<1>1. Tidy({})
  BY DEF Tidy
<1>2. Retrieved \in {{}, vault.saved}
  BY DEF Retrieved
<1>3. Tidy(db') /\ Tidy(vault'.saved) /\ vault'.bad = FALSE
  BY <1>1, <1>2 DEF TemplateInv
<1>4. PICK calls, d : calls = run'.calls /\ d = db'
  OBVIOUS
<1>5. Orderly(calls, d)
  BY <1>4
<1>6. TemplateCalls(calls) /\ WritesInOrder(calls, d) /\ NotesFirst(calls)
  BY <1>5 DEF Orderly
<1>7. NotesFirst(calls)'
  BY <1>6 DEF NotesFirst
<1>8. Orderly(run.calls, db)'
  BY <1>4, <1>6, <1>7 DEF Orderly
<1>9. KeepsTemplates
  BY DEF KeepsTemplates, TemplateInv, Tidy
<1>10. QED
  BY <1>3, <1>8, <1>9 DEF TemplateInv

(***************************************************************************)
(* What the commands of the two areas start or go on with, and what an     *)
(* older client adds.                                                      *)
(***************************************************************************)
LEMMA TemplateMove ==
  ASSUME TemplateInv, Formed, OpenVpnNext \/ ProfileNext
  PROVE  TemplateInv' /\ KeepsTemplates
<1>d. Retrieved = vault.saved /\ Tidy(db) /\ Tidy(Retrieved)
  BY DEF TemplateInv, Retrieved
<1>a. ASSUME NEW cmd, NEW calls, InApp(cmd, calls), Orderly(calls, db) PROVE TemplateInv' /\ KeepsTemplates
  <2>1. Starts(calls, db)
    BY <1>a, AppStarts
  <2>2. run'.calls = calls /\ vault' = vault /\ db' = db
    BY <2>1 DEF Starts
  <2>3. QED
    BY <1>a, <2>2, TemplateStart
<1>c. ASSUME NEW cmd, NEW calls, InCli(cmd, calls, <<>>), Orderly(calls, vault.saved)
      PROVE  TemplateInv' /\ KeepsTemplates
  <2>1. Starts(calls, Retrieved) /\ client' # client
    BY <1>c, CliStarts DEF InCli
  <2>2. run'.calls = calls /\ vault' = vault /\ db' = Retrieved
    BY <2>1 DEF Starts
  <2>3. QED
    BY <1>c, <1>d, <2>1, <2>2, TemplateStart
<1>q. /\ Quiet(<<Put(OpenVpn)>>) /\ Quiet(<<Look(OpenVpn)>>) /\ Quiet(<<>>)
      /\ \A d : Orderly(<<Put(OpenVpn)>>, d)
  <2>1. Quiet(<<>>)
    <3>1. PICK S : S = {}
      OBVIOUS
    <3>2. <<>> \in Seq(S) /\ \A c \in S : TemplateCall(c) /\ c.do \notin {"store", "remove_fields"}
      BY <3>1
    <3>3. QED
      BY <3>2 DEF Quiet
  <2>2. TemplateCall(Put(OpenVpn)) /\ Put(OpenVpn).do = "put" /\ TemplateCall(Look(OpenVpn)) /\ Look(OpenVpn).do = "look"
    BY DEF TemplateCall, Put, Look, Call
  <2>3. QED
    BY <2>1, <2>2, ShortOrders
<1>1. ASSUME ListTemplates \/ ListVaultTemplates \/ ArchiveVaultTemplates \/ KeepVaultTemplates
      PROVE  TemplateInv' /\ KeepsTemplates
  BY <1>1, <1>a, <1>d, TemplateLists DEF ListTemplates, ListVaultTemplates, ArchiveVaultTemplates, KeepVaultTemplates
<1>2. ASSUME GenerateKeys \/ CliStoreKeys PROVE TemplateInv' /\ KeepsTemplates
  BY <1>2, <1>a, <1>c, <1>q DEF GenerateKeys, CliStoreKeys
<1>3. ASSUME CliGetTemplate PROVE TemplateInv' /\ KeepsTemplates
  BY <1>3, <1>c, <1>d, TemplateLists DEF CliGetTemplate
<1>4. ASSUME NEW c \in Name, SaveTemplate(c) \/ DeleteTemplate(c) PROVE TemplateInv' /\ KeepsTemplates
  BY <1>4, <1>a, <1>d, TemplateLists DEF SaveTemplate, DeleteTemplate
<1>5. ASSUME NEW c \in Name, SetupServer(c) PROVE TemplateInv' /\ KeepsTemplates
  <2>1. PICK calls \in {<<Put(OpenVpn)>>, <<>>} :
          InApp("setup_openvpn_server", <<Look(OpenVpn)>> \o calls \o AddStarterCalls(db, c))
    BY <1>5 DEF SetupServer
  <2>2. Quiet(<<Look(OpenVpn)>> \o calls)
    <3>1. <<Look(OpenVpn)>> \o calls \in {<<Look(OpenVpn), Put(OpenVpn)>>, <<Look(OpenVpn)>>}
      BY <2>1, Joined
    <3>2. PICK S : S = {Look(OpenVpn), Put(OpenVpn)}
      OBVIOUS
    <3>3. \A e \in S : TemplateCall(e) /\ e.do \notin {"store", "remove_fields"}
      BY <3>2 DEF TemplateCall, Put, Look, Call
    <3>4. <<Look(OpenVpn), Put(OpenVpn)>> \in Seq(S) /\ <<Look(OpenVpn)>> \in Seq(S)
      BY <3>2
    <3>5. QED
      BY <3>1, <3>3, <3>4 DEF Quiet
  <2>3. Orderly(AddStarterCalls(db, c), db)
    BY <1>d, TemplateLists
  <2>4. PICK s, t : s = <<Look(OpenVpn)>> \o calls /\ t = AddStarterCalls(db, c)
    OBVIOUS
  <2>5. Orderly(s \o t, db)
    BY <2>2, <2>3, <2>4, QuietBefore
  <2>6. QED
    BY <2>1, <2>4, <2>5, <1>a
<1>6. ASSUME NEW c \in Name, CliSetup(c) PROVE TemplateInv' /\ KeepsTemplates
  <2>1. PICK t : t = AddStarterCalls(vault.saved, c)
    OBVIOUS
  <2>2. Orderly(t, vault.saved)
    BY <1>d, <2>1, TemplateLists
  <2>3. Orderly(<<Put(OpenVpn)>> \o t, vault.saved)
    BY <1>q, <2>2, QuietBefore
  <2>4. QED
    BY <1>6, <1>c, <2>1, <2>3 DEF CliSetup
<1>7. ASSUME NEW c \in Name, OlderClientAdds(c) PROVE TemplateInv' /\ KeepsTemplates
  <2>1. run = Idle /\ run' = run /\ db' = db /\ client' = client
    BY <1>7 DEF OlderClientAdds, Formed
  <2>2. vault' = [vault EXCEPT !.fields = @ \cup {c}, !.items[OpenVpn] = 1]
    BY <1>7 DEF OlderClientAdds
  <2>3. vault.fields \subseteq vault'.fields /\ vault'.saved = vault.saved /\ vault'.bad = vault.bad
    BY <2>2 DEF Formed, VaultFields
  <2>4. run'.calls = <<>>
    BY <2>1 DEF Idle
  <2>5. TemplateCalls(<<>>) /\ \A d : WritesInOrder(<<>>, d)
    BY ShortOrders DEF Orderly
  <2>6. NotesFirst(<<>>)'
    BY DEF NotesFirst
  <2>7. Orderly(run.calls, db)'
    BY <2>4, <2>5, <2>6 DEF Orderly
  <2>8. QED
    BY <2>1, <2>3, <2>7 DEF TemplateInv, KeepsTemplates, Tidy
<1>8. ASSUME NEW c \in Name, GenerateProfile(c, VpnItem(c)) \/ GenerateProfile(c, Sent(c)) \/ SendProfile(c)
      PROVE  TemplateInv' /\ KeepsTemplates
  BY <1>8, <1>a, <1>d, TemplateLists DEF GenerateProfile, SendProfile
<1>9. ASSUME NEW c \in Name, CliGenerateProfile(c) PROVE TemplateInv' /\ KeepsTemplates
  BY <1>9, <1>c, <1>d, TemplateLists DEF CliGenerateProfile
<1>10. ASSUME NEW C, AddEntries(C) \/ DeleteProfiles(C) PROVE TemplateInv' /\ KeepsTemplates
  BY <1>10, <1>a, <1>d, TemplateLists DEF AddEntries, DeleteProfiles
<1>11. ASSUME NEW todo, BulkGenerateProfiles(todo) PROVE TemplateInv' /\ KeepsTemplates
  <2>1. run'.calls = <<>> /\ vault' = vault /\ db' = db
    BY <1>11 DEF BulkGenerateProfiles, BulkInApp, Started, Idle
  <2>2. QED
    BY <2>1, ShortOrders, TemplateStart
<1>12. ASSUME NEW c, NextItem(GenerateCalls(db, c, VpnItem(c))) PROVE TemplateInv' /\ KeepsTemplates
  <2>1. run'.calls = GenerateCalls(db, c, VpnItem(c)) /\ vault' = vault /\ db' = db
    BY <1>12 DEF NextItem, Formed, RunFields
  <2>2. Orderly(GenerateCalls(db, c, VpnItem(c)), db)
    BY <1>d, TemplateLists
  <2>3. QED
    BY <2>1, <2>2, TemplateStart
<1>13. QED
  <2>1. CASE OpenVpnNext
    BY <2>1, <1>1, <1>2, <1>3, <1>4, <1>5, <1>6, <1>7 DEF OpenVpnNext
  <2>2. CASE ProfileNext
    BY <2>2, <1>8, <1>9, <1>10, <1>11, <1>12 DEF ProfileNext
  <2>3. QED
    BY <2>1, <2>2

(***************************************************************************)
(* Elsewhere there are no templates on the item.                           *)
(***************************************************************************)
LEMMA NoFields ==
  ASSUME Formed, CommandNext, area \notin {"openvpn", "profiles"}, vault.fields = {}
  PROVE  vault'.fields = {}
<1>1. ASSUME Succeeds \/ Refused \/ Fails PROVE vault'.fields = {}
  <2>1. PICK c : Done(c) \/ Lost(c)
    BY <1>1, CallSteps
  <2>2. vault' \in {vault, VaultAfter(c), Damaged}
    BY <2>1 DEF Done, Lost
  <2>3. Damaged.fields = vault.fields
    BY DEF Damaged, Formed, VaultFields
  <2>4. VaultAfter(c).fields \in {vault.fields, {}}
    BY FieldsAfter
  <2>5. QED
    BY <2>2, <2>3, <2>4
<1>2. ASSUME Ends \/ OpenApp \/ CloseApp \/ Crash PROVE vault'.fields = {}
  BY <1>2, RestSteps DEF Rests
<1>3. ASSUME StartsInApp \/ StartsInCli \/ StartsList \/ NextOfList PROVE vault'.fields = {}
  BY <1>3 DEF StartsInApp, StartsInCli, StartsList, NextOfList, InApp, InCli, BulkInApp, NextItem
<1>4. ASSUME Elsewhere PROVE vault'.fields = {}
  <2>1. ASSUME NEW c \in Name, DeletedElsewhere(c) \/ Expire(c) PROVE vault'.fields = {}
    BY <2>1 DEF DeletedElsewhere, Expire, Formed, VaultFields
  <2>2. ASSUME DatabaseRemoved \/ CreateVault \/ LoadCa PROVE vault'.fields = {}
    BY <2>2 DEF DatabaseRemoved, CreateVault, LoadCa, Formed, VaultFields, Empty
  <2>3. QED
    BY <1>4, <2>1, <2>2 DEF Elsewhere
<1>5. QED
  BY <1>1, <1>2, <1>3, <1>4, StepKinds

(***************************************************************************)
(* A command is of one area.                                               *)
(***************************************************************************)
LEMMA AreaStays ==
  ASSUME CommandNext
  PROVE  area' = area
<1>1. Elsewhere => area' = area
  BY DEF Elsewhere, DeletedElsewhere, OlderClientAdds, Expire, DatabaseRemoved, CreateVault, LoadCa
<1>2. StartsInApp \/ StartsInCli \/ StartsList \/ NextOfList => area' = area
  BY DEF StartsInApp, StartsInCli, StartsList, NextOfList, InApp, InCli, BulkInApp, NextItem
<1>3. Succeeds \/ Refused \/ Fails \/ Ends \/ OpenApp \/ CloseApp \/ Crash => area' = area
  BY DEF Succeeds, Refused, Fails, Ends, OpenApp, CloseApp, Crash, Leave
<1>4. QED
  BY <1>1, <1>2, <1>3, StepKinds

VpnAreas == {"openvpn", "profiles"}
KeptInv == RowsInv /\ IF area \in VpnAreas THEN TemplateInv ELSE vault.fields = {}

(***************************************************************************)
(* It holds at first: nothing was imported yet.                            *)
(***************************************************************************)
LEMMA KeptStart == Init => KeptInv
<1> SUFFICES ASSUME Init PROVE KeptInv
  OBVIOUS
<1>1. PICK F : /\ F # {} => area \in VpnAreas
               /\ vault = [Empty EXCEPT !.fields = F, !.items[OpenVpn] = IF F = {} THEN 0 ELSE 1,
                                        !.saved = IF area \in {"cert", "marks"} THEN {Serial(1)} ELSE {}]
  BY DEF Init, VpnAreas
<1>2. vault.fields = F /\ vault.saved = (IF area \in {"cert", "marks"} THEN {Serial(1)} ELSE {}) /\ vault.bad = FALSE
  BY <1>1 DEF Empty
<1>3. db = {} /\ run.calls = <<>>
  BY DEF Init, Idle
<1>4. ASSUME area \in VpnAreas PROVE TemplateInv
  <2>1. vault.saved = {} /\ Tidy({})
    BY <1>2, <1>4 DEF VpnAreas, Tidy
  <2>2. QED
    BY <1>2, <1>3, <2>1, ShortOrders DEF TemplateInv
<1>5. QED
  BY <1>1, <1>2, <1>4, RowsStart DEF KeptInv

(***************************************************************************)
(* Every command keeps it, and the templates.                              *)
(***************************************************************************)
LEMMA KeptCommand ==
  ASSUME KeptInv, CommandNext, RowsInv'
  PROVE  KeptInv' /\ KeepsTemplates
<1>1. area' = area
  BY AreaStays
<1>f. Formed
  BY DEF KeptInv, RowsInv, CallsInv, CsrInv, OwnInv
<1>2. CASE area \in VpnAreas
  <2>1. TemplateInv /\ area \in {"openvpn", "profiles"}
    BY <1>2 DEF KeptInv, VpnAreas
  <2>2. CASE OpenVpnNext \/ ProfileNext
    BY <1>1, <1>2, <1>f, <2>1, <2>2, TemplateMove DEF KeptInv
  <2>3. CASE Succeeds \/ Refused \/ Fails
    BY <1>1, <1>2, <1>f, <2>1, <2>3, TemplateCallStep DEF KeptInv
  <2>4. CASE Ends \/ OpenApp \/ CloseApp \/ Crash
    <3>1. /\ vault' = vault /\ run' = Idle /\ db' \in {db, {}, Retrieved}
          /\ client' = client => db' \in {db, {}}
      BY <1>f, <2>4, RestSteps DEF Rests
    <3>2. run'.calls = <<>>
      BY <3>1 DEF Idle
    <3>3. QED
      BY <1>1, <1>2, <2>1, <3>1, <3>2, ShortOrders, TemplateStart DEF KeptInv
  <2>5. QED
    BY <2>1, <2>2, <2>3, <2>4 DEF CommandNext, CsrNext, DkimNext, CertNext, MarkNext, CaNext
<1>3. CASE area \notin VpnAreas
  <2>1. vault.fields = {} /\ vault'.fields = {}
    BY <1>3, <1>f, NoFields DEF KeptInv, VpnAreas
  <2>2. \A c : Template(c, "vault") \notin db'
    <3>1. \A c : Template(c, "vault")[1] = "tpl"
      BY DEF Template
    <3>2. CASE area = "csr"
      <4>1. CsrRowsOnly(db')
        BY <1>1, <3>2 DEF RowsInv, CallsInv, CsrInv, CsrSound, CsrRowsOnly
      <4>2. \A r \in db' : r[1] # "tpl"
        BY <4>1 DEF CsrRowsOnly, External, Pending, Complete
      <4>3. QED
        BY <3>1, <4>2
    <3>3. CASE area # "csr"
      <4>1. Tagged(db, Tags)'
        BY <1>1, <3>3 DEF RowsInv, CallsInv, OwnInv, OwnState
      <4>2. "tpl" \notin Tags'
        BY <1>1, <1>3 DEF Tags, WrittenTags, VpnAreas
      <4>3. QED
        BY <3>1, <4>1, <4>2 DEF Tagged
    <3>4. QED
      BY <3>2, <3>3
  <2>3. QED
    BY <1>1, <1>3, <2>1, <2>2 DEF KeptInv, KeepsTemplates
<1>4. QED
  BY <1>2, <1>3

(***************************************************************************)
(* Moving OpenVPN templates from the item into the database loses none and *)
(* reverts none, for any names, older clients and failures: a template     *)
(* leaves the item when a note of it is archived, and one that was edited  *)
(* is not overwritten by the item's.                                       *)
(***************************************************************************)
THEOREM TemplatesStay == Spec => TemplatesKept
<1>1. ASSUME KeptInv, [Next]_<<vars, sessionVars, schemaVars, copyVars, watchVars>>
      PROVE  KeptInv' /\ [KeepsTemplates]_vars
  <2>1. RowsInv'
    BY <1>1, RowsStep DEF KeptInv
  <2>2. CASE UNCHANGED vars
    <3>1. UNCHANGED <<area, vault, db, client, run, past, faults>>
      BY <2>2 DEF vars
    <3>2. PICK calls, d : calls = run.calls /\ calls = run'.calls /\ d = db /\ d = db'
      BY <3>1
    <3>3. Orderly(calls, d)' = Orderly(calls, d)
      BY <3>1 DEF Orderly, WritesInOrder, NotesFirst, TemplateCalls
    <3>4. TemplateInv => TemplateInv'
      BY <3>1, <3>2, <3>3 DEF TemplateInv
    <3>5. QED
      BY <1>1, <2>1, <2>2, <3>1, <3>4 DEF KeptInv
  <2>3. CASE CommandNext
    BY <1>1, <2>1, <2>3, KeptCommand
  <2>4. QED
    BY <1>1, <2>2, <2>3 DEF Next, vars
<1>2. Spec => [][KeepsTemplates]_vars
  BY <1>1, KeptStart, PTL DEF Spec
<1>3. [KeepsTemplates]_vars
      => [/\ vault.fields \ vault'.fields \subseteq vault'.notes
          /\ client = client' => \A c \in Name : Template(c, "edited") \in db
                                                  => Template(c, "vault") \notin db']_vars
  BY DEF KeepsTemplates
<1>4. QED
  BY <1>2, <1>3, PTL DEF TemplatesKept

=============================================================================
