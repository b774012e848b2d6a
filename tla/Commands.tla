------------------------------ MODULE Commands ------------------------------
(***************************************************************************)
(* The commands of the command line and of the app, area by area, with     *)
(* failing calls and dying processes, and what must hold of 1Password and  *)
(* of the saved database whatever fails.                                   *)
(***************************************************************************)
EXTENDS CsrCommands, DkimCommands, OpenVpnCommands, CaCommands, AppSession,
        DatabaseSchema, LocalCopies, ExpiryWatch

CONSTANT Area   \* the areas a behaviour may be about

\* A vault as an older version left it: templates on the item, a first serial.
Init ==
    /\ area \in Area
    /\ \E F \in SUBSET Name :
        /\ F # {} => area \in {"openvpn", "profiles"}
        /\ area = "profiles" => Cardinality(F) = 1
        /\ vault = [Empty EXCEPT !.fields = F, !.items[OpenVpn] = IF F = {} THEN 0 ELSE 1,
                                 !.saved = IF area \in {"cert", "marks"} THEN {Serial(1)} ELSE {}]
    /\ db = {} /\ client = "none" /\ run = Idle /\ past = {} /\ faults = 0
    /\ SessionInit /\ CopiesInit
    /\ WatchInit /\ (profiles # {} => area = "watch")
    /\ IF area = "schema" THEN SchemaInit ELSE dump = NotOpen /\ opened = NotOpen

CommandNext ==
    \/ CsrNext \/ DkimNext \/ OpenVpnNext \/ ProfileNext \/ CertNext \/ MarkNext \/ CaNext
    \/ Succeeds \/ Refused \/ Fails \/ Ends \/ OpenApp \/ CloseApp \/ Crash

\* One vault and its commands, call by call; a session over several, command by command;
\* the database on its way from 1Password and to the local copies; or what is shown of it.
Next ==
    \/ /\ area \notin {"session", "schema", "copies", "watch"} /\ CommandNext
       /\ UNCHANGED <<sessionVars, schemaVars, copyVars, watchVars>>
    \/ area = "session" /\ SessionNext /\ UNCHANGED <<vars, schemaVars, copyVars, watchVars>>
    \/ area = "schema" /\ SchemaNext /\ UNCHANGED <<vars, sessionVars, copyVars, watchVars>>
    \/ area = "copies" /\ CopiesNext /\ UNCHANGED <<vars, sessionVars, schemaVars, watchVars>>
    \/ area = "watch" /\ WatchNext /\ UNCHANGED <<vars, sessionVars, schemaVars, copyVars>>

Spec == Init /\ [][Next]_<<vars, sessionVars, schemaVars, copyVars, watchVars>>

-----------------------------------------------------------------------------
(* Properties *)

(* Whatever fails, the titles of requests, DKIM keys, the OpenVPN item and *)
(* the CRL name one item at most: 1Password answers for an ambiguous title *)
(* with an error, and the commands find their items by title.              *)
TitlesUnambiguous ==
    /\ \A c \in Name : vault.items[CsrItem(c)] < 2 /\ vault.items[DkimItem(c)] < 2
    /\ vault.items[OpenVpn] < 2 /\ vault.items[<<"CRL", 0>>] < 2

\* A completed request has its certificate, in 1Password and in the database.
CompletedKept ==
    \A r \in CsrRows(vault.saved) :
        r[4] = "Complete" => vault.items[ExtItem(r[3])] > 0 /\ External(r[3]) \in vault.saved

\* A profile on record has a document, here or in the vault it was sent to.
ProfileStored ==
    \A c \in Name : Profile(c) \in vault.saved => vault.items[VpnItem(c)] + vault.items[Sent(c)] > 0

\* A deleted certificate was revoked or had expired, and its item is gone.
DeletedClosed ==
    \A n \in Name : Gone(n) \in vault.saved =>
        ~Is(vault.saved, n, "Valid") /\ vault.items[CrtItem(n)] = 0

\* What is marked published was uploaded, and nothing else is so marked.
MarkedUploaded ==
    \A n \in Name : Published(n) \in vault.saved =>
        n \in vault.public /\ \A k \in Name \ {n} : Published(k) \notin vault.saved

(* Whatever failed on the way, the saved rows are true of 1Password and of *)
(* the public store: a row is saved only when what it speaks of is there,  *)
(* or gone, already.                                                       *)
RowsHold == CompletedKept /\ ProfileStored /\ DeletedClosed /\ MarkedUploaded

(* Moving OpenVPN templates from the item into the database loses none and *)
(* reverts none: one leaves the item only once a note of it is archived,   *)
(* and one edited in the database is not overwritten by the item's.        *)
TemplatesKept ==
    [][/\ vault.fields \ vault'.fields \subseteq vault'.notes
       /\ client = client' => \A c \in Name : Template(c, "edited") \in db
                                               => Template(c, "vault") \notin db']_vars

(* A restore that reports success has put back each item of the backup     *)
(* once and nothing else, with its database; and when nothing ever failed, *)
(* that is the database there was when the backup was made, and every item *)
(* whose title named it alone.                                             *)
RestoreWhole ==
    [][(run.cmd \in {"vault_restore", "vault restore"} /\ run.calls = <<>> /\ run' = Idle
        /\ faults' = faults /\ run.ok)
       => /\ \A t \in Title : vault.items[t] = IF t \in vault.file.titles THEN 1 ELSE 0
          /\ vault.saved = vault.file.rows
          /\ faults = 0 =>
                /\ vault.saved = vault.file.was[2]
                /\ \A t \in Title : vault.items[t] = IF vault.file.was[1][t] = 1 THEN 1 ELSE 0]_vars

(* When a command that revoked something ends and reports no failure, the  *)
(* CRL lists every certificate saved as revoked, those an earlier command  *)
(* left out because it failed included.                                    *)
RevokedInCrl ==
    [][(run.cmd = "revoke" /\ run.calls = <<>> /\ run.todo = <<>> /\ run' = Idle
        /\ faults' = faults /\ run.ok /\ run.done # {})
       => {n \in Name : Is(vault.saved, n, "Revoked")} \subseteq vault.crl]_vars

(* When CA_Database cannot be read after a write that failed, the newest   *)
(* local copy has all that the last good one had: store_ca_database makes  *)
(* the copy first, so the recovery dialog can lose nothing.  It is so of   *)
(* the first failure: a copy that fails is only logged.                    *)
DamageRecoverable ==
    faults <= 1 /\ vault.bad /\ vault.saved # {} =>
        /\ vault.kept # <<>>
        /\ LET newest == vault.kept[Len(vault.kept)]
               next == NextSerial(vault.saved)
           IN  vault.saved \ {Serial(next)} \subseteq newest /\ next <= NextSerial(newest)

=============================================================================
