---------------------------- MODULE ExpiryWatch ----------------------------
(***************************************************************************)
(* What the operator is shown of certificates and VPN profiles: the scan   *)
(* that classifies every row (process_ca_database), what the lists and the *)
(* dashboard take from the last scan, and the changes and the days that    *)
(* pass in between.  A scan is skipped when no row changed since the last. *)
(* One app session; saves are in CertCommands.  Imported certificates have *)
(* a scan of their own, and their own lists.                               *)
(***************************************************************************)
EXTENDS Naturals, FiniteSets, FiniteSetsExt

CONSTANTS
    Cn,             \* common names
    MaxIssued, MaxProfile, \* bounds on serials and on profiles
    Life,           \* days a certificate may be issued for
    Soon, Caution,  \* EXPIRY_WARNING_DAYS, EXPIRY_CAUTION_DAYS
    MaxDay          \* bound on days

ASSUME WatchAssumption ==
    /\ Soon \in Nat /\ Caution \in Nat /\ Soon <= Caution
    /\ MaxIssued \in Nat /\ Life \subseteq Nat

VARIABLES
    book,       \* by serial: the row of certificate_authority, or NoCert
    profiles,   \* rows of openvpn_profile; serial 0 in those of older versions
    seen,       \* the sets of the last scan
    changed,    \* CertificateAuthorityDB::dirty
    day,
    scanned     \* history: the day of the last scan

watchVars == <<book, profiles, seen, changed, day, scanned>>

Issue == 1..MaxIssued
NoCert == [cn |-> "none"]
NothingSeen == [class |-> [n \in Issue |-> "none"], current |-> [c \in Cn |-> 0], ignored |-> {}]

WatchInit ==
    /\ book = [n \in Issue |-> NoCert] /\ seen = NothingSeen /\ changed = TRUE
    /\ \E legacy \in SUBSET Cn : profiles = {[serial |-> 0, cn |-> c, generated |-> TRUE] : c \in legacy}
    /\ day = 0 /\ scanned = 0

Booked == {n \in Issue : book[n] # NoCert}
Over(n) == day > book[n].end
IsRevoked(n) == book[n].dated \/ book[n].status = "Revoked"
InForce(n) == n \in Booked /\ ~Over(n) /\ ~IsRevoked(n)

-----------------------------------------------------------------------------
(* process_ca_database *)

\* Mutant: what is about to be revoked is taken for a replacement.
CandidatesAll(c, revoking) == {n \in Booked : book[n].cn = c /\ InForce(n) /\ ~book[n].ignored}

\* The first pass: what may replace another certificate of the name.
Candidates(c, revoking) ==
    {n \in Booked : book[n].cn = c /\ InForce(n) /\ ~book[n].ignored /\ n # revoking}

\* valid_cn_to_serial, the highest serial of each name.
ValidCnToSerial(revoking) ==
    [c \in Cn |-> LET all == Candidates(c, revoking) IN IF all = {} THEN 0 ELSE Max(all)]

Class(n, current, revoking) ==
    CASE Over(n) -> IF current[book[n].cn] # 0 THEN "superseded" ELSE "expired"
      [] ~Over(n) /\ (IsRevoked(n) \/ n = revoking) -> "revoked"
      [] ~Over(n) /\ InForce(n) /\ n # revoking ->
             IF day + Soon > book[n].end THEN "soon"
             ELSE IF day + Caution > book[n].end THEN "warning" ELSE "valid"

\* The second pass, on one row.
Rescanned(n, revoking) ==
    [book[n] EXCEPT !.status = IF Over(n) THEN "Expired"
                               ELSE IF IsRevoked(n) \/ n = revoking THEN "Revoked" ELSE @,
                    !.dated = @ \/ (n = revoking /\ InForce(n))]

ScannedRows(revoking) == [n \in Issue |-> IF n \in Booked THEN Rescanned(n, revoking) ELSE NoCert]
ScannedSets(revoking) ==
    LET current == ValidCnToSerial(revoking)
    IN  [class |-> [n \in Issue |-> IF n \in Booked THEN Class(n, current, revoking) ELSE "none"],
         current |-> current,
         ignored |-> {n \in Booked : book[n].ignored}]

Scan(revoking) ==
    /\ book' = ScannedRows(revoking) /\ seen' = ScannedSets(revoking)
    /\ changed' = FALSE /\ scanned' = day

ProcessCaDatabase(revoking, force) ==
    IF ~changed /\ revoking = 0 /\ ~force
    THEN UNCHANGED <<book, seen, changed, scanned>>
    ELSE Scan(revoking)

-----------------------------------------------------------------------------
(* What is shown of the last scan *)

\* derive_vpn_profile_status: the status, and the serial to generate for.
ProfileStatus(p) ==
    LET current == seen.current[p.cn]
        class == seen.class[p.serial]
    IN  CASE ~p.generated -> <<"needs_regen", IF current # 0 THEN current ELSE p.serial>>
          [] p.generated /\ p.serial = 0 ->
                 IF current = 0 THEN <<"expired", 0>>
                 ELSE IF seen.class[current] = "soon" THEN <<"expiring_soon", 0>> ELSE <<"current", 0>>
          [] p.generated /\ p.serial # 0 ->
                 CASE class = "revoked" -> <<"revoked", 0>>
                   [] class # "revoked" /\ current \notin {0, p.serial} -> <<"needs_regen", current>>
                   [] class # "revoked" /\ current \in {0, p.serial} ->
                          <<CASE class = "expired" -> "expired"
                              [] class = "soon" -> "expiring_soon"
                              [] OTHER -> "current", 0>>

\* handle_list of the command line: what it lists in each mode.
Listed(mode) ==
    {n \in Booked : /\ ~book[n].gone
                    /\ CASE mode = "expired" -> book[n].status = "Expired"
                         [] mode = "revoked" -> book[n].status = "Revoked"
                         [] mode = "expiring" -> seen.class[n] = "soon"
                         [] mode = "valid" -> book[n].status = "Valid"}

\* list_vpn_certs: the certificates a profile may be added for.
VpnCerts == Listed("valid")

\* cert_list_item: the certificate an expired one was replaced by.
SupersededBy(n) == IF seen.class[n] = "superseded" THEN seen.current[book[n].cn] ELSE 0

\* get_dashboard and build_action_items: the certificates the items are about.
Alerts == {n \in Booked : seen.class[n] \in {"expired", "soon"}} \ seen.ignored

-----------------------------------------------------------------------------
(* Commands *)

\* A certificate is stored, and what it replaces is ignored.
IssueFor(c, replaced) ==
    \E n \in Issue \ Booked, life \in Life :
        /\ n = Cardinality(Booked) + 1
        /\ book' = [k \in Issue |->
              IF k = n THEN [cn |-> c, end |-> day + life, dated |-> FALSE, ignored |-> FALSE,
                             status |-> "Valid", gone |-> FALSE]
              ELSE IF k \in replaced THEN [book[k] EXCEPT !.ignored = TRUE] ELSE book[k]]
        /\ changed' = TRUE
        /\ UNCHANGED <<profiles, seen, day, scanned>>

CreateFor(c) == IssueFor(c, {})

\* Renewed while the row says Valid; rekeyed whatever it says, while there is its item.
RenewOf(n) == book[n].status = "Valid" /\ IssueFor(book[n].cn, {n})
RekeyOf(n) == ~book[n].gone /\ IssueFor(book[n].cn, {n})

RevokeOf(n) ==
    /\ book[n].status = "Valid"
    /\ ProcessCaDatabase(n, FALSE)
    /\ UNCHANGED <<profiles, day>>

Mark(n, ignored) ==
    /\ book' = [book EXCEPT ![n].ignored = ignored]
    /\ changed' = TRUE
    /\ UNCHANGED <<profiles, seen, day, scanned>>

\* delete_certificate: a forced scan, and what it found neither revoked nor over stays.
DeleteOf(n) ==
    LET rows == ScannedRows(0)
        closed == rows[n].status \in {"Revoked", "Expired"}
    IN  /\ ~book[n].gone
        /\ book' = IF closed THEN [rows EXCEPT ![n].ignored = TRUE, ![n].gone = TRUE] ELSE rows
        /\ seen' = ScannedSets(0) /\ scanned' = day
        /\ changed' = closed
        /\ UNCHANGED <<profiles, day>>

\* One row a title, which is of the serial; the profile's own rows are not scanned.
ProfileFor(n, generated) ==
    /\ profiles' = {p \in profiles : p.serial # n}
                   \cup {[serial |-> n, cn |-> book[n].cn, generated |-> generated]}
    /\ Cardinality(profiles') <= MaxProfile
    /\ UNCHANGED <<book, seen, changed, day, scanned>>

\* list_certs, list_vpn_certs, list_openvpn_profiles and `ca list` do not force a scan.
List == ProcessCaDatabase(0, FALSE) /\ UNCHANGED <<profiles, day>>

Dashboard == ProcessCaDatabase(0, TRUE) /\ UNCHANGED <<profiles, day>>

\* The database is loaded anew, with nothing classified.
Reload ==
    /\ seen' = NothingSeen /\ changed' = TRUE
    /\ UNCHANGED <<book, profiles, day, scanned>>

NextDay ==
    /\ day < MaxDay /\ day' = day + 1
    /\ UNCHANGED <<book, profiles, seen, changed, scanned>>

WatchNext ==
    \/ \E c \in Cn : CreateFor(c)
    \/ \E n \in Booked : \/ RenewOf(n) \/ RekeyOf(n) \/ RevokeOf(n) \/ DeleteOf(n)
                         \/ \E b \in BOOLEAN : Mark(n, b) \/ ProfileFor(n, b)
    \/ List \/ Dashboard \/ Reload \/ NextDay

-----------------------------------------------------------------------------
(* Properties *)

\* Every reader runs process_ca_database first, so that no row has changed since
\* the scan; but the days have moved on when the scan was skipped.
WasOver(n) == scanned > book[n].end
WasInForce(n) == n \in Booked /\ ~WasOver(n) /\ ~IsRevoked(n)
Named(c) == {n \in Booked : book[n].cn = c}
Alive(c) == {n \in Named(c) : WasInForce(n) /\ ~book[n].ignored}

\* What a profile's status claims of the certificates.
Truthful(p) ==
    LET status == ProfileStatus(p)[1]
        target == ProfileStatus(p)[2]
    IN  /\ status \in {"current", "expiring_soon"} =>
               IF p.serial = 0 THEN Alive(p.cn) # {} ELSE WasInForce(p.serial)
        /\ status = "needs_regen" /\ Alive(p.cn) \cup {n \in {p.serial} : p.generated} # {} =>
               target \in Alive(p.cn)
        /\ status = "revoked" => IsRevoked(p.serial)
        /\ status = "expired" => Alive(p.cn) = {}

\* A name one of whose certificates nobody acknowledged, nor revoked before its
\* end, has one with long to go or is among the alerts.
Noticed(c) ==
    (\E n \in Named(c) : ~book[n].ignored /\ (WasOver(n) \/ ~IsRevoked(n))) =>
        (\E n \in Alive(c) : scanned + Soon <= book[n].end) \/ Named(c) \cap Alerts # {}

\* The lists tell what is in force from what is not, and what replaced it.
ListsTrue ==
    /\ VpnCerts \cup Listed("expiring") \subseteq {n \in Booked : WasInForce(n)}
    /\ \A n \in Listed("expired") : SupersededBy(n) # 0 => WasInForce(SupersededBy(n))
    /\ \A n \in Booked : IsRevoked(n) /\ ~WasOver(n) /\ ~book[n].gone => n \in Listed("revoked")

(* What the operator is shown is so of the rows as they are, on the day of *)
(* the last scan, which may be long past: a profile that is current could  *)
(* connect then, one to be generated again is told a certificate of its    *)
(* name that was in force then, whatever was renewed, rekeyed, revoked,    *)
(* ignored and deleted before, and no name ran out unseen then.  Of a      *)
(* dashboard, which forces the scan, that day is today; a list may still   *)
(* show as valid what has run out since.                                   *)
ShownTrue ==
    ~changed => (\A p \in profiles : Truthful(p)) /\ ListsTrue /\ \A c \in Cn : Noticed(c)

=============================================================================
