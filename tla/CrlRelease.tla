---------------------------- MODULE CrlRelease ----------------------------
(***************************************************************************)
(* How a revocation reaches the VPN servers when CRLs are signed in        *)
(* batches: opCA signs a batch and puts it in the private store            *)
(* (generate_crl), the notification Lambda (notification/aws_lambda.py)    *)
(* copies the CRL that is due to the public store, and a script on each    *)
(* server (contrib/openvpn-crl-fetch.sh) installs what is published.       *)
(*                                                                         *)
(* Time is in days.  The Lambda and the script are run once a day, in      *)
(* either order; a run may fail, LambdaMiss (FetchMiss) times in a row at  *)
(* most.  A CRL's `lists` is the number of revocations it was signed       *)
(* after.  The Lambda reads the published CRL, then the batch, then        *)
(* writes: three calls, between which opCA may act when Race is TRUE.      *)
(***************************************************************************)
EXTENDS Integers, FiniteSets

CONSTANTS
    Period, Window, Count,  \* CRL_BATCH_PERIOD_DAYS, CRL_BATCH_WINDOW_DAYS, CRL_BATCH_SIZE
    LowCover,               \* the Lambda warns with fewer CRLs left to release
    LambdaMiss, FetchMiss,  \* bound: failed runs in a row
    MaxDay, MaxSign,        \* bounds: days, and signings
    Race,       \* TRUE: opCA may upload while the Lambda runs
    Warm,       \* TRUE: a Lambda run may reuse the container of an earlier one
    LateUpload  \* TRUE: the CRL document is uploaded on a later day than it was signed

ASSUME BatchAssumption ==
    /\ Period \in Nat \ {0} /\ Count \in Nat \ {0, 1} /\ LowCover \in 0..Count
    /\ LambdaMiss \in Nat /\ FetchMiss \in Nat
    /\ Window \in Nat /\ Window - Period > LambdaMiss + FetchMiss + 1
ASSUME LimitAssumption == MaxDay \in Nat /\ MaxSign \in Nat
ASSUME CaseAssumption == {Race, Warm, LateUpload} \subseteq BOOLEAN

VARIABLES
    now,        \* today
    next,       \* next_crl_serial, as saved
    signings,   \* CRLs or batches signed so far
    revoked,    \* revocations stored so far
    batch,      \* the batch object in the private store
    doc,        \* the CRL document, the first CRL of the last signing
    published,  \* the CRL in the public store
    installed,  \* the crl-verify file of a VPN server
    lpc,        \* where the Lambda run is
    clock,      \* the Lambda container's module-level `now`
    gotCrl,     \* the published CRL as the Lambda read it
    gotBatch,   \* the batch as the Lambda read it
    lran, lmiss,\* whether the Lambda's run of today is over; failures in a row
    fran, fmiss,\* the same for the fetch script
    warned,     \* whether the Lambda has asked for this batch to be re-signed
    reused,     \* whether the batch's first number was published before, by a signing that failed
    kept        \* whether cover so far was always renewed in time

vars == <<now, next, signings, revoked, batch, doc, published, installed, lpc, clock, gotCrl,
          gotBatch, lran, lmiss, fran, fmiss, warned, reused, kept>>

CRL == [number : Nat, thisUpdate : Nat, nextUpdate : Nat, lists : Nat]
CrlBatch == [t0 : Nat, first : Nat, lists : Nat]

TypeOK ==
    /\ now \in Nat /\ next \in Nat /\ signings \in Nat /\ revoked \in Nat
    /\ batch \in CrlBatch /\ gotBatch \in CrlBatch
    /\ doc \in CRL /\ published \in CRL /\ installed \in CRL /\ gotCrl \in CRL
    /\ lpc \in {"idle", "crl", "batch"} /\ clock \in Nat
    /\ lmiss \in 0..LambdaMiss /\ fmiss \in 0..FetchMiss
    /\ {lran, fran, warned, reused, kept} \subseteq BOOLEAN

-----------------------------------------------------------------------------
\* Mutant: the windows of consecutive CRLs do not overlap.
BatchCrlNoOverlap(b, i) ==
    [number |-> b.first + i, thisUpdate |-> b.t0 + i * Period,
     nextUpdate |-> b.t0 + i * Period + Period, lists |-> b.lists]

\* CRL i of a batch: CrlBatch::this_update and next_update.
BatchCrl(b, i) ==
    [number |-> b.first + i, thisUpdate |-> b.t0 + i * Period,
     nextUpdate |-> b.t0 + i * Period + Window, lists |-> b.lists]

Due(b, t) == {i \in 0..Count - 1 : BatchCrl(b, i).thisUpdate <= t}

\* release_due_crl: of the CRLs due, the one with the latest thisUpdate.
LatestDue(b, t) == BatchCrl(b, CHOOSE i \in Due(b, t) : \A j \in Due(b, t) : j <= i)

\* CrlBatchStatus::signed_until.
SignedUntil(b) == BatchCrl(b, Count - 1).nextUpdate

FirstBatch == [t0 |-> 0, first |-> 1, lists |-> 0]
FirstCrl == BatchCrl(FirstBatch, 0)

Init ==
    /\ now = 0 /\ next = 1 + Count /\ signings = 1 /\ revoked = 0
    /\ batch = FirstBatch /\ gotBatch = FirstBatch
    /\ doc = FirstCrl /\ published = FirstCrl /\ installed = FirstCrl /\ gotCrl = FirstCrl
    /\ lpc = "idle" /\ clock = 0
    /\ lran = FALSE /\ lmiss = 0 /\ fran = FALSE /\ fmiss = 0
    /\ warned = FALSE /\ reused = FALSE /\ kept = TRUE

lambda == <<lpc, clock, gotCrl, gotBatch, lran, lmiss>>
fetch == <<fran, fmiss>>

-----------------------------------------------------------------------------
(* opCA *)

OpcaActs == Race \/ lpc = "idle"

\* The days that a new batch may take to reach a server.
Slack == LambdaMiss + FetchMiss + 2

\* Until when a batch can follow CRL x: a CRL published by hand above the batch's numbers, of
\* a signing whose own batch was not stored, is the last that the Lambda lets out.
ServedUntil(x, b) == IF x.number >= b.first + Count THEN x.nextUpdate ELSE SignedUntil(b)

\* A batch whose first number is published already goes out from its second CRL on.
FirstDue == IF published.number >= next THEN Period - 1 ELSE 0

\* Mutant: the CRL counter stays where it was.
SignSameNumbers(n) ==
    LET b == [t0 |-> now, first |-> next, lists |-> revoked + n] IN
    /\ OpcaActs
    /\ signings < MaxSign
    /\ signings' = signings + 1
    /\ revoked' = revoked + n
    /\ doc' = BatchCrl(b, 0)
    /\ batch' = b
    /\ warned' = FALSE
    /\ UNCHANGED <<now, next, published, installed, lambda, fetch, reused, kept>>

(***************************************************************************)
(* generate_crl, after n more revocations: it names, signs and stores the  *)
(* CRLs, as the CRL document, then the counter, then the batch.  It may    *)
(* fail after the first two of these (CrlBatchUpload), or after the first, *)
(* and then the counter is lost with the session or goes on with it.       *)
(***************************************************************************)
Sign(n) ==
    LET b == [t0 |-> now, first |-> next, lists |-> revoked + n] IN
    /\ OpcaActs
    /\ signings < MaxSign
    /\ signings' = signings + 1
    /\ revoked' = revoked + n
    /\ doc' = BatchCrl(b, 0)
    /\ \/ /\ batch' = b
          /\ next' = next + Count
          /\ warned' = FALSE
          /\ reused' = (published.number >= next)
          /\ kept' = (kept /\ now + FirstDue + Slack < ServedUntil(published, batch))
       \/ /\ next' \in {next, next + Count}
          /\ kept' = (kept /\ now + Slack < ServedUntil(published, batch))
          /\ UNCHANGED <<batch, warned, reused>>
    /\ UNCHANGED <<now, published, installed, lambda, fetch>>

GenerateCrl == Sign(0)
RevokeCert == Sign(1)

(* upload_crl: publishes the CRL document whatever is published already *)
UploadCrl ==
    /\ OpcaActs
    /\ LateUpload \/ doc.thisUpdate = now
    /\ published' = doc
    /\ UNCHANGED <<now, next, signings, revoked, batch, doc, installed, lambda, fetch, warned,
                   reused, kept>>

-----------------------------------------------------------------------------
(* lambda_handler *)

\* `now` is read when the module is loaded; a warm container keeps it.
LambdaGetCrl ==
    /\ lpc = "idle" /\ ~lran
    /\ clock' \in {now} \cup (IF Warm THEN {clock} ELSE {})
    /\ gotCrl' = published
    /\ lpc' = "crl"
    /\ UNCHANGED <<now, next, signings, revoked, batch, doc, published, installed, gotBatch, lran,
                   lmiss, fetch, warned, reused, kept>>

LambdaGetBatch ==
    /\ lpc = "crl"
    /\ gotBatch' = batch
    /\ lpc' = "batch"
    /\ UNCHANGED <<now, next, signings, revoked, batch, doc, published, installed, clock, gotCrl,
                   lran, lmiss, fetch, warned, reused, kept>>

\* Mutant: the CRL that is due goes out whatever is published.
LambdaReleaseAlways ==
    /\ lpc = "batch"
    /\ published' = IF Due(gotBatch, clock) # {} THEN LatestDue(gotBatch, clock) ELSE published
    /\ warned' = (warned \/ Count - Cardinality(Due(gotBatch, clock)) < LowCover)
    /\ lpc' = "idle" /\ lran' = TRUE /\ lmiss' = 0
    /\ UNCHANGED <<now, next, signings, revoked, batch, doc, installed, clock, gotCrl, gotBatch,
                   fetch, reused, kept>>

\* Mutant: the warning comes one CRL later.
LambdaReleaseWarnsLate ==
    /\ lpc = "batch"
    /\ published' =
          IF Due(gotBatch, clock) # {} /\ LatestDue(gotBatch, clock).number > gotCrl.number
          THEN LatestDue(gotBatch, clock)
          ELSE published
    /\ warned' = (warned \/ Count - Cardinality(Due(gotBatch, clock)) < LowCover - 1)
    /\ lpc' = "idle" /\ lran' = TRUE /\ lmiss' = 0
    /\ UNCHANGED <<now, next, signings, revoked, batch, doc, installed, clock, gotCrl, gotBatch,
                   fetch, reused, kept>>

\* release_due_crl and the put: only a higher number than the one read goes out.
LambdaRelease ==
    /\ lpc = "batch"
    /\ published' =
          IF Due(gotBatch, clock) # {} /\ LatestDue(gotBatch, clock).number > gotCrl.number
          THEN LatestDue(gotBatch, clock)
          ELSE published
    /\ warned' = (warned \/ Count - Cardinality(Due(gotBatch, clock)) < LowCover)
    /\ lpc' = "idle" /\ lran' = TRUE /\ lmiss' = 0
    /\ UNCHANGED <<now, next, signings, revoked, batch, doc, installed, clock, gotCrl, gotBatch,
                   fetch, reused, kept>>

(* a read raises, the put fails, or the run does not happen at all *)
LambdaFails ==
    /\ ~lran
    /\ lmiss < LambdaMiss
    /\ lpc' = "idle" /\ lran' = TRUE /\ lmiss' = lmiss + 1
    /\ UNCHANGED <<now, next, signings, revoked, batch, doc, published, installed, clock, gotCrl,
                   gotBatch, fetch, warned, reused, kept>>

-----------------------------------------------------------------------------
(* openvpn-crl-fetch.sh: an expired CRL is not installed *)
Fetch ==
    /\ ~fran
    /\ installed' = IF published.nextUpdate > now THEN published ELSE installed
    /\ fran' = TRUE /\ fmiss' = 0
    /\ UNCHANGED <<now, next, signings, revoked, batch, doc, published, lambda, warned,
                   reused, kept>>

FetchFails ==
    /\ ~fran
    /\ fmiss < FetchMiss
    /\ fran' = TRUE /\ fmiss' = fmiss + 1
    /\ UNCHANGED <<now, next, signings, revoked, batch, doc, published, installed, lambda, warned,
                   reused, kept>>

\* A day ends once both daily jobs have had their run.
Tick ==
    /\ now < MaxDay
    /\ lran /\ fran
    /\ now' = now + 1
    /\ lran' = FALSE /\ fran' = FALSE
    /\ kept' = (kept /\ now' < ServedUntil(published, batch))
    /\ UNCHANGED <<next, signings, revoked, batch, doc, published, installed, lpc, clock, gotCrl,
                   gotBatch, lmiss, fmiss, warned, reused>>

Next ==
    \/ GenerateCrl \/ RevokeCert \/ UploadCrl
    \/ LambdaGetCrl \/ LambdaGetBatch \/ LambdaRelease \/ LambdaFails
    \/ Fetch \/ FetchFails
    \/ Tick

Spec == Init /\ [][Next]_vars

-----------------------------------------------------------------------------
(* Properties *)

(***************************************************************************)
(* A VPN server never holds an expired CRL, which would lock every client  *)
(* out, as long as cover is renewed in time: each batch Slack days before  *)
(* it runs out; the CRL of a signing that failed, if it was published over *)
(* the batch, Slack days before that CRL does, or at once if its number    *)
(* was lost and is taken again.  Releases overlap by Window - Period days, *)
(* more than the runs that may fail in a row.                              *)
(***************************************************************************)
InstalledCovered == kept => installed.nextUpdate > now

(***************************************************************************)
(* A revocation in an uploaded batch is on the servers two days after the  *)
(* runs that may fail: the new batch's first CRL is due at once and has a  *)
(* higher number than anything published, or, after a failed signing whose *)
(* number it takes again, its second one has.                              *)
(***************************************************************************)
RevocationReachesServers ==
    now > batch.t0 + Slack + (IF reused THEN Period - 1 ELSE 0) => installed.lists >= batch.lists

(***************************************************************************)
(* The Lambda asks for a new batch while there is a period and a window    *)
(* of cover left, less the runs that may fail.                             *)
(***************************************************************************)
WarnsBeforeLapse ==
    now > SignedUntil(batch) - Window - Period * (LowCover - 1) + LambdaMiss => warned

(* The Lambda never replaces the published CRL by one of a lower number or *)
(* that lists less, and no server an installed CRL by one that lists less, *)
(* although warm containers, late uploads and failed signings mix batches. *)
NeverRollsBack ==
    [][/\ LambdaRelease => published'.number >= published.number /\ published'.lists >= published.lists
       /\ installed'.lists >= installed.lists]_vars

=============================================================================
