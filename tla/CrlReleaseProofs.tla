-------------------------- MODULE CrlReleaseProofs --------------------------
(* Proofs about how a revocation reaches the VPN servers, for every length of a batch, *)
(* of its periods and windows and every number of runs that may fail in a row.        *)
EXTENDS CrlRelease, FiniteSetTheorems, WellFoundedInduction, TLAPS

-----------------------------------------------------------------------------
(* Batches *)

(***************************************************************************)
(* A set of numbers that is not empty has a least one.                     *)
(***************************************************************************)
LEMMA LeastNumber ==
  ASSUME NEW T \in SUBSET Nat, T # {}
  PROVE  \E x \in T : \A y \in T : x <= y
<1>1. IsWellFoundedOn(OpToRel(<, Nat), Nat)
  BY NatLessThanWellFounded
<1>2. PICK x \in T : \A y \in T : ~(<<y, x>> \in OpToRel(<, Nat))
  BY <1>1, WFMin
<1>3. \A y \in T : ~(y < x)
  BY <1>2 DEF OpToRel
<1>4. QED
  BY <1>3

(***************************************************************************)
(* Later CRLs of a batch start later.                                      *)
(***************************************************************************)
LEMMA PeriodsGrow ==
  ASSUME NEW i \in Nat, NEW j \in Nat, i <= j
  PROVE  i * Period \in Nat /\ j * Period \in Nat /\ i * Period <= j * Period
<1>1. PICK d \in Nat : j = i + d
  <2>1. j - i \in Nat /\ j = i + (j - i)
    OBVIOUS
  <2>2. QED
    BY <2>1
<1>2. Period \in Nat
  BY BatchAssumption
<1>3. i * Period \in Nat /\ d * Period \in Nat /\ j * Period = i * Period + d * Period
  BY <1>1, <1>2
<1>4. QED
  BY <1>3

(***************************************************************************)
(* A period is a day at least.                                             *)
(***************************************************************************)
LEMMA PeriodIsLong ==
  ASSUME NEW i \in Nat
  PROVE  i <= i * Period /\ i * Period \in Nat /\ (i + 1) * Period = i * Period + Period
<1>1. PICK p \in Nat : Period = p + 1
  <2>1. Period - 1 \in Nat /\ Period = (Period - 1) + 1
    BY BatchAssumption
  <2>2. QED
    BY <2>1
<1>2. i * p \in Nat /\ i * (p + 1) = i * p + i /\ (i + 1) * (p + 1) = i * (p + 1) + (p + 1)
  BY <1>1
<1>3. QED
  BY <1>1, <1>2

(***************************************************************************)
(* What a CRL of a batch is.                                               *)
(***************************************************************************)
LEMMA BatchCrlIs ==
  ASSUME NEW b \in CrlBatch, NEW i \in Nat
  PROVE  /\ BatchCrl(b, i) \in CRL
         /\ BatchCrl(b, i).number = b.first + i /\ BatchCrl(b, i).lists = b.lists
         /\ BatchCrl(b, i).thisUpdate = b.t0 + i * Period
         /\ BatchCrl(b, i).nextUpdate = b.t0 + i * Period + Window
<1>1. i * Period \in Nat /\ Window \in Nat
  BY PeriodIsLong, BatchAssumption
<1>2. QED
  BY <1>1 DEF BatchCrl, CRL, CrlBatch

(***************************************************************************)
(* The CRLs that are due are the first ones, up to the last that has       *)
(* started: that one goes out, and the next starts after today.            *)
(***************************************************************************)
LEMMA DueIs ==
  ASSUME NEW b \in CrlBatch, NEW t \in Nat, b.t0 <= t
  PROVE  \E m \in 0..Count - 1 :
            /\ Due(b, t) = 0..m
            /\ LatestDue(b, t) = BatchCrl(b, m)
            /\ m < Count - 1 => t < b.t0 + (m + 1) * Period
            /\ b.t0 + m * Period <= t
<1>1. PICK T \in SUBSET Nat : T = {i \in Nat : b.t0 + i * Period > t}
  OBVIOUS
<1>0. b.t0 \in Nat /\ Count \in Nat \ {0}
  BY BatchAssumption DEF CrlBatch
<1>2. t + 1 \in T
  BY <1>0, <1>1, PeriodIsLong
<1>3. PICK k \in T : \A j \in T : k <= j
  BY <1>2, LeastNumber
<1>4. k \in Nat /\ b.t0 + k * Period > t
  BY <1>1, <1>3
<1>5. k # 0
  <2>1. 0 * Period = 0
    BY BatchAssumption
  <2>2. SUFFICES ASSUME k = 0 PROVE FALSE
    OBVIOUS
  <2>3. b.t0 + 0 > t
    BY <1>4, <2>1, <2>2
  <2>4. QED
    BY <1>0, <2>3
<1>6. \A i \in Nat : b.t0 + i * Period <= t <=> i < k
  <2> TAKE i \in Nat
  <2>1. CASE i < k
    <3>1. i \notin T
      BY <1>3, <1>4, <2>1
    <3>2. i * Period \in Nat
      BY PeriodIsLong
    <3>3. QED
      BY <1>0, <1>1, <2>1, <3>1, <3>2
  <2>2. CASE ~(i < k)
    <3>1. k * Period <= i * Period /\ k * Period \in Nat /\ i * Period \in Nat
      BY <1>4, <2>2, PeriodsGrow
    <3>2. QED
      BY <1>0, <1>4, <2>2, <3>1
  <2>3. QED
    BY <2>1, <2>2
<1>7. PICK m \in 0..Count - 1 : /\ \A i \in 0..Count - 1 : i < k <=> i <= m
                                /\ m < Count - 1 => m + 1 = k
                                /\ m < k
  <2>1. CASE k <= Count - 1
    <3>1. k - 1 \in 0..Count - 1
      BY <1>0, <1>4, <1>5, <2>1
    <3>2. \A i \in 0..Count - 1 : i < k <=> i <= k - 1
      BY <1>0, <1>4
    <3>3. (k - 1) + 1 = k /\ k - 1 < k
      BY <1>4
    <3>4. QED
      BY <3>1, <3>2, <3>3
  <2>2. CASE ~(k <= Count - 1)
    <3>1. Count - 1 \in 0..Count - 1 /\ Count - 1 < k /\ ~(Count - 1 < Count - 1)
      BY <1>0, <1>4, <2>2
    <3>2. \A i \in 0..Count - 1 : i < k <=> i <= Count - 1
      BY <1>0, <1>4, <2>2
    <3>3. QED
      BY <3>1, <3>2
  <2>3. QED
    BY <2>1, <2>2
<1>8. Due(b, t) = 0..m
  <2>1. \A i \in 0..Count - 1 : BatchCrl(b, i).thisUpdate <= t <=> i <= m
    BY <1>6, <1>7, BatchCrlIs
  <2>2. QED
    BY <1>0, <2>1 DEF Due
<1>9. LatestDue(b, t) = BatchCrl(b, m)
  <2>1. PICK n : n = CHOOSE i \in 0..m : \A j \in 0..m : j <= i
    OBVIOUS
  <2>2. m \in 0..m /\ \A j \in 0..m : j <= m
    OBVIOUS
  <2>3. n \in 0..m /\ \A j \in 0..m : j <= n
    BY <2>1, <2>2
  <2>4. n = m
    BY <2>2, <2>3
  <2>5. QED
    BY <1>8, <2>1, <2>4 DEF LatestDue
<1>10. m < Count - 1 => t < b.t0 + (m + 1) * Period
  BY <1>4, <1>7
<1>11. b.t0 + m * Period <= t
  BY <1>6, <1>7
<1>12. QED
  BY <1>8, <1>9, <1>10, <1>11

(***************************************************************************)
(* x is one of the CRLs of batch b.                                        *)
(***************************************************************************)
IsOf(x, b) == \E i \in 0..Count - 1 : x = BatchCrl(b, i)

(***************************************************************************)
(* How long a batch lasts, counted from its first day.                     *)
(***************************************************************************)
LEMMA SignedUntilIs ==
  ASSUME NEW b \in CrlBatch
  PROVE  /\ SignedUntil(b) \in Nat /\ SignedUntil(b) >= b.t0 + Window
         /\ SignedUntil(b) = b.t0 + (Count - 1) * Period + Window
<1>1. Count - 1 \in Nat /\ Window \in Nat /\ b.t0 \in Nat
  BY BatchAssumption DEF CrlBatch
<1>2. (Count - 1) * Period \in Nat
  BY <1>1, PeriodIsLong
<1>3. BatchCrl(b, Count - 1).nextUpdate = b.t0 + (Count - 1) * Period + Window
  BY <1>1, BatchCrlIs
<1>4. QED
  BY <1>1, <1>2, <1>3 DEF SignedUntil

(***************************************************************************)
(* What the CRLs of a batch have in common.                                *)
(***************************************************************************)
LEMMA IsOfIs ==
  ASSUME NEW b \in CrlBatch, NEW x, IsOf(x, b)
  PROVE  /\ x \in CRL /\ x.lists = b.lists
         /\ b.first <= x.number /\ x.number < b.first + Count
         /\ x.nextUpdate >= b.t0 + Window /\ x.nextUpdate <= SignedUntil(b)
<1>1. PICK i \in 0..Count - 1 : x = BatchCrl(b, i)
  BY DEF IsOf
<1>2. Count \in Nat \ {0} /\ Window \in Nat /\ b.t0 \in Nat /\ b.first \in Nat
  BY BatchAssumption DEF CrlBatch
<1>3. i \in Nat /\ Count - 1 \in Nat /\ i <= Count - 1
  BY <1>2
<1>4. i * Period \in Nat /\ (Count - 1) * Period \in Nat /\ i * Period <= (Count - 1) * Period
  BY <1>3, PeriodsGrow
<1>5. /\ x \in CRL /\ x.number = b.first + i /\ x.lists = b.lists
      /\ x.nextUpdate = b.t0 + i * Period + Window
  BY <1>1, <1>3, BatchCrlIs
<1>6. x.nextUpdate <= SignedUntil(b)
  BY <1>2, <1>4, <1>5, SignedUntilIs
<1>7. QED
  BY <1>2, <1>3, <1>4, <1>5, <1>6

(***************************************************************************)
(* In a batch a higher number lasts at least as long.                      *)
(***************************************************************************)
LEMMA HigherLastsLonger ==
  ASSUME NEW b \in CrlBatch, NEW x, NEW y, IsOf(x, b), IsOf(y, b), x.number <= y.number
  PROVE  x.nextUpdate <= y.nextUpdate
<1>1. PICK i \in 0..Count - 1 : x = BatchCrl(b, i)
  BY DEF IsOf
<1>2. PICK j \in 0..Count - 1 : y = BatchCrl(b, j)
  BY DEF IsOf
<1>3. Window \in Nat /\ b.t0 \in Nat /\ b.first \in Nat /\ i \in Nat /\ j \in Nat
  BY BatchAssumption DEF CrlBatch
<1>4. x.number = b.first + i /\ x.nextUpdate = b.t0 + i * Period + Window
  BY <1>1, <1>3, BatchCrlIs
<1>5. y.number = b.first + j /\ y.nextUpdate = b.t0 + j * Period + Window
  BY <1>2, <1>3, BatchCrlIs
<1>6. i <= j
  BY <1>3, <1>4, <1>5
<1>7. i * Period \in Nat /\ j * Period \in Nat /\ i * Period <= j * Period
  BY <1>3, <1>6, PeriodsGrow
<1>8. QED
  BY <1>3, <1>4, <1>5, <1>7

(***************************************************************************)
(* Once a batch has begun its latest CRL that is due lasts Slack days      *)
(* more, or as long as the batch does.                                     *)
(***************************************************************************)
LEMMA LatestDueLasts ==
  ASSUME NEW b \in CrlBatch, NEW t \in Nat, b.t0 <= t
  PROVE  /\ Due(b, t) # {} /\ IsOf(LatestDue(b, t), b)
         /\ LatestDue(b, t).nextUpdate > t + Slack
            \/ LatestDue(b, t).nextUpdate >= SignedUntil(b)
<1>1. PICK m \in 0..Count - 1 : /\ Due(b, t) = 0..m
                                /\ LatestDue(b, t) = BatchCrl(b, m)
                                /\ m < Count - 1 => t < b.t0 + (m + 1) * Period
  BY DueIs
<1>2. Count \in Nat \ {0} /\ m \in Nat /\ 0 \in 0..m
  BY BatchAssumption
<1>3. Due(b, t) # {} /\ IsOf(LatestDue(b, t), b)
  BY <1>1, <1>2 DEF IsOf
<1>4. LatestDue(b, t).nextUpdate = b.t0 + m * Period + Window
  BY <1>1, <1>2, BatchCrlIs
<1>5. CASE m < Count - 1
  <2>1. b.t0 \in Nat /\ Period \in Nat /\ Window \in Nat /\ LambdaMiss \in Nat /\ FetchMiss \in Nat
        /\ Window >= Period + Slack
    BY BatchAssumption DEF CrlBatch, Slack
  <2>2. m * Period \in Nat /\ (m + 1) * Period = m * Period + Period
    BY <1>2, PeriodIsLong
  <2>3. t < b.t0 + (m + 1) * Period
    BY <1>1, <1>5
  <2>4. PICK d \in Nat : d = m * Period
    BY <2>2
  <2>5. t < b.t0 + (d + Period)
    BY <2>2, <2>3, <2>4
  <2>6. Slack \in Nat
    BY <2>1 DEF Slack
  <2>7. b.t0 + d + Window > t + Slack
    BY <2>1, <2>5, <2>6
  <2>8. QED
    BY <1>3, <1>4, <2>4, <2>7
<1>6. CASE ~(m < Count - 1)
  <2>1. m = Count - 1
    BY <1>2, <1>6
  <2>2. b.t0 + m * Period + Window = SignedUntil(b) /\ SignedUntil(b) \in Nat
    BY <2>1, SignedUntilIs
  <2>3. QED
    BY <1>3, <1>4, <2>2
<1>7. QED
  BY <1>3, <1>5, <1>6

(***************************************************************************)
(* While the Lambda sees LowCover CRLs left to release, the last LowCover  *)
(* periods of the batch have not begun.                                    *)
(***************************************************************************)
LEMMA CoverLeft ==
  ASSUME NEW b \in CrlBatch, NEW t \in Nat, b.t0 <= t, LowCover \in 1..Count - 1,
         ~(Count - Cardinality(Due(b, t)) < LowCover)
  PROVE  t + 1 <= b.t0 + (Count - LowCover) * Period
<1>1. PICK m \in 0..Count - 1 : /\ Due(b, t) = 0..m
                                /\ m < Count - 1 => t < b.t0 + (m + 1) * Period
  BY DueIs
<1>2. Count \in Nat \ {0} /\ m \in Nat /\ b.t0 \in Nat
  BY BatchAssumption DEF CrlBatch
<1>3. Cardinality(0..m) = m + 1
  BY <1>2, FS_Interval
<1>4. m + 1 <= Count - LowCover /\ m < Count - 1 /\ Count - LowCover \in Nat /\ m + 1 \in Nat
  BY <1>1, <1>2, <1>3
<1>5. (m + 1) * Period <= (Count - LowCover) * Period /\ (m + 1) * Period \in Nat
      /\ (Count - LowCover) * Period \in Nat
  BY <1>4, PeriodsGrow
<1>6. QED
  BY <1>1, <1>2, <1>4, <1>5

-----------------------------------------------------------------------------
(* Types *)

(***************************************************************************)
(* Every step keeps the types: signing, uploading, the Lambda's run and    *)
(* the fetch script's.                                                     *)
(***************************************************************************)
THEOREM TypeCorrect == Spec => []TypeOK
<1>1. Init => TypeOK
  <2> SUFFICES ASSUME Init PROVE TypeOK
    OBVIOUS
  <2>1. FirstBatch \in CrlBatch /\ 0 \in Nat /\ Count \in Nat
    BY BatchAssumption DEF FirstBatch, CrlBatch
  <2>2. FirstCrl \in CRL
    BY <2>1, BatchCrlIs DEF FirstCrl
  <2>3. {lran, fran, warned, reused, kept} \subseteq BOOLEAN
    BY DEF Init
  <2>4. 0 \in 0..LambdaMiss /\ 0 \in 0..FetchMiss /\ 1 + Count \in Nat
    BY BatchAssumption
  <2>5. QED
    BY <2>1, <2>2, <2>3, <2>4 DEF Init, TypeOK
<1>2. TypeOK /\ [Next]_vars => TypeOK'
  <2> SUFFICES ASSUME TypeOK, [Next]_vars PROVE TypeOK'
    OBVIOUS
  <2>1. ASSUME NEW n \in 0..1, Sign(n) PROVE TypeOK'
    <3>1. PICK b : b = [t0 |-> now, first |-> next, lists |-> revoked + n]
      OBVIOUS
    <3>2. b \in CrlBatch
      BY <3>1 DEF TypeOK, CrlBatch
    <3>3. doc' = BatchCrl(b, 0) /\ (batch' = b \/ batch' = batch) /\ next' \in {next, next + Count}
          /\ signings' = signings + 1 /\ revoked' = revoked + n
      BY <2>1, <3>1 DEF Sign
    <3>4. doc' \in CRL /\ batch' \in CrlBatch /\ next' \in Nat /\ signings' \in Nat
          /\ revoked' \in Nat
      BY <3>2, <3>3, BatchCrlIs, BatchAssumption DEF TypeOK
    <3>5. warned' \in BOOLEAN /\ reused' \in BOOLEAN /\ kept' \in BOOLEAN
      <4>1. /\ warned' = FALSE \/ warned' = warned
            /\ reused' = (published.number >= next) \/ reused' = reused
            /\ \/ kept' = (kept /\ now + FirstDue + Slack < ServedUntil(published, batch))
               \/ kept' = (kept /\ now + Slack < ServedUntil(published, batch))
        BY <2>1 DEF Sign
      <4>2. warned' \in BOOLEAN
        BY <4>1 DEF TypeOK
      <4>3. reused' \in BOOLEAN
        <5>1. reused \in BOOLEAN
          BY DEF TypeOK
        <5>2. CASE reused' = (published.number >= next)
          BY <5>2
        <5>3. QED
          BY <4>1, <5>1, <5>2
      <4>4. QED
        BY <4>1, <4>2, <4>3
    <3>6. QED
      BY <2>1, <3>4, <3>5 DEF Sign, TypeOK, lambda, fetch
  <2>2. CASE UploadCrl
    BY <2>2 DEF UploadCrl, TypeOK, lambda, fetch
  <2>3. CASE LambdaGetCrl
    BY <2>3 DEF LambdaGetCrl, TypeOK, fetch
  <2>4. CASE LambdaGetBatch
    BY <2>4 DEF LambdaGetBatch, TypeOK, fetch
  <2>5. CASE LambdaRelease
    <3>1. gotBatch \in CrlBatch /\ gotBatch.t0 \in Nat /\ clock \in Nat
      BY DEF TypeOK, CrlBatch
    <3>2. Due(gotBatch, clock) # {} => gotBatch.t0 <= clock
      BY <3>1, BatchCrlIs, PeriodIsLong DEF Due
    <3>3. Due(gotBatch, clock) # {} => LatestDue(gotBatch, clock) \in CRL
      BY <3>1, <3>2, LatestDueLasts, IsOfIs
    <3>4. published' \in CRL /\ warned' \in BOOLEAN
      BY <2>5, <3>3 DEF LambdaRelease, TypeOK
    <3>5. QED
      BY <2>5, <3>4, BatchAssumption DEF LambdaRelease, TypeOK, fetch
  <2>6. CASE LambdaFails
    BY <2>6, BatchAssumption DEF LambdaFails, TypeOK, fetch
  <2>7. CASE Fetch
    BY <2>7, BatchAssumption DEF Fetch, TypeOK, lambda
  <2>8. CASE FetchFails
    BY <2>8, BatchAssumption DEF FetchFails, TypeOK, lambda
  <2>9. CASE Tick
    <3>1. kept' \in BOOLEAN
      BY <2>9 DEF Tick
    <3>2. now' = now + 1 /\ lran' = FALSE /\ fran' = FALSE
      BY <2>9 DEF Tick
    <3>3. now' \in Nat
      BY <3>2 DEF TypeOK
    <3>4. UNCHANGED <<next, signings, revoked, batch, doc, published, installed, lpc, clock,
                      gotCrl, gotBatch, lmiss, fmiss, warned, reused>>
      BY <2>9 DEF Tick
    <3>5. QED
      BY <3>1, <3>2, <3>3, <3>4 DEF TypeOK
  <2>10. CASE UNCHANGED vars
    BY <2>10 DEF TypeOK, vars
  <2>11. CASE GenerateCrl
    BY <2>1, <2>11 DEF GenerateCrl
  <2>12. CASE RevokeCert
    BY <2>1, <2>12 DEF RevokeCert
  <2>13. QED
    BY <2>2, <2>3, <2>4, <2>5, <2>6, <2>7, <2>8, <2>9, <2>10, <2>11, <2>12 DEF Next
<1>3. QED
  BY <1>1, <1>2, PTL DEF Spec

-----------------------------------------------------------------------------
(* Why the servers stay covered *)

(***************************************************************************)
(* 1 until the run of today is over: one day less has been tried.          *)
(***************************************************************************)
Pending(ran) == IF ran THEN 0 ELSE 1

(***************************************************************************)
(* x is as good as what batch b releases: one of its CRLs, or one signed   *)
(* after it whose own batch was not stored.                                *)
(***************************************************************************)
Follows(x, b) ==
    \/ IsOf(x, b)
    \/ x.number >= b.first + Count /\ x.lists >= b.lists /\ x.nextUpdate >= b.t0 + Window

(***************************************************************************)
(* Which batches and numbers meet: what is published or installed follows  *)
(* the current batch, or its number is at most the batch's first, and only *)
(* a failed signing has let it out under that number; a batch the Lambda   *)
(* still holds has only lower numbers.                                     *)
(***************************************************************************)
NumbersSound ==
    /\ batch.t0 <= doc.thisUpdate /\ doc.thisUpdate <= now /\ gotBatch.t0 <= now
    /\ batch.first + Count <= next /\ batch.lists <= revoked
    /\ doc.nextUpdate = doc.thisUpdate + Window /\ doc.number <= next /\ Follows(doc, batch)
    /\ \A x \in {published, installed, gotCrl} :
          x.number <= next /\ (Follows(x, batch) \/ x.number <= batch.first)
    /\ Follows(published, batch) \/ published.number < batch.first
       \/ (reused /\ published.number = batch.first)
    /\ gotBatch = batch \/ gotBatch.first + Count <= batch.first

(***************************************************************************)
(* A run of the Lambda works with today's date; unless opCA has signed     *)
(* today, nothing has changed under it.                                    *)
(***************************************************************************)
RunSound ==
    /\ lpc # "idle" => ~lran /\ clock = now
    /\ lpc # "idle" /\ gotCrl # published =>
          /\ doc.thisUpdate = now
          /\ Follows(published, batch) \/ batch.t0 = now
    /\ lpc = "batch" /\ gotBatch # batch => batch.t0 = now

(***************************************************************************)
(* How much later than the first a batch's first higher number is due.     *)
(***************************************************************************)
Wait == IF reused THEN Period - 1 ELSE 0

(***************************************************************************)
(* How long a new batch can stay unpublished, and then not installed.      *)
(***************************************************************************)
Reaching ==
    /\ ~Follows(published, batch) => now <= batch.t0 + Wait + lmiss + Pending(lran)
    /\ ~Follows(installed, batch) =>
          now <= batch.t0 + Wait + 1 + LambdaMiss + fmiss + Pending(fran)

(***************************************************************************)
(* How long a low cover can go without a warning.                          *)
(***************************************************************************)
Warning == ~warned => now + 1 <= batch.t0 + (Count - LowCover) * Period + lmiss + Pending(lran)

\* x lasts until day t, or as long as the Lambda can let out more.
LastsTo(x, t) == x.nextUpdate >= t \/ x.nextUpdate >= ServedUntil(published, batch)

(***************************************************************************)
(* Batch b can be released after y: y comes before it or is one of its     *)
(* CRLs, or the batch cannot replace it, or only from its second CRL on,   *)
(* and y lasts until then.                                                 *)
(***************************************************************************)
Joined(y, b) ==
    \/ y.number < b.first
    \/ IsOf(y, b)
    \/ y.number >= b.first + Count
    \/ y.number = b.first /\ y.nextUpdate > b.t0 + Period - 1 + Slack

(***************************************************************************)
(* On the day of a signing what is published and installed lasts longer    *)
(* than a new batch takes to replace it.                                   *)
(***************************************************************************)
CoveredToday ==
    kept /\ doc.thisUpdate = now =>
        /\ now + Slack < ServedUntil(published, batch)
        /\ published.nextUpdate >= now - lmiss - Pending(lran) + 1 + Slack
        /\ installed.nextUpdate >= now - fmiss - Pending(fran) + FetchMiss + 2

(***************************************************************************)
(* What the Lambda has read serves as long as what is there, or long       *)
(* enough.                                                                 *)
(***************************************************************************)
RunCovered ==
    kept /\ lpc # "idle" =>
        /\ gotCrl = published \/ published.nextUpdate > now + Slack
        /\ \A b \in IF lpc = "batch" THEN {gotBatch} ELSE {batch} :
              \/ ServedUntil(gotCrl, b) = ServedUntil(published, batch)
              \/ ServedUntil(gotCrl, b) > now + Slack
        /\ lpc = "batch" /\ gotCrl = published => Joined(gotCrl, gotBatch)

(***************************************************************************)
(* How much cover is left: less by a day for every failed run, counted     *)
(* from the last one that succeeded, the Lambda's and then the script's.   *)
(***************************************************************************)
Covered ==
    kept => /\ now < ServedUntil(published, batch)
            /\ LastsTo(published, now - lmiss - Pending(lran) + 1 + Slack)
            /\ LastsTo(installed, now - fmiss - Pending(fran) + FetchMiss + 2)
            /\ Joined(published, batch)

CoverInv ==
    TypeOK /\ NumbersSound /\ RunSound /\ Reaching /\ Covered /\ CoveredToday /\ RunCovered

(***************************************************************************)
(* The constants and the numbers a state is made of.                       *)
(***************************************************************************)
LEMMA ConstantNumbers ==
    /\ Period \in Nat /\ Window \in Nat /\ Count \in Nat /\ LambdaMiss \in Nat /\ FetchMiss \in Nat
    /\ Slack \in Nat /\ Slack = LambdaMiss + FetchMiss + 2
    /\ Period > 0 /\ Count > 1 /\ Window >= Period + Slack
BY BatchAssumption DEF Slack

(***************************************************************************)
(* The numbers a state is made of, and how long its batch is signed for.    *)
(***************************************************************************)
LEMMA StateNumbers ==
  ASSUME TypeOK
  PROVE  /\ now \in Nat /\ next \in Nat /\ clock \in Nat
         /\ lmiss \in Nat /\ lmiss <= LambdaMiss /\ fmiss \in Nat /\ fmiss <= FetchMiss
         /\ batch.t0 \in Nat /\ batch.first \in Nat /\ gotBatch.t0 \in Nat /\ gotBatch.first \in Nat
         /\ published.number \in Nat /\ installed.number \in Nat /\ gotCrl.number \in Nat
         /\ published.nextUpdate \in Nat /\ installed.nextUpdate \in Nat /\ gotCrl.nextUpdate \in Nat
         /\ SignedUntil(batch) \in Nat /\ SignedUntil(gotBatch) \in Nat
         /\ SignedUntil(batch) >= batch.t0 + Window
         /\ doc.number \in Nat /\ doc.thisUpdate \in Nat /\ doc.nextUpdate \in Nat
         /\ published.lists \in Nat /\ installed.lists \in Nat /\ batch.lists \in Nat
         /\ revoked \in Nat
         /\ Pending(lran) \in 0..1 /\ Pending(fran) \in 0..1
<1>1. batch \in CrlBatch /\ gotBatch \in CrlBatch /\ published \in CRL /\ installed \in CRL
      /\ gotCrl \in CRL /\ doc \in CRL
  BY DEF TypeOK
<1>2. lmiss \in Nat /\ lmiss <= LambdaMiss /\ fmiss \in Nat /\ fmiss <= FetchMiss
  BY BatchAssumption DEF TypeOK
<1>3. Pending(lran) \in 0..1 /\ Pending(fran) \in 0..1
  BY DEF Pending
<1>4. QED
  BY <1>1, <1>2, <1>3, SignedUntilIs DEF TypeOK, CrlBatch, CRL

(***************************************************************************)
(* What follows a batch lasts for its window and lists what it lists; it   *)
(* is served as long as it or the batch lasts.                             *)
(***************************************************************************)
LEMMA FollowsIs ==
  ASSUME NEW b \in CrlBatch, NEW x \in CRL, Follows(x, b)
  PROVE  /\ b.first <= x.number /\ x.lists >= b.lists /\ x.nextUpdate >= b.t0 + Window
         /\ x.number < b.first + Count => IsOf(x, b)
<1>1. CASE IsOf(x, b)
  BY <1>1, IsOfIs, ConstantNumbers DEF CrlBatch, CRL
<1>2. CASE ~IsOf(x, b)
  BY <1>2, ConstantNumbers DEF Follows, CrlBatch, CRL
<1>3. QED
  BY <1>1, <1>2

(***************************************************************************)
(* If the Lambda lets out nothing over a CRL that the batch is joined to,  *)
(* that CRL lasts Slack days more, or as long as it can be served.         *)
(***************************************************************************)
LEMMA KeptLasts ==
  ASSUME NEW b \in CrlBatch, NEW y \in CRL, NEW t \in Nat, b.t0 <= t, Joined(y, b),
         ~(y.number < LatestDue(b, t).number)
  PROVE  y.nextUpdate > t + Slack \/ y.nextUpdate >= ServedUntil(y, b)
<1> USE ConstantNumbers
<1>1. PICK m \in 0..Count - 1 : /\ LatestDue(b, t) = BatchCrl(b, m)
                                /\ m < Count - 1 => t < b.t0 + (m + 1) * Period
  BY DueIs
<1>2. PICK x : x = LatestDue(b, t)
  OBVIOUS
<1>3. IsOf(x, b) /\ (x.nextUpdate > t + Slack \/ x.nextUpdate >= SignedUntil(b))
  BY <1>2, LatestDueLasts
<1>4. /\ m \in Nat /\ b.first \in Nat /\ b.t0 \in Nat /\ y.number \in Nat /\ y.nextUpdate \in Nat
      /\ x.number = b.first + m /\ x.nextUpdate \in Nat /\ SignedUntil(b) \in Nat
      /\ ~(y.number < x.number)
  BY <1>1, <1>2, BatchCrlIs, SignedUntilIs DEF CrlBatch, CRL
<1>5. CASE y.number < b.first
  BY <1>4, <1>5
<1>6. CASE IsOf(y, b)
  <2>1. x.nextUpdate <= y.nextUpdate /\ y.number < b.first + Count
    BY <1>3, <1>4, <1>6, HigherLastsLonger, IsOfIs
  <2>2. QED
    BY <1>3, <1>4, <2>1 DEF ServedUntil
<1>7. CASE y.number >= b.first + Count
  BY <1>4, <1>7 DEF ServedUntil
<1>8. CASE y.number = b.first /\ y.nextUpdate > b.t0 + Period - 1 + Slack
  <2>1. m = 0 /\ (m + 1) * Period = Period
    BY <1>4, <1>8
  <2>2. t < b.t0 + Period
    BY <1>1, <2>1
  <2>3. QED
    BY <1>4, <1>8, <2>2
<1>9. QED
  BY <1>5, <1>6, <1>7, <1>8 DEF Joined

(***************************************************************************)
(* A signing takes a number that nothing published or installed is above;  *)
(* the old batch, or the CRL published over it, covers the days the new    *)
(* one may take, if the signing is not late; if it fails the old batch     *)
(* stays.                                                                  *)
(***************************************************************************)
LEMMA SignKeepsCover ==
  ASSUME CoverInv, TypeOK', NEW n \in 0..1, Sign(n)
  PROVE  CoverInv'
<1> USE ConstantNumbers, StateNumbers
<1>1. /\ TypeOK /\ NumbersSound /\ RunSound /\ Reaching /\ Covered /\ CoveredToday /\ RunCovered
  BY DEF CoverInv
<1>2. PICK b : b = [t0 |-> now, first |-> next, lists |-> revoked + n]
  OBVIOUS
<1>3. b \in CrlBatch /\ b.t0 = now /\ b.first = next /\ b.lists = revoked + n
  BY <1>1, <1>2 DEF TypeOK, CrlBatch
<1>4. /\ revoked' = revoked + n /\ doc' = BatchCrl(b, 0)
      /\ UNCHANGED <<now, published, installed, lpc, clock, gotCrl, gotBatch, lran, lmiss, fran,
                     fmiss>>
  BY <1>2 DEF Sign, lambda, fetch
<1>5. \/ /\ batch' = b /\ next' = next + Count /\ reused' = (published.number >= next)
         /\ kept' = (kept /\ now + FirstDue + Slack < ServedUntil(published, batch))
      \/ /\ next' \in {next, next + Count} /\ UNCHANGED <<batch, warned, reused>>
         /\ kept' = (kept /\ now + Slack < ServedUntil(published, batch))
  BY <1>2 DEF Sign
<1>6. kept' => kept /\ now + Slack < ServedUntil(published, batch)
  <2>1. FirstDue \in Nat /\ ServedUntil(published, batch) \in Nat
    BY <1>1 DEF FirstDue, ServedUntil
  <2>2. now + FirstDue + Slack < ServedUntil(published, batch) =>
           now + Slack < ServedUntil(published, batch)
    BY <1>1, <2>1
  <2>3. QED
    BY <1>5, <2>2
<1>7. /\ doc'.number = next /\ doc'.lists = revoked + n /\ doc'.thisUpdate = now
      /\ doc'.nextUpdate = now + Window /\ IsOf(doc', b)
  <2>1. 0 \in 0..Count - 1 /\ 0 * Period = 0
    BY <1>1
  <2>2. /\ doc'.number = b.first + 0 /\ doc'.lists = b.lists
        /\ doc'.thisUpdate = b.t0 + 0 * Period /\ doc'.nextUpdate = b.t0 + 0 * Period + Window
    BY <1>3, <1>4, <2>1, BatchCrlIs
  <2>3. IsOf(doc', b)
    BY <1>4, <2>1 DEF IsOf
  <2>4. QED
    BY <1>1, <1>3, <2>1, <2>2, <2>3
<1>8. /\ batch.t0 <= now /\ batch.first + Count <= next /\ batch.lists <= revoked
      /\ \A x \in {published, installed, gotCrl} : x.number <= next
  BY <1>1 DEF NumbersSound
<1>9. kept' => /\ published.nextUpdate >= now - lmiss - Pending(lran) + 1 + Slack
               /\ installed.nextUpdate >= now - fmiss - Pending(fran) + FetchMiss + 2
  BY <1>1, <1>6 DEF Covered, LastsTo, ServedUntil
<1>10. CASE batch' = b /\ next' = next + Count /\ reused' = (published.number >= next)
            /\ kept' = (kept /\ now + FirstDue + Slack < ServedUntil(published, batch))
  <2>1. ServedUntil(published', batch') = SignedUntil(b) /\ ServedUntil(gotCrl', batch') = SignedUntil(b)
        /\ SignedUntil(b) \in Nat /\ SignedUntil(b) >= now + Window
    <3>1. SignedUntil(b) \in Nat /\ SignedUntil(b) >= now + Window
      BY <1>3, SignedUntilIs
    <3>2. ~(published.number >= b.first + Count) /\ ~(gotCrl.number >= b.first + Count)
      BY <1>1, <1>3, <1>8
    <3>3. QED
      BY <1>4, <1>10, <3>1, <3>2 DEF ServedUntil
  <2>2. NumbersSound'
    <3>1. \A x \in {published', installed', gotCrl'} : x.number <= next' /\ x.number <= batch'.first
      BY <1>1, <1>3, <1>4, <1>8, <1>10
    <3>2. published'.number < batch'.first \/ (reused' /\ published'.number = batch'.first)
      <4>1. published.number < next \/ (published.number >= next /\ published.number = next)
        BY <1>1, <1>8
      <4>2. QED
        BY <1>3, <1>4, <1>10, <4>1
    <3>3. gotBatch'.first + Count <= batch'.first /\ gotBatch'.t0 <= now'
      BY <1>1, <1>3, <1>4, <1>8, <1>10 DEF NumbersSound
    <3>4. Follows(doc', batch')
      BY <1>7, <1>10 DEF Follows
    <3>5. batch'.first + Count <= next' /\ batch'.lists <= revoked' /\ batch'.t0 <= doc'.thisUpdate
          /\ doc'.thisUpdate <= now' /\ doc'.nextUpdate = doc'.thisUpdate + Window
          /\ doc'.number <= next'
      BY <1>1, <1>3, <1>4, <1>7, <1>10
    <3>6. QED
      BY <3>1, <3>2, <3>3, <3>4, <3>5 DEF NumbersSound
  <2>3. RunSound'
    BY <1>1, <1>3, <1>4, <1>7, <1>10 DEF RunSound
  <2>4. Wait' \in Nat
    BY <1>1 DEF Wait
  <2>5. Reaching'
    BY <1>1, <1>3, <1>4, <1>10, <2>4 DEF Reaching
  <2>6. kept' => Joined(published, b)
    <3>1. CASE published.number < next
      BY <1>3, <3>1 DEF Joined
    <3>2. CASE ~(published.number < next)
      <4>1. published.number = next /\ published.number >= next
        BY <1>1, <1>8, <3>2
      <4>2. FirstDue = Period - 1 /\ ServedUntil(published, batch) = published.nextUpdate
        BY <1>1, <1>8, <4>1 DEF FirstDue, ServedUntil
      <4>3. kept' => published.nextUpdate > now + Period - 1 + Slack
        BY <1>1, <1>10, <4>2
      <4>4. QED
        BY <1>3, <4>1, <4>3 DEF Joined
    <3>3. QED
      BY <3>1, <3>2
  <2>7. Covered'
    <3>1. Joined(published, batch)' <=> Joined(published, b)
      BY <1>4, <1>10 DEF Joined, IsOf
    <3>2. QED
      BY <1>1, <1>4, <1>9, <2>1, <2>6, <3>1 DEF Covered, LastsTo
  <2>8. CoveredToday'
    BY <1>1, <1>4, <1>9, <2>1 DEF CoveredToday
  <2>9. RunCovered'
    <3>1. SUFFICES ASSUME kept', lpc # "idle" PROVE RunCovered'
      BY <1>4 DEF RunCovered
    <3>2. kept /\ now + Slack < ServedUntil(published, batch)
      BY <1>6, <3>1
    <3>3. /\ gotCrl = published \/ published.nextUpdate > now + Slack
          /\ lpc = "batch" /\ gotCrl = published => Joined(gotCrl, gotBatch)
      BY <3>1, <3>2, <1>1 DEF RunCovered
    <3>4. lpc = "batch" => ServedUntil(gotCrl, gotBatch) > now + Slack
      BY <3>1, <3>2, <1>1 DEF RunCovered
    <3>5. ServedUntil(gotCrl', batch') > now + Slack
      BY <1>1, <2>1
    <3>6. lpc = "batch" => ServedUntil(gotCrl', gotBatch') > now + Slack
      BY <1>4, <3>4
    <3>7. Joined(gotCrl, gotBatch)' <=> Joined(gotCrl, gotBatch)
      BY <1>4
    <3>8. QED
      BY <1>4, <3>3, <3>5, <3>6, <3>7 DEF RunCovered
  <2>10. QED
    BY <2>2, <2>3, <2>5, <2>7, <2>8, <2>9 DEF CoverInv
<1>11. CASE next' \in {next, next + Count} /\ UNCHANGED <<batch, warned, reused>>
            /\ kept' = (kept /\ now + Slack < ServedUntil(published, batch))
  <2>1. NumbersSound'
    <3>1. next <= next' /\ next' \in Nat
      BY <1>1, <1>11
    <3>2. Follows(doc', batch')
      BY <1>1, <1>7, <1>8, <1>11 DEF Follows
    <3>3. /\ batch.t0 <= doc'.thisUpdate /\ doc'.thisUpdate <= now /\ gotBatch.t0 <= now
          /\ batch.first + Count <= next' /\ batch.lists <= revoked'
          /\ doc'.nextUpdate = doc'.thisUpdate + Window /\ doc'.number <= next'
          /\ \A x \in {published, installed, gotCrl} : x.number <= next'
      BY <1>1, <1>4, <1>7, <1>8, <3>1 DEF NumbersSound
    <3>4. QED
      BY <1>1, <1>4, <1>11, <3>2, <3>3 DEF NumbersSound
  <2>2. RunSound'
    BY <1>1, <1>4, <1>7, <1>11 DEF RunSound
  <2>3. Reaching'
    BY <1>1, <1>4, <1>11 DEF Reaching, Wait
  <2>4. Covered'
    BY <1>1, <1>4, <1>6, <1>11 DEF Covered, LastsTo
  <2>5. CoveredToday'
    BY <1>4, <1>6, <1>9, <1>11 DEF CoveredToday
  <2>6. RunCovered'
    BY <1>1, <1>4, <1>6, <1>11 DEF RunCovered
  <2>7. QED
    BY <2>1, <2>2, <2>3, <2>4, <2>5, <2>6 DEF CoverInv
<1>12. QED
  BY <1>5, <1>10, <1>11

(***************************************************************************)
(* An upload on the day of the signing publishes a CRL of today, which     *)
(* follows the batch.                                                      *)
(***************************************************************************)
LEMMA UploadKeepsCover ==
  ASSUME CoverInv, TypeOK', ~LateUpload, UploadCrl
  PROVE  CoverInv'
<1> USE ConstantNumbers, StateNumbers
<1>1. TypeOK /\ NumbersSound /\ RunSound /\ Reaching /\ Covered /\ CoveredToday /\ RunCovered
  BY DEF CoverInv
<1>2. /\ doc.thisUpdate = now /\ published' = doc
      /\ UNCHANGED <<now, next, revoked, batch, doc, installed, lpc, clock, gotCrl, gotBatch, lran,
                     lmiss, fran, fmiss, warned, reused, kept>>
  BY DEF UploadCrl, lambda, fetch
<1>3. /\ Follows(doc, batch) /\ doc.nextUpdate = now + Window /\ batch.first <= doc.number
      /\ doc.number < batch.first + Count => IsOf(doc, batch)
  <2>1. doc \in CRL /\ batch \in CrlBatch /\ Follows(doc, batch)
    BY <1>1 DEF TypeOK, NumbersSound
  <2>2. QED
    BY <1>1, <1>2, <2>1, FollowsIs DEF NumbersSound
<1>4. NumbersSound'
  BY <1>1, <1>2, <1>3 DEF NumbersSound
<1>5. RunSound'
  BY <1>1, <1>2, <1>3 DEF RunSound
<1>6. Reaching'
  BY <1>1, <1>2, <1>3 DEF Reaching, Wait
<1>7. SUFFICES Covered' /\ CoveredToday' /\ RunCovered'
  BY <1>4, <1>5, <1>6 DEF CoverInv
<1>8. SUFFICES ASSUME kept PROVE Covered' /\ CoveredToday' /\ RunCovered'
  BY <1>2 DEF Covered, CoveredToday, RunCovered
<1>9. /\ now + Slack < ServedUntil(published, batch)
      /\ installed.nextUpdate >= now - fmiss - Pending(fran) + FetchMiss + 2
  BY <1>1, <1>2, <1>8 DEF CoveredToday
<1>10. now + Slack < ServedUntil(doc, batch)
  <2>1. CASE doc.number >= batch.first + Count
    BY <1>1, <1>3, <2>1 DEF ServedUntil
  <2>2. CASE ~(doc.number >= batch.first + Count)
    <3>1. doc.nextUpdate <= SignedUntil(batch)
      BY <1>1, <1>3, <2>2, IsOfIs DEF TypeOK
    <3>2. QED
      BY <1>1, <1>3, <2>2, <3>1 DEF ServedUntil
  <2>3. QED
    BY <2>1, <2>2
<1>11. doc.nextUpdate > now + Slack
       /\ doc.nextUpdate >= now - lmiss - Pending(lran) + 1 + Slack
  BY <1>1, <1>3
<1>12. Joined(doc, batch)
  BY <1>1, <1>3 DEF Joined
<1>13. Covered'
  <2>1. ServedUntil(published', batch') = ServedUntil(doc, batch) /\ ServedUntil(doc, batch) \in Nat
    BY <1>1, <1>2 DEF ServedUntil
  <2>2. Joined(published, batch)'
    BY <1>2, <1>12
  <2>3. QED
    BY <1>1, <1>2, <1>9, <1>10, <1>11, <2>1, <2>2 DEF Covered, LastsTo
<1>14. CoveredToday'
  BY <1>2, <1>9, <1>10, <1>11 DEF CoveredToday
<1>15. RunCovered'
  <2>1. SUFFICES ASSUME lpc # "idle" PROVE RunCovered'
    BY <1>2 DEF RunCovered
  <2>2. \A b \in IF lpc = "batch" THEN {gotBatch} ELSE {batch} : ServedUntil(gotCrl, b) > now + Slack
    <3>1. \A b \in IF lpc = "batch" THEN {gotBatch} ELSE {batch} :
             \/ ServedUntil(gotCrl, b) = ServedUntil(published, batch)
             \/ ServedUntil(gotCrl, b) > now + Slack
      BY <1>1, <1>8, <2>1 DEF RunCovered
    <3>2. QED
      BY <1>9, <3>1
  <2>3. Joined(doc, gotBatch)
    <3>1. CASE gotBatch = batch
      BY <1>12, <3>1
    <3>2. CASE gotBatch.first + Count <= batch.first
      BY <1>1, <1>3, <3>2 DEF Joined
    <3>3. QED
      BY <1>1, <3>1, <3>2 DEF NumbersSound
  <2>4. gotCrl' = published' => Joined(gotCrl', gotBatch')
    BY <1>2, <2>3
  <2>5. Joined(gotCrl, gotBatch)' <=> Joined(gotCrl', gotBatch')
    OBVIOUS
  <2>6. QED
    BY <1>2, <1>11, <2>2, <2>4 DEF RunCovered
<1>16. QED
  BY <1>13, <1>14, <1>15

(***************************************************************************)
(* The Lambda's two reads see what is published and the current batch.     *)
(***************************************************************************)
LEMMA ReadsKeepCover ==
  ASSUME CoverInv, TypeOK', ~Warm, LambdaGetCrl \/ LambdaGetBatch
  PROVE  CoverInv'
<1> USE ConstantNumbers, StateNumbers
<1>1. TypeOK /\ NumbersSound /\ RunSound /\ Reaching /\ Covered /\ CoveredToday /\ RunCovered
  BY DEF CoverInv
<1>2. /\ UNCHANGED <<now, next, revoked, batch, doc, published, installed, lran, lmiss, fran, fmiss,
                     warned, reused, kept>>
      /\ ~lran /\ clock' = now
      /\ \/ lpc' = "crl" /\ gotCrl' = published /\ gotBatch' = gotBatch
         \/ lpc = "crl" /\ lpc' = "batch" /\ gotCrl' = gotCrl /\ gotBatch' = batch
  BY <1>1 DEF LambdaGetCrl, LambdaGetBatch, fetch, RunSound
<1>3. NumbersSound'
  BY <1>1, <1>2 DEF NumbersSound
<1>4. RunSound'
  BY <1>1, <1>2 DEF RunSound
<1>5. Reaching'
  BY <1>1, <1>2 DEF Reaching, Wait
<1>6. Covered'
  BY <1>1, <1>2 DEF Covered, LastsTo
<1>7. CoveredToday'
  BY <1>1, <1>2 DEF CoveredToday
<1>8. RunCovered'
  <2>1. CASE lpc' = "crl" /\ gotCrl' = published /\ gotBatch' = gotBatch
    BY <1>2, <2>1 DEF RunCovered
  <2>2. CASE lpc = "crl" /\ lpc' = "batch" /\ gotCrl' = gotCrl /\ gotBatch' = batch
    <3>1. SUFFICES ASSUME kept PROVE RunCovered'
      BY <1>2 DEF RunCovered
    <3>2. /\ gotCrl = published \/ published.nextUpdate > now + Slack
          /\ \/ ServedUntil(gotCrl, batch) = ServedUntil(published, batch)
             \/ ServedUntil(gotCrl, batch) > now + Slack
      BY <1>1, <2>2, <3>1 DEF RunCovered
    <3>3. gotCrl = published => Joined(gotCrl, batch)
      BY <1>1, <3>1 DEF Covered
    <3>4. QED
      BY <1>2, <2>2, <3>2, <3>3 DEF RunCovered
  <2>3. QED
    BY <1>2, <2>1, <2>2
<1>9. QED
  BY <1>3, <1>4, <1>5, <1>6, <1>7, <1>8 DEF CoverInv

(***************************************************************************)
(* A run that succeeds leaves a CRL published that lasts Slack days more,  *)
(* or as long as it can be served; unless the batch was signed today it    *)
(* follows the current batch, or lasts until the batch goes on.            *)
(***************************************************************************)
LEMMA ReleaseKeepsCover ==
  ASSUME CoverInv, TypeOK', LambdaRelease
  PROVE  CoverInv'
<1> USE ConstantNumbers, StateNumbers
<1>1. TypeOK /\ NumbersSound /\ RunSound /\ Reaching /\ Covered /\ CoveredToday /\ RunCovered
  BY DEF CoverInv
<1>2. PICK x : x = LatestDue(gotBatch, clock)
  OBVIOUS
<1>3. /\ lpc = "batch" /\ clock = now /\ ~lran
      /\ lpc' = "idle" /\ lran' = TRUE /\ lmiss' = 0
      /\ UNCHANGED <<now, next, revoked, batch, doc, installed, clock, gotCrl, gotBatch, fran,
                     fmiss, reused, kept>>
  BY <1>1 DEF LambdaRelease, RunSound, fetch
<1>4. /\ batch \in CrlBatch /\ gotBatch \in CrlBatch /\ gotBatch.t0 <= now
      /\ published \in CRL /\ gotCrl \in CRL
  BY <1>1 DEF TypeOK, NumbersSound
<1>5. /\ Due(gotBatch, clock) # {} /\ IsOf(x, gotBatch)
      /\ x.nextUpdate > now + Slack \/ x.nextUpdate >= SignedUntil(gotBatch)
  BY <1>1, <1>2, <1>3, <1>4, LatestDueLasts
<1>6. /\ x.number \in Nat /\ x.nextUpdate \in Nat
      /\ gotBatch.first <= x.number /\ x.number < gotBatch.first + Count
  BY <1>4, <1>5, IsOfIs DEF CRL
<1>7. \/ gotCrl.number < x.number /\ published' = x
      \/ ~(gotCrl.number < x.number) /\ published' = published
  BY <1>1, <1>2, <1>5, <1>6 DEF LambdaRelease
<1>8. /\ gotBatch # batch => now = batch.t0 /\ x.number < batch.first
      /\ gotBatch = batch => Follows(x, batch)
  BY <1>1, <1>3, <1>5, <1>6 DEF RunSound, NumbersSound, Follows
<1>9. NumbersSound'
  <2>1. x.number <= next /\ (Follows(x, batch) \/ x.number < batch.first)
    BY <1>1, <1>6, <1>8 DEF NumbersSound
  <2>2. published'.number <= next /\ (Follows(published', batch) \/ published'.number <= batch.first)
    BY <1>1, <1>6, <1>7, <2>1 DEF NumbersSound
  <2>3. Follows(published', batch) \/ published'.number < batch.first
        \/ (reused /\ published'.number = batch.first)
    BY <1>1, <1>7, <2>1 DEF NumbersSound
  <2>4. QED
    BY <1>1, <1>3, <2>2, <2>3 DEF NumbersSound
<1>10. RunSound'
  BY <1>3 DEF RunSound
<1>11. Wait \in Nat /\ Wait' = Wait
  BY <1>1, <1>3 DEF Wait
<1>12. Reaching'
  <2>1. ASSUME ~Follows(published', batch), gotBatch = batch, batch.t0 # now
        PROVE  now <= batch.t0 + Wait
    <3>1. /\ published' = published /\ ~(gotCrl.number < x.number) /\ gotCrl = published
          /\ published.number < batch.first \/ (reused /\ published.number = batch.first)
      BY <1>1, <1>3, <1>7, <1>8, <2>1 DEF RunSound, NumbersSound
    <3>2. reused /\ x.number = batch.first
      BY <1>1, <1>6, <2>1, <3>1
    <3>3. PICK m \in 0..Count - 1 : /\ LatestDue(batch, now) = BatchCrl(batch, m)
                                    /\ m < Count - 1 => now < batch.t0 + (m + 1) * Period
      BY <1>1, <1>4, <2>1, DueIs
    <3>4. x.number = batch.first + m /\ m \in Nat
      BY <1>1, <1>2, <1>3, <1>4, <2>1, <3>3, BatchCrlIs
    <3>5. m = 0 /\ (m + 1) * Period = Period
      BY <1>1, <3>2, <3>4
    <3>6. QED
      BY <1>1, <3>2, <3>3, <3>5 DEF Wait
  <2>2. ~Follows(published', batch) => now <= batch.t0 + Wait
    BY <1>1, <1>8, <1>11, <2>1
  <2>3. QED
    BY <1>1, <1>3, <1>11, <2>2 DEF Reaching, Pending
<1>13. SUFFICES ASSUME kept PROVE Covered' /\ CoveredToday'
  BY <1>3, <1>9, <1>10, <1>12 DEF CoverInv, Covered, CoveredToday, RunCovered
<1>14. /\ now < ServedUntil(published, batch)
       /\ LastsTo(installed, now - fmiss - Pending(fran) + FetchMiss + 2)
       /\ gotCrl = published \/ published.nextUpdate > now + Slack
       /\ \/ ServedUntil(gotCrl, gotBatch) = ServedUntil(published, batch)
          \/ ServedUntil(gotCrl, gotBatch) > now + Slack
       /\ gotCrl = published => Joined(gotCrl, gotBatch)
  BY <1>1, <1>3, <1>13 DEF Covered, RunCovered
<1>15. doc.thisUpdate = now =>
          /\ now + Slack < ServedUntil(published, batch)
          /\ installed.nextUpdate >= now - fmiss - Pending(fran) + FetchMiss + 2
  BY <1>1, <1>13 DEF CoveredToday
<1>16. Pending(lran') = 0 /\ lmiss' = 0 /\ now - lmiss' - Pending(lran') + 1 + Slack = now + 1 + Slack
  BY <1>1, <1>3 DEF Pending
<1>17. /\ ServedUntil(published, batch) \in Nat /\ ServedUntil(gotCrl, gotBatch) \in Nat
       /\ ServedUntil(published', batch) \in Nat /\ published'.nextUpdate \in Nat
  <2>1. published'.nextUpdate \in Nat
    BY DEF TypeOK, CRL
  <2>2. QED
    BY <1>1, <2>1 DEF ServedUntil
<1>18. SUFFICES /\ now < ServedUntil(published', batch)
                /\ published'.nextUpdate > now + Slack
                   \/ published'.nextUpdate >= ServedUntil(published', batch)
                /\ \/ installed.nextUpdate >= now - fmiss - Pending(fran) + FetchMiss + 2
                   \/ installed.nextUpdate >= ServedUntil(published', batch)
                /\ Joined(published', batch)
                /\ doc.thisUpdate = now => now + Slack < ServedUntil(published', batch)
  <2>1. Covered'
    BY <1>1, <1>3, <1>16, <1>17, <1>18 DEF Covered, LastsTo
  <2>2. CoveredToday'
    BY <1>1, <1>3, <1>15, <1>16, <1>17, <1>18 DEF CoveredToday
  <2>3. QED
    BY <2>1, <2>2
<1>19. CASE ~(gotCrl.number < x.number) /\ published' = published
  <2>1. published.nextUpdate > now + Slack
        \/ published.nextUpdate >= ServedUntil(published, batch)
    <3>1. CASE gotCrl = published
      <4>1. published.nextUpdate > now + Slack \/ published.nextUpdate >= ServedUntil(published, gotBatch)
        BY <1>1, <1>2, <1>3, <1>4, <1>14, <1>19, <3>1, KeptLasts
      <4>2. QED
        BY <1>1, <1>14, <1>17, <3>1, <4>1
    <3>2. QED
      BY <1>14, <3>1
  <2>2. Joined(published, batch)
    BY <1>1, <1>13 DEF Covered
  <2>3. QED
    BY <1>14, <1>15, <1>19, <2>1, <2>2 DEF LastsTo
<1>20. CASE gotCrl.number < x.number /\ published' = x
  <2>1. ServedUntil(gotCrl, gotBatch) = SignedUntil(gotBatch)
    BY <1>1, <1>6, <1>20 DEF ServedUntil
  <2>2. CASE gotBatch = batch
    <3>1. ServedUntil(published', batch) = SignedUntil(batch) /\ Joined(published', batch)
      BY <1>1, <1>5, <1>6, <1>20, <2>2 DEF ServedUntil, Joined
    <3>2. gotCrl = published => ServedUntil(published', batch) = ServedUntil(published, batch)
      BY <2>1, <2>2, <3>1
    <3>3. gotCrl # published => doc.thisUpdate = now
      BY <1>1, <1>3 DEF RunSound
    <3>4. now < ServedUntil(published', batch)
          /\ (doc.thisUpdate = now => now + Slack < ServedUntil(published', batch))
      BY <1>1, <1>14, <1>15, <1>17, <2>1, <2>2, <3>1
    <3>5. \/ installed.nextUpdate >= now - fmiss - Pending(fran) + FetchMiss + 2
          \/ installed.nextUpdate >= ServedUntil(published', batch)
      BY <1>14, <1>15, <3>2, <3>3 DEF LastsTo
    <3>6. QED
      BY <1>5, <1>20, <2>2, <3>1, <3>4, <3>5
  <2>3. CASE gotBatch # batch
    <3>1. now = batch.t0 /\ x.number < batch.first
      BY <1>8, <2>3
    <3>2. doc.thisUpdate = now
      BY <1>1, <3>1 DEF NumbersSound
    <3>3. ServedUntil(published', batch) = SignedUntil(batch) /\ Joined(published', batch)
      BY <1>1, <1>6, <1>20, <3>1 DEF ServedUntil, Joined
    <3>4. now + Slack < SignedUntil(batch)
      BY <1>1, <3>1
    <3>5. SignedUntil(gotBatch) > now + Slack
      BY <1>14, <1>15, <2>1, <3>2
    <3>6. x.nextUpdate > now + Slack
      BY <1>1, <1>5, <1>6, <3>5
    <3>7. QED
      BY <1>1, <1>15, <1>20, <3>2, <3>3, <3>4, <3>6
  <2>4. QED
    BY <2>2, <2>3
<1>21. QED
  BY <1>7, <1>19, <1>20

(***************************************************************************)
(* A run that fails costs a day of what is left.                           *)
(***************************************************************************)
LEMMA FailuresKeepCover ==
  ASSUME CoverInv, TypeOK', LambdaFails \/ FetchFails
  PROVE  CoverInv'
<1> USE ConstantNumbers, StateNumbers
<1>1. TypeOK /\ NumbersSound /\ RunSound /\ Reaching /\ Covered /\ CoveredToday /\ RunCovered
  BY DEF CoverInv
<1>2. /\ UNCHANGED <<now, next, revoked, batch, doc, published, installed, clock, gotCrl, gotBatch,
                     reused, kept>>
      /\ \/ lpc' = "idle" /\ fmiss' = fmiss /\ fran' = fran
         \/ lpc' = lpc /\ lran' = lran /\ lmiss' = lmiss
      /\ lmiss' + Pending(lran') = lmiss + Pending(lran)
      /\ fmiss' + Pending(fran') = fmiss + Pending(fran)
  BY <1>1 DEF LambdaFails, FetchFails, lambda, fetch, Pending
<1>3. /\ now - lmiss' - Pending(lran') + 1 + Slack = now - lmiss - Pending(lran) + 1 + Slack
      /\ now - fmiss' - Pending(fran') + FetchMiss + 2 = now - fmiss - Pending(fran) + FetchMiss + 2
      /\ lmiss' \in Nat /\ fmiss' \in Nat /\ Pending(lran') \in Nat /\ Pending(fran') \in Nat
  <2>1. lmiss' \in Nat /\ fmiss' \in Nat /\ Pending(lran') \in Nat /\ Pending(fran') \in Nat
    BY <1>1 DEF TypeOK, Pending
  <2>2. QED
    BY <1>1, <1>2, <2>1
<1>4. NumbersSound'
  BY <1>1, <1>2 DEF NumbersSound
<1>5. RunSound'
  BY <1>1, <1>2 DEF RunSound
<1>6. Wait \in Nat /\ Wait' = Wait
  BY <1>1, <1>2 DEF Wait
<1>7. Reaching'
  BY <1>1, <1>2, <1>3, <1>6 DEF Reaching
<1>8. Covered'
  BY <1>1, <1>2, <1>3 DEF Covered, LastsTo
<1>9. CoveredToday'
  BY <1>1, <1>2, <1>3 DEF CoveredToday
<1>10. RunCovered'
  BY <1>1, <1>2 DEF RunCovered
<1>11. QED
  BY <1>4, <1>5, <1>7, <1>8, <1>9, <1>10 DEF CoverInv

(***************************************************************************)
(* A fetch installs what is published, which has not expired.              *)
(***************************************************************************)
LEMMA FetchKeepsCover ==
  ASSUME CoverInv, TypeOK', Fetch
  PROVE  CoverInv'
<1> USE ConstantNumbers, StateNumbers
<1>1. TypeOK /\ NumbersSound /\ RunSound /\ Reaching /\ Covered /\ CoveredToday /\ RunCovered
  BY DEF CoverInv
<1>2. /\ ~fran /\ fran' = TRUE /\ fmiss' = 0
      /\ \/ now < published.nextUpdate /\ installed' = published
         \/ ~(now < published.nextUpdate) /\ installed' = installed
      /\ UNCHANGED <<now, next, revoked, batch, doc, published, lpc, clock, gotCrl, gotBatch, lran,
                     lmiss, warned, reused, kept>>
  BY <1>1 DEF Fetch, lambda
<1>3. NumbersSound'
  BY <1>1, <1>2 DEF NumbersSound
<1>4. RunSound'
  BY <1>1, <1>2 DEF RunSound
<1>5. Wait \in Nat /\ Wait' = Wait /\ Wait < Period
  BY <1>1, <1>2 DEF Wait
<1>6. Pending(fran') = 0 /\ Pending(fran) = 1
      /\ now - fmiss' - Pending(fran') + FetchMiss + 2 = now + FetchMiss + 2
  BY <1>1, <1>2 DEF Pending
<1>7. Reaching'
  <2>1. SUFFICES ASSUME ~Follows(installed', batch), batch.t0 + Wait + 1 + LambdaMiss < now
                 PROVE  FALSE
    BY <1>1, <1>2, <1>5, <1>6 DEF Reaching
  <2>2. Follows(published, batch)
    BY <1>1, <1>5, <2>1 DEF Reaching
  <2>3. published.nextUpdate >= batch.t0 + Window
    BY <1>1, <2>2, FollowsIs DEF TypeOK
  <2>4. installed' = installed /\ published.nextUpdate <= now
    BY <1>1, <1>2, <2>1, <2>2
  <2>5. now <= batch.t0 + Wait + 1 + LambdaMiss + fmiss + 1
    BY <1>1, <1>6, <2>1, <2>4 DEF Reaching
  <2>6. QED
    BY <1>1, <1>5, <2>3, <2>4, <2>5
<1>8. kept => /\ now < ServedUntil(published, batch) /\ ServedUntil(published, batch) \in Nat
              /\ published.nextUpdate >= now + FetchMiss + 2
                 \/ published.nextUpdate >= ServedUntil(published, batch)
              /\ installed' = published
  <2>1. SUFFICES ASSUME kept
                 PROVE  /\ now < ServedUntil(published, batch)
                        /\ ServedUntil(published, batch) \in Nat
                        /\ published.nextUpdate >= now + FetchMiss + 2
                           \/ published.nextUpdate >= ServedUntil(published, batch)
                        /\ installed' = published
    OBVIOUS
  <2>2. ServedUntil(published, batch) \in Nat
    BY <1>1 DEF ServedUntil
  <2>3. /\ now < ServedUntil(published, batch)
        /\ published.nextUpdate >= now - lmiss - Pending(lran) + 1 + Slack
           \/ published.nextUpdate >= ServedUntil(published, batch)
    BY <1>1, <2>1 DEF Covered, LastsTo
  <2>4. published.nextUpdate >= now + FetchMiss + 2
        \/ published.nextUpdate >= ServedUntil(published, batch)
    BY <1>1, <2>3
  <2>5. QED
    BY <1>1, <1>2, <2>2, <2>3, <2>4
<1>9. Covered'
  BY <1>1, <1>2, <1>6, <1>8 DEF Covered, LastsTo
<1>10. CoveredToday'
  <2>1. SUFFICES ASSUME kept, doc.thisUpdate = now PROVE CoveredToday'
    BY <1>2 DEF CoveredToday
  <2>2. /\ now + Slack < ServedUntil(published, batch)
        /\ published.nextUpdate >= now - lmiss - Pending(lran) + 1 + Slack
    BY <1>1, <2>1 DEF CoveredToday
  <2>3. published.nextUpdate >= now + FetchMiss + 2
    BY <1>1, <2>2
  <2>4. QED
    BY <1>2, <1>6, <1>8, <2>1, <2>2, <2>3 DEF CoveredToday
<1>11. RunCovered'
  BY <1>1, <1>2 DEF RunCovered
<1>12. QED
  BY <1>3, <1>4, <1>7, <1>9, <1>10, <1>11 DEF CoverInv

(***************************************************************************)
(* A day passes once both runs of the day are over.                        *)
(***************************************************************************)
LEMMA TickKeepsCover ==
  ASSUME CoverInv, TypeOK', Tick
  PROVE  CoverInv'
<1> USE ConstantNumbers, StateNumbers
<1>1. TypeOK /\ NumbersSound /\ RunSound /\ Reaching /\ Covered /\ CoveredToday /\ RunCovered
  BY DEF CoverInv
<1>2. /\ lran /\ fran /\ now' = now + 1 /\ lran' = FALSE /\ fran' = FALSE
      /\ kept' = (kept /\ now' < ServedUntil(published, batch))
      /\ UNCHANGED <<next, revoked, batch, doc, published, installed, lpc, clock, gotCrl, gotBatch,
                     lmiss, fmiss, warned, reused>>
  BY DEF Tick
<1>3. lpc = "idle"
  BY <1>1, <1>2 DEF RunSound
<1>4. NumbersSound'
  BY <1>1, <1>2 DEF NumbersSound
<1>5. RunSound'
  BY <1>2, <1>3 DEF RunSound
<1>6. Wait \in Nat /\ Wait' = Wait
  BY <1>1, <1>2 DEF Wait
<1>7. Reaching'
  BY <1>1, <1>2, <1>6 DEF Reaching, Pending
<1>8. Covered'
  <2>1. /\ now' - lmiss' - Pending(lran') + 1 + Slack = now - lmiss - Pending(lran) + 1 + Slack
        /\ now' - fmiss' - Pending(fran') + FetchMiss + 2 = now - fmiss - Pending(fran) + FetchMiss + 2
    BY <1>1, <1>2 DEF Pending
  <2>2. QED
    BY <1>1, <1>2, <2>1 DEF Covered, LastsTo
<1>9. doc'.thisUpdate < now'
  BY <1>1, <1>2 DEF NumbersSound
<1>10. CoveredToday' /\ RunCovered'
  BY <1>1, <1>2, <1>3, <1>9 DEF CoveredToday, RunCovered
<1>11. QED
  BY <1>4, <1>5, <1>7, <1>8, <1>10 DEF CoverInv

(***************************************************************************)
(* The cover holds at the start and every step keeps it.                   *)
(***************************************************************************)
LEMMA CoverAlways ==
  ASSUME ~Warm, ~LateUpload
  PROVE  Spec => []CoverInv
<1> USE ConstantNumbers
<1>1. Init /\ TypeOK => CoverInv
  <2> SUFFICES ASSUME Init, TypeOK PROVE CoverInv
    OBVIOUS
  <2>1. /\ FirstBatch \in CrlBatch /\ FirstBatch.t0 = 0 /\ FirstBatch.first = 1
        /\ FirstBatch.lists = 0
        /\ FirstCrl = BatchCrl(FirstBatch, 0) /\ 0 \in 0..Count - 1 /\ 0 * Period = 0
    BY DEF FirstBatch, FirstCrl, CrlBatch
  <2>2. IsOf(FirstCrl, FirstBatch) /\ Follows(FirstCrl, FirstBatch)
    BY <2>1 DEF IsOf, Follows
  <2>3. FirstCrl.number = 1 /\ FirstCrl.nextUpdate = Window /\ FirstCrl.thisUpdate = 0
    <3>1. FirstCrl.number = 1 + 0 /\ FirstCrl.nextUpdate = 0 + 0 * Period + Window
          /\ FirstCrl.thisUpdate = 0 + 0 * Period
      BY <2>1, BatchCrlIs
    <3>2. QED
      BY <2>1, <3>1
  <2>4. SignedUntil(FirstBatch) \in Nat /\ SignedUntil(FirstBatch) >= Window
    BY <2>1, SignedUntilIs
  <2>5. ServedUntil(FirstCrl, FirstBatch) = SignedUntil(FirstBatch)
    BY <2>1, <2>3 DEF ServedUntil
  <2>6. NumbersSound
    BY <2>1, <2>2, <2>3 DEF Init, NumbersSound
  <2>7. RunSound
    BY DEF Init, RunSound
  <2>8. Reaching
    BY <2>1, <2>2 DEF Init, Reaching
  <2>9. now - lmiss - Pending(lran) + 1 + Slack = Slack
        /\ now - fmiss - Pending(fran) + FetchMiss + 2 = FetchMiss + 1
    BY DEF Init, Pending
  <2>10. Covered
    <3>1. LastsTo(published, Slack) /\ LastsTo(installed, FetchMiss + 1)
      BY <2>3 DEF Init, LastsTo
    <3>2. QED
      BY <2>2, <2>4, <2>5, <2>9, <3>1 DEF Init, Covered, Joined
  <2>11. CoveredToday
    BY <2>3, <2>4, <2>5, <2>9 DEF Init, CoveredToday
  <2>12. RunCovered
    BY DEF Init, RunCovered
  <2>13. QED
    BY <2>6, <2>7, <2>8, <2>10, <2>11, <2>12 DEF CoverInv
<1>2. CoverInv /\ TypeOK' /\ [Next]_vars => CoverInv'
  <2> SUFFICES ASSUME CoverInv, TypeOK', [Next]_vars PROVE CoverInv'
    OBVIOUS
  <2>1. CASE GenerateCrl \/ RevokeCert
    <3>1. PICK n \in 0..1 : Sign(n)
      BY <2>1 DEF GenerateCrl, RevokeCert
    <3>2. QED
      BY <3>1, SignKeepsCover
  <2>2. CASE UploadCrl
    BY <2>2, UploadKeepsCover
  <2>3. CASE LambdaGetCrl \/ LambdaGetBatch
    BY <2>3, ReadsKeepCover
  <2>4. CASE LambdaRelease
    BY <2>4, ReleaseKeepsCover
  <2>5. CASE LambdaFails \/ FetchFails
    BY <2>5, FailuresKeepCover
  <2>6. CASE Fetch
    BY <2>6, FetchKeepsCover
  <2>7. CASE Tick
    BY <2>7, TickKeepsCover
  <2>8. CASE UNCHANGED vars
    BY <2>8 DEF vars, CoverInv, NumbersSound, RunSound, Reaching, Covered, LastsTo, CoveredToday,
                RunCovered, Wait
  <2>9. QED
    BY <2>1, <2>2, <2>3, <2>4, <2>5, <2>6, <2>7, <2>8 DEF Next
<1>3. Spec => []TypeOK
  BY TypeCorrect
<1>4. QED
  BY <1>1, <1>2, <1>3, PTL DEF Spec

(***************************************************************************)
(* No server holds an expired CRL as long as cover is renewed in time,     *)
(* also after signings that failed between their stores, when uploads      *)
(* happen on the day of the signing and the Lambda reads the date of its   *)
(* run; opCA may act at any point of the Lambda's run.                     *)
(***************************************************************************)
THEOREM ServersStayCovered ==
  ASSUME ~Warm, ~LateUpload
  PROVE  Spec => []InstalledCovered
<1>1. CoverInv => InstalledCovered
  <2> SUFFICES ASSUME CoverInv, kept PROVE installed.nextUpdate > now
    BY DEF InstalledCovered
  <2>1. TypeOK
    BY DEF CoverInv
  <2>2. now < ServedUntil(published, batch)
        /\ (installed.nextUpdate >= now - fmiss - Pending(fran) + FetchMiss + 2
            \/ installed.nextUpdate >= ServedUntil(published, batch))
    BY DEF CoverInv, Covered, LastsTo
  <2>3. ServedUntil(published, batch) \in Nat
    BY <2>1, StateNumbers DEF ServedUntil
  <2>4. QED
    BY <2>1, <2>2, <2>3, ConstantNumbers, StateNumbers
<1>2. Spec => []CoverInv
  BY CoverAlways
<1>3. QED
  BY <1>1, <1>2, PTL

(***************************************************************************)
(* A revocation of the current batch is installed two days after the runs  *)
(* that may fail, or a period later if the batch took the number of a      *)
(* signing that failed, under the same conditions.                         *)
(***************************************************************************)
THEOREM RevocationsArrive ==
  ASSUME ~Warm, ~LateUpload
  PROVE  Spec => []RevocationReachesServers
<1>1. CoverInv => RevocationReachesServers
  <2> SUFFICES ASSUME CoverInv, now > batch.t0 + Slack + (IF reused THEN Period - 1 ELSE 0)
               PROVE  installed.lists >= batch.lists
    BY DEF RevocationReachesServers
  <2>1. TypeOK /\ Reaching /\ batch \in CrlBatch /\ installed \in CRL
    BY DEF CoverInv, TypeOK
  <2>2. Wait \in Nat /\ now > batch.t0 + Slack + Wait
    BY ConstantNumbers DEF Wait
  <2>3. Follows(installed, batch)
    BY <2>1, <2>2, ConstantNumbers, StateNumbers DEF Reaching
  <2>4. QED
    BY <2>1, <2>3, FollowsIs
<1>2. Spec => []CoverInv
  BY CoverAlways
<1>3. QED
  BY <1>1, <1>2, PTL

(***************************************************************************)
(* The Lambda has asked for a new batch once LowCover periods are left,    *)
(* less the runs that may fail, if the threshold is one a batch can cross. *)
(***************************************************************************)
THEOREM WarnsInTime ==
  ASSUME ~Warm, ~LateUpload, LowCover \in 1..Count - 1
  PROVE  Spec => []WarnsBeforeLapse
<1> USE ConstantNumbers
<1>0. Count - LowCover \in Nat /\ (Count - LowCover) * Period \in Nat
      /\ (Count - LowCover) * Period >= 1
  <2>1. Count - LowCover \in Nat /\ Count - LowCover >= 1
    OBVIOUS
  <2>2. (Count - LowCover) * Period \in Nat /\ Count - LowCover <= (Count - LowCover) * Period
    BY <2>1, PeriodIsLong
  <2>3. QED
    BY <2>1, <2>2
<1>1. Init => Warning
  BY <1>0 DEF Init, Warning, FirstBatch, Pending
<1>2. CoverInv /\ Warning /\ TypeOK' /\ [Next]_vars => Warning'
  <2> SUFFICES ASSUME CoverInv, Warning, TypeOK', [Next]_vars PROVE Warning'
    OBVIOUS
  <2> USE StateNumbers
  <2>0. PICK c \in Nat : c = (Count - LowCover) * Period /\ c >= 1
    BY <1>0
  <2>1. TypeOK /\ NumbersSound /\ RunSound
    BY DEF CoverInv
  <2>2. ~warned => now + 1 <= batch.t0 + c + lmiss + Pending(lran)
    BY <2>0 DEF Warning
  <2>3. SUFFICES ASSUME ~warned'
                 PROVE  now' + 1 <= batch'.t0 + c + lmiss' + Pending(lran')
    BY <2>0 DEF Warning
  <2>4. CASE GenerateCrl \/ RevokeCert
    <3>1. PICK n \in 0..1 : Sign(n)
      BY <2>4 DEF GenerateCrl, RevokeCert
    <3>2. /\ batch'.t0 = now \/ UNCHANGED <<batch, warned>>
          /\ UNCHANGED <<now, lmiss, lran>>
      BY <3>1 DEF Sign, lambda
    <3>3. QED
      BY <2>1, <2>0, <2>2, <2>3, <3>2
  <2>5. CASE LambdaRelease
    <3>1. /\ lpc = "batch" /\ clock = now /\ lran' = TRUE /\ lmiss' = 0
          /\ ~(Count - Cardinality(Due(gotBatch, now)) < LowCover)
          /\ UNCHANGED <<now, batch>>
      BY <2>1, <2>3, <2>5 DEF LambdaRelease, RunSound
    <3>2. now + 1 <= batch.t0 + c
      <4>1. CASE batch.t0 < now
        <5>1. gotBatch = batch /\ batch \in CrlBatch /\ batch.t0 <= now
          BY <2>1, <2>0, <3>1, <4>1 DEF RunSound, TypeOK, NumbersSound
        <5>2. QED
          BY <2>0, <2>1, <3>1, <5>1, CoverLeft
      <4>2. CASE ~(batch.t0 < now)
        BY <2>0, <2>1, <4>2 DEF NumbersSound
      <4>3. QED
        BY <4>1, <4>2
    <3>3. QED
      BY <3>1, <3>2, <2>0, <2>1 DEF Pending
  <2>6. CASE LambdaFails
    BY <2>1, <2>0, <2>2, <2>3, <2>6 DEF LambdaFails, Pending
  <2>7. CASE Tick
    BY <2>1, <2>0, <2>2, <2>3, <2>7 DEF Tick, Pending
  <2>8. CASE UploadCrl \/ LambdaGetCrl \/ LambdaGetBatch
    BY <2>2, <2>3, <2>8 DEF UploadCrl, LambdaGetCrl, LambdaGetBatch, lambda
  <2>9. CASE Fetch \/ FetchFails \/ UNCHANGED vars
    BY <2>2, <2>3, <2>9 DEF Fetch, FetchFails, vars, lambda
  <2>10. QED
    BY <2>4, <2>5, <2>6, <2>7, <2>8, <2>9 DEF Next
<1>3. CoverInv /\ Warning => WarnsBeforeLapse
  <2> SUFFICES ASSUME CoverInv, Warning,
                      now > SignedUntil(batch) - Window - Period * (LowCover - 1) + LambdaMiss
               PROVE  warned
    BY DEF WarnsBeforeLapse
  <2> USE StateNumbers
  <2>1. TypeOK /\ batch \in CrlBatch
    BY DEF CoverInv, TypeOK
  <2>2. SignedUntil(batch) = batch.t0 + (Count - 1) * Period + Window
    BY <2>1, SignedUntilIs
  <2>3. (Count - 1) * Period = (Count - LowCover) * Period + (LowCover - 1) * Period
        /\ Period * (LowCover - 1) = (LowCover - 1) * Period /\ (LowCover - 1) * Period \in Nat
    OBVIOUS
  <2>4. now > batch.t0 + (Count - LowCover) * Period + LambdaMiss
    BY <1>0, <2>1, <2>2, <2>3
  <2>5. QED
    BY <1>0, <2>1, <2>4 DEF Warning
<1>4. Spec => []TypeOK /\ []CoverInv
  BY TypeCorrect, CoverAlways
<1>5. QED
  BY <1>1, <1>2, <1>3, <1>4, PTL DEF Spec

-----------------------------------------------------------------------------
(* Why nothing is rolled back *)

(***************************************************************************)
(* Numbers follow the revocations listed, even where a signing failed: a   *)
(* CRL that lists more than the current batch has a number above the       *)
(* batch's, and what a server has lists no more than what is published.    *)
(***************************************************************************)
OrderSound ==
    /\ batch.first + Count <= next
    /\ doc.lists = revoked /\ published.lists <= revoked /\ batch.lists <= revoked
    /\ installed.lists <= published.lists
    /\ batch.lists < doc.lists => doc.number >= batch.first + Count
    /\ batch.lists < published.lists => published.number >= batch.first + Count

(***************************************************************************)
(* While the Lambda runs nothing changes what it has read.                 *)
(***************************************************************************)
ReadSound ==
    /\ lpc # "idle" => gotCrl = published
    /\ lpc = "batch" => gotBatch = batch

RollInv == TypeOK /\ OrderSound /\ ReadSound

(***************************************************************************)
(* What is due of a batch is a CRL of it, whatever day a container has.     *)
(***************************************************************************)
LEMMA DueIsOf ==
  ASSUME NEW b \in CrlBatch, NEW t \in Nat, Due(b, t) # {}
  PROVE  IsOf(LatestDue(b, t), b)
<1>1. PICK i \in 0..Count - 1 : BatchCrl(b, i).thisUpdate <= t
  BY DEF Due
<1>2. i \in Nat /\ b.t0 \in Nat /\ i * Period \in Nat
  BY BatchAssumption, PeriodIsLong DEF CrlBatch
<1>3. b.t0 <= t
  BY <1>1, <1>2, BatchCrlIs
<1>4. QED
  BY <1>3, LatestDueLasts

(***************************************************************************)
(* What a release does: a CRL of the batch that is newer than the one      *)
(* published, and lists as much, or nothing.                               *)
(***************************************************************************)
LEMMA ReleaseIsNewer ==
  ASSUME RollInv, LambdaRelease
  PROVE  /\ published'.number >= published.number /\ published'.lists >= published.lists
         /\ published' = published \/ (published'.lists = batch.lists /\ published' \in CRL)
<1>1. /\ TypeOK /\ batch \in CrlBatch /\ clock \in Nat /\ published \in CRL
      /\ gotBatch = batch /\ gotCrl = published
  BY DEF RollInv, ReadSound, LambdaRelease, TypeOK
<1>2. PICK x : x = LatestDue(batch, clock)
  OBVIOUS
<1>3. published' = published
      \/ (published' = x /\ Due(batch, clock) # {} /\ x.number > published.number)
  BY <1>1, <1>2 DEF LambdaRelease
<1>4. CASE published' = published
  BY <1>1, <1>4 DEF CRL
<1>5. CASE published' = x /\ Due(batch, clock) # {} /\ x.number > published.number
  <2>1. IsOf(x, batch)
    BY <1>1, <1>2, <1>5, DueIsOf
  <2>2. x \in CRL /\ x.lists = batch.lists /\ x.number < batch.first + Count
    BY <1>1, <2>1, IsOfIs
  <2>3. ~(batch.lists < published.lists)
    BY <1>1, <1>5, <2>2, ConstantNumbers DEF RollInv, OrderSound, CRL, CrlBatch
  <2>4. QED
    BY <1>1, <1>5, <2>2, <2>3 DEF CRL, CrlBatch
<1>6. QED
  BY <1>3, <1>4, <1>5

(***************************************************************************)
(* The order of numbers and lists holds at the start and every step keeps  *)
(* it.                                                                     *)
(***************************************************************************)
LEMMA OrderAlways ==
  ASSUME ~Race
  PROVE  Spec => []RollInv
<1> USE ConstantNumbers
<1>1. Init /\ TypeOK => RollInv
  <2> SUFFICES ASSUME Init, TypeOK PROVE RollInv
    OBVIOUS
  <2>1. /\ FirstBatch \in CrlBatch /\ FirstBatch.first = 1 /\ FirstBatch.lists = 0
        /\ FirstCrl = BatchCrl(FirstBatch, 0)
    BY DEF FirstBatch, FirstCrl, CrlBatch
  <2>2. FirstCrl.lists = 0
    BY <2>1, BatchCrlIs
  <2>3. QED
    BY <2>1, <2>2 DEF Init, RollInv, OrderSound, ReadSound
<1>2. RollInv /\ TypeOK' /\ [Next]_vars => RollInv'
  <2> SUFFICES ASSUME RollInv, TypeOK', [Next]_vars PROVE OrderSound' /\ ReadSound'
    BY DEF RollInv
  <2>1. /\ TypeOK /\ OrderSound /\ ReadSound
        /\ batch.first \in Nat /\ batch.lists \in Nat /\ next \in Nat /\ revoked \in Nat
        /\ doc.lists \in Nat /\ doc.number \in Nat /\ published.lists \in Nat
        /\ published.number \in Nat /\ installed.lists \in Nat
    BY DEF RollInv, TypeOK, CRL, CrlBatch
  <2>2. CASE GenerateCrl \/ RevokeCert
    <3>1. PICK n \in 0..1 : Sign(n)
      BY <2>2 DEF GenerateCrl, RevokeCert
    <3>2. PICK b : b = [t0 |-> now, first |-> next, lists |-> revoked + n]
      OBVIOUS
    <3>3. /\ lpc = "idle" /\ revoked' = revoked + n /\ doc' = BatchCrl(b, 0)
          /\ next' \in {next, next + Count}
          /\ (batch' = b /\ next' = next + Count) \/ UNCHANGED batch
          /\ UNCHANGED <<published, installed, lpc, gotCrl, gotBatch>>
      BY <3>1, <3>2 DEF Sign, OpcaActs, lambda
    <3>4. b \in CrlBatch /\ b.first = next /\ b.lists = revoked + n
      BY <2>1, <3>2 DEF TypeOK, CrlBatch
    <3>5. doc'.number = next /\ doc'.lists = revoked + n
      <4>1. doc'.number = b.first + 0 /\ doc'.lists = b.lists
        BY <3>3, <3>4, BatchCrlIs
      <4>2. QED
        BY <2>1, <3>4, <4>1
    <3>6. CASE batch' = b /\ next' = next + Count
      BY <2>1, <3>3, <3>4, <3>5, <3>6 DEF OrderSound, ReadSound
    <3>7. CASE UNCHANGED batch
      BY <2>1, <3>3, <3>4, <3>5, <3>7 DEF OrderSound, ReadSound
    <3>8. QED
      BY <3>3, <3>6, <3>7
  <2>3. CASE UploadCrl
    <3>1. /\ lpc = "idle" /\ published' = doc
          /\ UNCHANGED <<next, revoked, batch, doc, installed, lpc, gotCrl, gotBatch>>
      BY <2>3 DEF UploadCrl, OpcaActs, lambda
    <3>2. QED
      BY <2>1, <3>1 DEF OrderSound, ReadSound
  <2>4. CASE LambdaGetCrl \/ LambdaGetBatch
    BY <2>1, <2>4 DEF LambdaGetCrl, LambdaGetBatch, OrderSound, ReadSound
  <2>5. CASE LambdaRelease
    <3>1. /\ published'.lists >= published.lists
          /\ published' = published \/ published'.lists = batch.lists
      BY <2>5, ReleaseIsNewer
    <3>2. lpc' = "idle" /\ UNCHANGED <<next, revoked, batch, doc, installed>>
      BY <2>5 DEF LambdaRelease
    <3>3. QED
      BY <2>1, <3>1, <3>2 DEF OrderSound, ReadSound
  <2>6. CASE LambdaFails
    BY <2>1, <2>6 DEF LambdaFails, OrderSound, ReadSound
  <2>7. CASE Fetch
    <3>1. /\ installed' = published \/ installed' = installed
          /\ UNCHANGED <<next, revoked, batch, doc, published, lpc, gotCrl, gotBatch>>
      BY <2>7 DEF Fetch, lambda
    <3>2. QED
      BY <2>1, <3>1 DEF OrderSound, ReadSound
  <2>8. CASE FetchFails \/ Tick \/ UNCHANGED vars
    BY <2>1, <2>8 DEF FetchFails, Tick, vars, lambda, OrderSound, ReadSound
  <2>9. QED
    BY <2>2, <2>3, <2>4, <2>5, <2>6, <2>7, <2>8 DEF Next
<1>3. Spec => []TypeOK
  BY TypeCorrect
<1>4. QED
  BY <1>1, <1>2, <1>3, PTL DEF Spec

(***************************************************************************)
(* The Lambda never replaces the published CRL by an older one, nor a      *)
(* server the installed one, if opCA does not act during a run: warm       *)
(* containers, late uploads and failed signings are all allowed.           *)
(***************************************************************************)
THEOREM NothingRolledBack ==
  ASSUME ~Race
  PROVE  Spec => NeverRollsBack
<1>1. RollInv /\ [Next]_vars =>
         [/\ LambdaRelease => published'.number >= published.number /\ published'.lists >= published.lists
          /\ installed'.lists >= installed.lists]_vars
  <2> SUFFICES ASSUME RollInv, Next
               PROVE  /\ LambdaRelease => /\ published'.number >= published.number
                                          /\ published'.lists >= published.lists
                      /\ installed'.lists >= installed.lists
    OBVIOUS
  <2>1. LambdaRelease => published'.number >= published.number /\ published'.lists >= published.lists
    BY ReleaseIsNewer
  <2>2. installed.lists \in Nat /\ installed.lists <= published.lists
    BY DEF RollInv, TypeOK, OrderSound, CRL
  <2>3. installed' = installed \/ installed' = published
    BY DEF Next, GenerateCrl, RevokeCert, Sign, UploadCrl, LambdaGetCrl, LambdaGetBatch,
           LambdaRelease, LambdaFails, Fetch, FetchFails, Tick
  <2>4. installed'.lists >= installed.lists
    BY <2>2, <2>3
  <2>5. QED
    BY <2>1, <2>4
<1>2. Spec => []RollInv
  BY OrderAlways
<1>3. QED
  BY <1>1, <1>2, PTL DEF Spec, NeverRollsBack

=============================================================================
