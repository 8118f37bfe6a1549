---------------------------- MODULE RollupsProofs ----------------------------
(* Rollups for every number of samples, pair of resolutions, limit of a     *)
(* pass, set of policies and horizon.                                       *)
EXTENDS Rollups, FiniteSetTheorems, WellFoundedInduction, TLAPS

(* Arithmetic of buckets. *)
Aligned(r, t) == t % r = 0

LEMMA Division ==
    ASSUME NEW r \in Nat \ {0}, NEW t \in Nat
    PROVE  t = r * (t \div r) + (t % r) /\ t % r \in 0..(r - 1) /\ t \div r \in Nat
  OBVIOUS

LEMMA MultipleAligned == ASSUME NEW r \in Nat \ {0}, NEW q \in Nat PROVE Aligned(r, r * q)
  BY DEF Aligned

LEMMA AlignedMultiple ==
    ASSUME NEW r \in Nat \ {0}, NEW t \in Nat, Aligned(r, t) PROVE t = r * (t \div r)
  BY Division DEF Aligned

LEMMA NextMultiple ==
    ASSUME NEW r \in Nat \ {0}, NEW q \in Nat, NEW p \in Nat, r * q < r * p PROVE r * q + r <= r * p
<1>1. q < p
  OBVIOUS
<1>2. p = q + 1 + (p - q - 1) /\ p - q - 1 \in Nat
  BY <1>1
<1>3. \A k \in Nat : r * (q + 1 + k) = r * q + r + r * k /\ r * k \in Nat
  OBVIOUS
<1>. QED
  BY <1>2, <1>3

(* The floor of a time is the start of its bucket. *)
LEMMA FloorStarts ==
    ASSUME NEW r \in Nat \ {0}, NEW t \in Nat
    PROVE  Floor(r, t) \in Nat /\ Floor(r, t) <= t /\ t < Floor(r, t) + r /\ Aligned(r, Floor(r, t))
<1>1. Floor(r, t) = r * (t \div r) /\ t \div r \in Nat
  BY Division DEF Floor
<1>2. Aligned(r, r * (t \div r))
  BY <1>1, MultipleAligned
<1>3. Floor(r, t) \in Nat /\ Floor(r, t) <= t /\ t < Floor(r, t) + r
  BY Division DEF Floor
<1>. QED
  BY <1>1, <1>2, <1>3

LEMMA FloorOfAligned ==
    ASSUME NEW r \in Nat \ {0}, NEW t \in Nat, Aligned(r, t) PROVE Floor(r, t) = t
  BY DEF Floor, Aligned

LEMMA BucketBefore ==
    ASSUME NEW r \in Nat \ {0}, NEW t \in Nat, NEW a \in Nat, Aligned(r, a), t < a
    PROVE  Floor(r, t) + r <= a
<1>1. Floor(r, t) < a /\ Floor(r, t) \in Nat /\ Aligned(r, Floor(r, t))
  BY FloorStarts
<1>2. /\ Floor(r, t) = r * (Floor(r, t) \div r) /\ Floor(r, t) \div r \in Nat
      /\ a = r * (a \div r) /\ a \div r \in Nat
  BY <1>1, AlignedMultiple, Division
<1>. QED
  BY <1>1, <1>2, NextMultiple

LEMMA BucketAfter ==
    ASSUME NEW r \in Nat \ {0}, NEW t \in Nat, NEW a \in Nat, Aligned(r, a), a <= t
    PROVE  a <= Floor(r, t)
<1>1. CASE a <= Floor(r, t)
  BY <1>1
<1>2. CASE Floor(r, t) < a
  <2>1. Floor(r, t) \in Nat /\ Aligned(r, Floor(r, t)) /\ t < Floor(r, t) + r
    BY FloorStarts
  <2>2. Floor(r, Floor(r, t)) + r <= a
    BY <1>2, <2>1, BucketBefore
  <2>3. Floor(r, Floor(r, t)) = Floor(r, t)
    BY <2>1, FloorOfAligned
  <2>. QED
    BY <2>1, <2>2, <2>3
<1>3. Floor(r, t) \in Nat
  BY FloorStarts
<1>. QED
  BY <1>1, <1>2, <1>3

LEMMA AlignedSum ==
    ASSUME NEW r \in Nat \ {0}, NEW a \in Nat, NEW b \in Nat, Aligned(r, a), Aligned(r, b)
    PROVE  Aligned(r, a + b)
<1>1. a = r * (a \div r) /\ b = r * (b \div r) /\ a \div r \in Nat /\ b \div r \in Nat
  BY AlignedMultiple, Division
<1>2. a + b = r * ((a \div r) + (b \div r))
  BY <1>1
<1>. QED
  BY <1>1, <1>2, MultipleAligned

-----------------------------------------------------------------------------
(* The invariant. *)
CursorsAligned == \A r \in Resolutions : cursor[r] # NoCursor => Aligned(r, cursor[r])

DeletedBehind ==
    \A s \in Samples : sample[s].state = "deleted" =>
        /\ sample[s].ts < expired.raw
        /\ \A r \in Resolutions : sample[s].ts < cursor[r]

(* What is counted is behind the cursor, and a timely sample behind the     *)
(* cursor is counted.                                                       *)
CountedBehind ==
    \A s \in Samples, r \in Resolutions :
        /\ counted[s][r] \in {0, 1}
        /\ counted[s][r] = 1 => s \in Stored /\ sample[s].ts < cursor[r]
        /\ s \in Stored /\ sample[s].timely /\ sample[s].ts < cursor[r] => counted[s][r] = 1

(* A counted sample is in the row of its bucket, or that row has expired.   *)
RowOf(s, r) == \E x \in rollup : x.resolution = r /\ s \in x.samples

Cutoff(r) == IF r = Fine THEN expired.fine ELSE expired.coarse

CountedKept ==
    \A s \in Samples, r \in Resolutions :
        counted[s][r] = 1 => RowOf(s, r) \/ Floor(r, sample[s].ts) < Cutoff(r)

BucketsClosed == \A x \in rollup : x.ts + x.resolution <= cursor[x.resolution]

RowsInBucket ==
    \A x \in rollup : \A s \in x.samples :
        s \in Stored /\ Floor(x.resolution, sample[s].ts) = x.ts

IInv ==
    /\ TypeOK
    /\ CursorsAligned
    /\ DeletedBehind
    /\ CountedBehind
    /\ CountedKept
    /\ RowsInBucket
    /\ BucketsClosed

-----------------------------------------------------------------------------
LEMMA ResolutionTypes == \A r \in Resolutions : r \in Nat \ {0} /\ Aligned(r, PassLimit)
  BY ResolutionsAssumption DEF Resolutions, Aligned

LEMMA EarliestIsRaw ==
    ASSUME TypeOK, Raw # {}
    PROVE  Earliest \in Times /\ \A s \in Raw : Earliest <= sample[s].ts
<1>. DEFINE T == {sample[s].ts : s \in Raw}
<1>1. T \subseteq Times /\ Times \subseteq Nat /\ T # {}
  <2>1. \A s \in Raw : sample[s].ts \in Times
    BY DEF Raw, TypeOK, SampleRow
  <2>. QED
    BY <2>1 DEF Times
<1>2. PICK t \in T : \A u \in T : <<u, t>> \notin OpToRel(<, Nat)
  BY <1>1, NatLessThanWellFounded, WFMin
<1>3. ASSUME NEW u \in T PROVE t <= u
  <2>1. u \in Nat /\ t \in Nat /\ <<u, t>> \in Nat \X Nat
    BY <1>1
  <2>2. u < t => <<u, t>> \in OpToRel(<, Nat)
    BY <2>1 DEF OpToRel
  <2>3. <<u, t>> \notin OpToRel(<, Nat)
    BY <1>2
  <2>4. ~(u < t)
    BY <2>2, <2>3
  <2>5. u \in Int /\ t \in Int
    BY <2>1
  <2>. HIDE DEF T
  <2>. QED
    BY <2>4, <2>5
<1>4. Earliest \in T /\ \A s \in Raw : Earliest <= sample[s].ts
  BY <1>3 DEF Earliest
<1>. QED
  BY <1>1, <1>4

(* What a pass summarises. *)
LEMMA Interval ==
    ASSUME TypeOK, CursorsAligned, NEW r \in Resolutions, Raw # {}, Start(r) < Stop(r)
    PROVE  /\ Start(r) \in Nat /\ Aligned(r, Start(r))
           /\ Stop(r) \in Times /\ Aligned(r, Stop(r))
           /\ cursor[r] # NoCursor => Start(r) = cursor[r]
           /\ cursor[r] = NoCursor => \A s \in Raw : Start(r) <= sample[s].ts
           /\ cursor[r] <= Start(r)
<1>. USE ResolutionTypes, HorizonAssumption
<1>1. /\ Start(r) \in Nat /\ Aligned(r, Start(r))
      /\ cursor[r] # NoCursor => Start(r) = cursor[r]
      /\ cursor[r] = NoCursor => \A s \in Raw : Start(r) <= sample[s].ts
  <2>1. CASE cursor[r] = NoCursor
    <3>1. Start(r) = Floor(r, Earliest) /\ Earliest \in Nat
      BY <2>1, EarliestIsRaw DEF Start, Times
    <3>2. \A s \in Raw : sample[s].ts \in Nat
      BY DEF Raw, TypeOK, SampleRow, Times
    <3>. QED
      BY <2>1, <3>1, <3>2, EarliestIsRaw, FloorStarts
  <2>2. CASE cursor[r] # NoCursor
    <3>1. Start(r) = Floor(r, cursor[r]) /\ cursor[r] \in Nat /\ Aligned(r, cursor[r])
      BY <2>2 DEF Start, TypeOK, Times, CursorsAligned
    <3>. QED
      BY <2>2, <3>1, FloorOfAligned
  <2>. QED
    BY <2>1, <2>2
<1>2. Limit(r) \in Nat /\ Aligned(r, Limit(r))
  BY ResolutionsAssumption DEF Limit, Later, Aligned
<1>3. Start(r) + Limit(r) \in Nat /\ Aligned(r, Start(r) + Limit(r))
  BY <1>1, <1>2, AlignedSum
<1>4. began \in Nat /\ began <= Horizon
  BY DEF TypeOK, Times
<1>5. Floor(r, began) \in Nat /\ Floor(r, began) <= Horizon /\ Aligned(r, Floor(r, began))
  BY <1>4, FloorStarts
<1>6. Stop(r) \in Times /\ Aligned(r, Stop(r))
  BY <1>3, <1>5 DEF Stop, Earlier, Times
<1>7. cursor[r] <= Start(r)
  BY <1>1 DEF NoCursor
<1>. QED
  BY <1>1, <1>6, <1>7

-----------------------------------------------------------------------------
(* Types. *)
LEMMA TypeInit == Init => TypeOK
  BY HorizonAssumption DEF Init, TypeOK, NoSample, SampleRow, Times, NoCursor

LEMMA SummarizeType ==
    ASSUME TypeOK, CursorsAligned, NEW r \in Resolutions, Raw # {}, Start(r) < Stop(r)
    PROVE  Summaries(r) \subseteq RollupRow /\ Stop(r) \in Times
<1>1. ASSUME NEW s \in Selected(r) PROVE Floor(r, sample[s].ts) \in Times
  <2>1. sample[s].ts \in Nat /\ sample[s].ts <= Horizon
    BY HorizonAssumption DEF Selected, Raw, TypeOK, SampleRow, Times
  <2>. QED
    BY <2>1, HorizonAssumption, FloorStarts, ResolutionTypes DEF Times
<1>2. \A t : Bucket(r, t) \subseteq Samples
  BY DEF Bucket, Selected, Raw
<1>. QED
  BY <1>1, <1>2, Interval DEF Summaries, RollupRow

LEMMA TypeStep == TypeOK /\ CursorsAligned /\ [Next]_vars => TypeOK'
<1>. SUFFICES ASSUME TypeOK, CursorsAligned, [Next]_vars PROVE TypeOK'
  OBVIOUS
<1>. USE DEF store, pass, history
<1>1. CASE UNCHANGED vars
  BY <1>1 DEF vars, TypeOK
<1>2. ASSUME NEW s \in Samples, Take(s) \/ Store(s) \/ RollBack(s) PROVE TypeOK'
  <2>1. sample' \in [Samples -> SampleRow]
    <3>1. NoSample \in SampleRow
      BY HorizonAssumption DEF NoSample, SampleRow, Times
    <3>2. Ahead(sample[s].ts) \in BOOLEAN
      BY DEF Ahead
    <3>3. CASE Take(s)
      BY <3>3 DEF Take, TypeOK, SampleRow
    <3>4. CASE Store(s)
      <4>1. sample' = [sample EXCEPT ![s] =
              [state |-> "raw", ts |-> sample[s].ts, timely |-> Ahead(sample[s].ts)]]
        BY <3>4 DEF Store
      <4>. QED
        BY <3>2, <4>1 DEF TypeOK, SampleRow
    <3>5. CASE RollBack(s)
      BY <3>1, <3>5 DEF RollBack, TypeOK
    <3>. QED
      BY <1>2, <3>3, <3>4, <3>5
  <2>. QED
    BY <1>2, <2>1 DEF Take, Store, RollBack, TypeOK
<1>3. ASSUME NEW s \in Samples, NEW t \in Times, Import(s, t) PROVE TypeOK'
  BY <1>3 DEF Import, TypeOK, SampleRow
<1>4. CASE BeginPass
  BY <1>4 DEF BeginPass, TypeOK
<1>5. ASSUME NEW r \in Resolutions, NEW this, NEW next \in {"coarse", "retain"},
             Summarize(r, this, next)
      PROVE TypeOK'
  <2>1. CASE UNCHANGED <<rollup, cursor, counted>>
    BY <1>5, <2>1 DEF Summarize, TypeOK
  <2>2. CASE Raw # {} /\ Start(r) < Stop(r)
    <3>1. rollup' \subseteq RollupRow /\ cursor' \in [Resolutions -> Times \cup {NoCursor}]
      BY <1>5, <2>2, SummarizeType DEF Summarize, TypeOK
    <3>2. counted' \in [Samples -> [Resolutions -> 0..2]]
      BY <1>5, <2>2 DEF Summarize, TypeOK, Earlier
    <3>. QED
      BY <1>5, <3>1, <3>2 DEF Summarize, TypeOK
  <2>. QED
    BY <1>5, <2>1, <2>2 DEF Summarize
<1>6. CASE Retain
  <2>1. sample' \in [Samples -> SampleRow]
    BY <1>6 DEF Retain, TypeOK, SampleRow
  <2>2. expired' \in [raw : Nat, fine : Nat, coarse : Nat]
    BY <1>6, PoliciesAssumption DEF Retain, TypeOK, Later, Times, PolicyType
  <2>. QED
    BY <1>6, <2>1, <2>2, HorizonAssumption DEF Retain, TypeOK, Times
<1>7. CASE Abort
  BY <1>7, HorizonAssumption DEF Abort, TypeOK, Times
<1>8. ASSUME NEW p \in Policies, SetPolicy(p) PROVE TypeOK'
  BY <1>8 DEF SetPolicy, TypeOK
<1>9. CASE Advance
  BY <1>9, HorizonAssumption DEF Advance, TypeOK, Times
<1>. QED
  BY <1>1, <1>2, <1>3, <1>4, <1>5, <1>6, <1>7, <1>8, <1>9 DEF Next, Maintain, Resolutions

-----------------------------------------------------------------------------
(* The invariant holds initially. *)
LEMMA InvInit == Init => IInv
<1>. SUFFICES ASSUME Init PROVE IInv
  OBVIOUS
<1>1. \A s \in Samples : sample[s].state = "none" /\ \A r \in Resolutions : counted[s][r] = 0
  BY DEF Init, NoSample
<1>2. Stored = {}
  BY <1>1 DEF Stored
<1>. QED
  BY <1>1, <1>2, TypeInit
  DEF Init, IInv, CursorsAligned, DeletedBehind, CountedBehind, CountedKept, RowsInBucket, BucketsClosed

(* A sample that was not stored changes: what is counted and rolled up is   *)
(* about others.                                                            *)
LEMMA SampleStep ==
    ASSUME IInv, TypeOK', NEW s \in Samples, s \notin Stored,
           UNCHANGED <<cursor, rollup, counted, expired>>,
           sample' = [sample EXCEPT ![s] = sample'[s]],
           sample'[s].state # "deleted",
           sample'[s].state = "raw" /\ sample'[s].timely => Ahead(sample'[s].ts)
    PROVE  IInv'
<1>1. \A q \in Samples \ {s} : sample'[q] = sample[q] /\ (q \in Stored <=> q \in Stored')
  BY DEF IInv, TypeOK, Stored
<1>2. CursorsAligned'
  BY DEF IInv, CursorsAligned
<1>3. DeletedBehind'
  BY <1>1 DEF IInv, DeletedBehind
<1>4. \A r \in Resolutions : counted[s][r] = 0
  BY DEF IInv, CountedBehind
<1>5. CountedBehind'
  <2>1. ASSUME NEW r \in Resolutions, s \in Stored', sample'[s].timely PROVE ~(sample'[s].ts < cursor[r])
    <3>1. sample'[s].state = "raw" /\ sample'[s].ts \in Nat
      BY <2>1 DEF Stored, TypeOK, SampleRow, Times
    <3>2. cursor[r] = NoCursor \/ cursor[r] <= sample'[s].ts
      BY <2>1, <3>1 DEF Ahead
    <3>3. cursor[r] \in Int
      BY DEF IInv, TypeOK, Times, NoCursor
    <3>. QED
      BY <3>1, <3>2, <3>3 DEF NoCursor
  <2>. QED
    BY <1>1, <1>4, <2>1 DEF IInv, CountedBehind
<1>6. CountedKept'
  BY <1>1, <1>4 DEF IInv, CountedKept, RowOf, Cutoff
<1>7. \A x \in rollup : s \notin x.samples /\ x.samples \subseteq Samples
  BY DEF IInv, RowsInBucket, TypeOK, RollupRow
<1>8. RowsInBucket'
  BY <1>1, <1>7 DEF IInv, RowsInBucket
<1>9. BucketsClosed'
  BY DEF IInv, BucketsClosed
<1>. QED
  BY <1>2, <1>3, <1>5, <1>6, <1>8, <1>9 DEF IInv

(* A summary is made of buckets between the cursor and its next value.      *)
LEMMA SummarizeStep ==
    ASSUME IInv, TypeOK', NEW r \in Resolutions, NEW this, NEW next, Summarize(r, this, next)
    PROVE  IInv'
<1>1. CASE UNCHANGED <<rollup, cursor, counted>>
  BY <1>1 DEF Summarize, IInv, CursorsAligned, DeletedBehind, CountedBehind, CountedKept, RowsInBucket,
              BucketsClosed, RowOf, Cutoff, Stored
<1>2. CASE Raw # {} /\ Start(r) < Stop(r)
  <2>1. /\ Start(r) \in Nat /\ Stop(r) \in Nat /\ Aligned(r, Stop(r)) /\ Aligned(r, Start(r))
        /\ cursor[r] # NoCursor => Start(r) = cursor[r]
        /\ cursor[r] = NoCursor => \A s \in Raw : Start(r) <= sample[s].ts
        /\ cursor[r] <= Start(r) /\ Start(r) < Stop(r)
    BY <1>2, Interval DEF IInv, Times
  <2>2. /\ UNCHANGED <<sample, expired>>
        /\ rollup' = rollup \cup Summaries(r)
        /\ cursor' = [cursor EXCEPT ![r] = Stop(r)]
        /\ counted' = [s \in Samples |->
             IF s \in Selected(r) THEN [counted[s] EXCEPT ![r] = Earlier(@ + 1, 2)] ELSE counted[s]]
    BY <1>2 DEF Summarize
  <2>3. /\ cursor'[r] = Stop(r) /\ cursor[r] \in Int /\ cursor[r] < cursor'[r]
        /\ \A q \in Resolutions : cursor[q] \in Int /\ cursor'[q] \in Int
                                  /\ cursor[q] <= cursor'[q] /\ (q # r => cursor'[q] = cursor[q])
    BY <2>1, <2>2 DEF IInv, TypeOK, Times, NoCursor
  <2>4. \A s \in Samples : sample[s].ts \in Nat
    BY DEF IInv, TypeOK, SampleRow, Times
  <2>5. CursorsAligned'
    BY <2>1, <2>3 DEF IInv, CursorsAligned
  <2>6. DeletedBehind'
    BY <2>2, <2>3, <2>4 DEF IInv, DeletedBehind
  <2>7. ASSUME NEW s \in Selected(r)
        PROVE  /\ s \in Raw /\ s \in Stored /\ s \in Samples
               /\ Start(r) <= sample[s].ts /\ sample[s].ts < Stop(r) /\ counted[s][r] = 0
    <3>1. s \in Raw /\ s \in Stored /\ s \in Samples /\ Start(r) <= sample[s].ts /\ sample[s].ts < Stop(r)
      BY DEF Selected, Raw, Stored
    <3>2. ~(sample[s].ts < cursor[r])
      BY <2>1, <2>3, <2>4, <3>1
    <3>. QED
      BY <3>1, <3>2 DEF IInv, CountedBehind
  <2>8. ASSUME NEW s \in Samples, NEW q \in Resolutions
        PROVE  /\ s \in Selected(r) /\ q = r => counted'[s][q] = 1
               /\ ~(s \in Selected(r) /\ q = r) => counted'[s][q] = counted[s][q]
    <3>1. counted[s] \in [Resolutions -> 0..2]
      BY DEF IInv, TypeOK
    <3>2. CASE s \in Selected(r)
      <4>1. counted'[s] = [counted[s] EXCEPT ![r] = Earlier(counted[s][r] + 1, 2)]
        BY <2>2, <3>2
      <4>2. Earlier(counted[s][r] + 1, 2) = 1
        BY <2>7, <3>2 DEF Earlier
      <4>3. counted'[s] = [counted[s] EXCEPT ![r] = 1]
        BY <4>1, <4>2
      <4>. QED
        BY <3>1, <3>2, <4>3
    <3>3. CASE s \notin Selected(r)
      BY <2>2, <3>3
    <3>. QED
      BY <3>2, <3>3
  <2>9. CountedBehind'
    <3>. SUFFICES ASSUME NEW s \in Samples, NEW q \in Resolutions
         PROVE /\ counted'[s][q] \in {0, 1}
               /\ counted'[s][q] = 1 => s \in Stored /\ sample[s].ts < cursor'[q]
               /\ s \in Stored /\ sample[s].timely /\ sample[s].ts < cursor'[q] => counted'[s][q] = 1
      BY <2>2 DEF CountedBehind, Stored
    <3>1. CASE s \in Selected(r) /\ q = r
      BY <2>3, <2>7, <2>8, <3>1
    <3>2. CASE ~(s \in Selected(r) /\ q = r)
      <4>1. counted'[s][q] = counted[s][q] /\ counted[s][q] \in {0, 1}
        BY <2>8, <3>2 DEF IInv, CountedBehind
      <4>2. counted[s][q] = 1 => s \in Stored /\ sample[s].ts < cursor'[q]
        BY <2>3, <2>4 DEF IInv, CountedBehind
      <4>3. ASSUME s \in Stored, sample[s].timely, sample[s].ts < cursor'[q] PROVE sample[s].ts < cursor[q]
        <5>1. CASE q # r
          BY <2>3, <4>3, <5>1
        <5>2. CASE q = r /\ s \in Raw
          <6>1. ~(Start(r) <= sample[s].ts)
            BY <2>3, <3>2, <4>3, <5>2 DEF Selected
          <6>. QED
            BY <2>1, <2>4, <5>2, <6>1
        <5>3. CASE s \notin Raw
          <6>1. sample[s].state = "deleted"
            BY <4>3, <5>3 DEF Stored, Raw
          <6>. QED
            BY <6>1 DEF IInv, DeletedBehind
        <5>. QED
          BY <5>1, <5>2, <5>3
      <4>. QED
        BY <4>1, <4>2, <4>3 DEF IInv, CountedBehind
    <3>. QED
      BY <3>1, <3>2
  <2>10. CountedKept'
    <3>. SUFFICES ASSUME NEW s \in Samples, NEW q \in Resolutions, counted'[s][q] = 1
         PROVE RowOf(s, q)' \/ Floor(q, sample[s].ts) < Cutoff(q)
      BY <2>2 DEF CountedKept, Cutoff
    <3>1. CASE s \in Selected(r) /\ q = r
      <4>. DEFINE t == Floor(r, sample[s].ts)
                  x == [resolution |-> r, ts |-> t, samples |-> Bucket(r, t)]
      <4>1. s \in Bucket(r, t) /\ x \in Summaries(r)
        BY <3>1 DEF Bucket, Summaries
      <4>2. x \in rollup' /\ x.resolution = q /\ s \in x.samples
        BY <2>2, <3>1, <4>1
      <4>. QED
        BY <4>2 DEF RowOf
    <3>2. CASE ~(s \in Selected(r) /\ q = r)
      BY <2>2, <2>8, <3>2 DEF IInv, CountedKept, RowOf
    <3>. QED
      BY <3>1, <3>2
  <2>11. ASSUME NEW x \in Summaries(r)
         PROVE  /\ x.resolution = r /\ x.ts + r <= Stop(r)
                /\ \A s \in x.samples : s \in Stored /\ Floor(r, sample[s].ts) = x.ts
    <3>1. PICK s \in Selected(r) :
            x = [resolution |-> r, ts |-> Floor(r, sample[s].ts), samples |-> Bucket(r, Floor(r, sample[s].ts))]
      BY DEF Summaries
    <3>2. Floor(r, sample[s].ts) + r <= Stop(r)
      BY <2>1, <2>4, <2>7, <3>1, BucketBefore, ResolutionTypes
    <3>. QED
      BY <2>7, <3>1, <3>2 DEF Bucket
  <2>12. RowsInBucket'
    BY <2>2, <2>11 DEF IInv, RowsInBucket, Stored
  <2>13. BucketsClosed'
    <3>1. ASSUME NEW x \in rollup PROVE x.ts + x.resolution <= cursor'[x.resolution]
      <4>1. x.resolution \in Resolutions /\ x.ts + x.resolution <= cursor[x.resolution]
        BY DEF IInv, TypeOK, RollupRow, BucketsClosed
      <4>2. x.ts \in Nat /\ x.resolution \in Nat
        BY <4>1, ResolutionTypes DEF IInv, TypeOK, RollupRow, Times
      <4>. QED
        BY <2>3, <4>1, <4>2
    <3>. QED
      BY <2>2, <2>3, <2>11, <3>1 DEF BucketsClosed
  <2>. QED
    BY <2>5, <2>6, <2>9, <2>10, <2>12, <2>13 DEF IInv
<1>. QED
  BY <1>1, <1>2 DEF Summarize

(* Retention removes raw samples behind both cursors, rows behind their     *)
(* cutoff, and remembers the cutoffs.                                       *)
LEMMA RetainStep == ASSUME IInv, TypeOK', Retain PROVE IInv'
<1>1. /\ UNCHANGED <<cursor, counted, policy>>
      /\ sample' = [s \in Samples |->
           IF s \in Raw /\ sample[s].ts < RawCutoff
           THEN [sample[s] EXCEPT !.state = "deleted"] ELSE sample[s]]
      /\ rollup' = {x \in rollup : x.ts >= began - Age(x.resolution)}
      /\ expired'.raw = Later(expired.raw, began - policy.raw)
      /\ expired'.fine = Later(expired.fine, began - policy.fine)
      /\ expired'.coarse = Later(expired.coarse, began - policy.coarse)
  BY DEF Retain
<1>2. /\ began \in Int /\ policy.raw \in Int /\ policy.fine \in Int /\ policy.coarse \in Int
      /\ expired.raw \in Int /\ expired.fine \in Int /\ expired.coarse \in Int
      /\ \A r \in Resolutions : cursor[r] \in Int /\ r \in Nat
      /\ \A s \in Samples : sample[s].ts \in Nat
  <2>1. policy \in PolicyType
    BY PoliciesAssumption DEF IInv, TypeOK
  <2>. QED
    BY <2>1, ResolutionTypes DEF IInv, TypeOK, PolicyType, SampleRow, Times, NoCursor
<1>3. ASSUME NEW s \in Samples
      PROVE  /\ sample'[s].ts = sample[s].ts /\ sample'[s].timely = sample[s].timely
             /\ s \in Stored' <=> s \in Stored
             /\ sample'[s].state = "deleted" =>
                  sample[s].state = "deleted" \/ (s \in Raw /\ sample[s].ts < RawCutoff)
  BY <1>1 DEF IInv, TypeOK, SampleRow, Stored, Raw
<1>4. CursorsAligned' /\ BucketsClosed'
  BY <1>1 DEF IInv, CursorsAligned, BucketsClosed
<1>5. ASSUME NEW s \in Samples, sample[s].ts < RawCutoff
      PROVE  sample[s].ts < began - policy.raw /\ \A r \in Resolutions : sample[s].ts < cursor[r]
  <2>1. NoCursor \notin {cursor[r] : r \in Resolutions}
    BY <1>2, <1>5 DEF RawCutoff, Safe, Earlier
  <2>2. Safe = Earlier(cursor[Fine], cursor[Coarse])
    BY <2>1 DEF Safe
  <2>. QED
    BY <1>2, <1>5, <2>2 DEF RawCutoff, Earlier, Resolutions
<1>6. DeletedBehind'
  <2>. SUFFICES ASSUME NEW s \in Samples, sample'[s].state = "deleted"
       PROVE sample'[s].ts < expired'.raw /\ \A r \in Resolutions : sample'[s].ts < cursor[r]
    BY <1>1 DEF DeletedBehind
  <2>1. CASE sample[s].state = "deleted"
    BY <1>1, <1>2, <1>3, <2>1 DEF IInv, DeletedBehind, Later
  <2>2. CASE sample[s].ts < RawCutoff
    BY <1>1, <1>2, <1>3, <1>5, <2>2 DEF Later
  <2>. QED
    BY <1>3, <2>1, <2>2
<1>7. CountedBehind'
  BY <1>1, <1>3 DEF IInv, CountedBehind
<1>8. CountedKept'
  <2>. SUFFICES ASSUME NEW s \in Samples, NEW r \in Resolutions, counted[s][r] = 1
       PROVE RowOf(s, r)' \/ Floor(r, sample[s].ts) < Cutoff(r)'
    BY <1>1, <1>3 DEF CountedKept
  <2>0. /\ Cutoff(r)' = Later(Cutoff(r), began - Age(r))
        /\ Cutoff(r) \in Int /\ Age(r) \in Int /\ Floor(r, sample[s].ts) \in Int
    BY <1>1, <1>2, ResolutionTypes, FloorStarts DEF Cutoff, Age
  <2>1. CASE Floor(r, sample[s].ts) < Cutoff(r)
    BY <1>2, <2>0, <2>1 DEF Later
  <2>2. CASE RowOf(s, r)
    <3>1. PICK x \in rollup : x.resolution = r /\ s \in x.samples
      BY <2>2 DEF RowOf
    <3>2. x.ts = Floor(r, sample[s].ts)
      BY <3>1 DEF IInv, RowsInBucket
    <3>3. CASE x.ts >= began - Age(r)
      BY <1>1, <3>1, <3>3 DEF RowOf
    <3>4. CASE ~(x.ts >= began - Age(r))
      BY <1>2, <2>0, <3>2, <3>4 DEF Later
    <3>. QED
      BY <3>3, <3>4
  <2>. QED
    BY <2>1, <2>2 DEF IInv, CountedKept
<1>9. RowsInBucket'
  <2>1. \A x \in rollup : x.samples \subseteq Samples
    BY DEF IInv, TypeOK, RollupRow
  <2>. QED
    BY <1>1, <1>3, <2>1 DEF IInv, RowsInBucket
<1>. QED
  BY <1>4, <1>6, <1>7, <1>8, <1>9 DEF IInv

LEMMA InvStep == IInv /\ [Next]_vars => IInv'
<1>. SUFFICES ASSUME IInv, [Next]_vars PROVE IInv'
  OBVIOUS
<1>0. TypeOK'
  BY TypeStep DEF IInv
<1>1. CASE UNCHANGED <<store, history>>
  BY <1>0, <1>1 DEF store, history, IInv, CursorsAligned, DeletedBehind, CountedBehind, CountedKept,
                    RowsInBucket, BucketsClosed, RowOf, Cutoff, Stored
<1>2. ASSUME NEW s \in Samples, Take(s) \/ Store(s) \/ RollBack(s) PROVE IInv'
  <2>1. s \notin Stored /\ UNCHANGED <<cursor, rollup, counted, expired>>
    BY <1>2 DEF Take, Store, RollBack, Stored, history
  <2>2. sample' = [sample EXCEPT ![s] = sample'[s]]
    BY <1>2 DEF Take, Store, RollBack, IInv, TypeOK
  <2>3. sample'[s].state # "deleted"
    BY <1>2 DEF Take, Store, RollBack, IInv, TypeOK, NoSample
  <2>4. sample'[s].state = "raw" /\ sample'[s].timely => Ahead(sample'[s].ts)
    <3>1. CASE Store(s)
      <4>1. sample'[s] = [state |-> "raw", ts |-> sample[s].ts, timely |-> Ahead(sample[s].ts)]
        BY <3>1 DEF Store, IInv, TypeOK
      <4>. QED
        BY <4>1
    <3>2. CASE Take(s) \/ RollBack(s)
      BY <3>2 DEF Take, RollBack, IInv, TypeOK, NoSample
    <3>. QED
      BY <1>2, <3>1, <3>2
  <2>. QED
    BY <1>0, <2>1, <2>2, <2>3, <2>4, SampleStep
<1>3. ASSUME NEW s \in Samples, NEW t \in Times, Import(s, t) PROVE IInv'
  <2>1. s \notin Stored /\ UNCHANGED <<cursor, rollup, counted, expired>>
    BY <1>3 DEF Import, Stored, history
  <2>2. /\ sample' = [sample EXCEPT ![s] = sample'[s]]
        /\ sample'[s].state # "deleted"
        /\ Ahead(sample'[s].ts)
    BY <1>3 DEF Import, IInv, TypeOK, Ahead
  <2>. QED
    BY <1>0, <2>1, <2>2, SampleStep
<1>4. CASE BeginPass \/ Abort \/ Advance \/ (\E p \in Policies : SetPolicy(p)) \/ UNCHANGED vars
  BY <1>1, <1>4 DEF BeginPass, Abort, Advance, SetPolicy, vars
<1>5. CASE Summarize(Fine, "fine", "coarse") \/ Summarize(Coarse, "coarse", "retain")
  BY <1>0, <1>5, SummarizeStep DEF Resolutions
<1>6. CASE Retain
  BY <1>0, <1>6, RetainStep
<1>. QED
  BY <1>2, <1>3, <1>4, <1>5, <1>6 DEF Next, Maintain

LEMMA InvAlways == Spec => []IInv
  BY InvInit, InvStep, PTL DEF Spec

-----------------------------------------------------------------------------
(* Every variable stays in its type. *)
THEOREM TypeCorrect == Spec => []TypeOK
<1>1. IInv => TypeOK
  BY DEF IInv
<1>. QED
  BY <1>1, InvAlways, PTL

(* No sample is counted twice, and a timely one is counted in both          *)
(* resolutions before it is deleted.                                        *)
THEOREM SamplesCountedOnce == Spec => []CountedOnce
<1>1. IInv => CountedOnce
  <2>. SUFFICES ASSUME IInv, NEW s \in Samples, NEW r \in Resolutions
       PROVE  /\ counted[s][r] <= 1
              /\ sample[s].state = "deleted" /\ sample[s].timely => counted[s][r] = 1
    BY DEF CountedOnce
  <2>1. sample[s].state = "deleted" => s \in Stored /\ sample[s].ts < cursor[r]
    BY DEF IInv, DeletedBehind, Stored
  <2>. QED
    BY <2>1 DEF IInv, CountedBehind
<1>. QED
  BY <1>1, InvAlways, PTL

(* Whatever changes of policy and interruptions there are, a timely sample  *)
(* is kept raw or rolled up until retention has passed it in every form.    *)
THEOREM SamplesKept == Spec => []KeptUnlessExpired
<1>1. IInv => KeptUnlessExpired
  <2>. SUFFICES ASSUME IInv, NEW s \in Samples, s \in Stored, sample[s].timely, ~Kept(s)
       PROVE  /\ sample[s].ts < expired.raw
              /\ Floor(Fine, sample[s].ts) < expired.fine
              /\ Floor(Coarse, sample[s].ts) < expired.coarse
    BY DEF KeptUnlessExpired, Stored
  <2>1. sample[s].state = "deleted"
    BY DEF Kept, Stored, Raw
  <2>2. ASSUME NEW r \in Resolutions PROVE Floor(r, sample[s].ts) < Cutoff(r)
    <3>1. counted[s][r] = 1
      BY <2>1 DEF IInv, DeletedBehind, CountedBehind
    <3>2. ~RowOf(s, r)
      BY DEF Kept, RowOf
    <3>. QED
      BY <3>1, <3>2 DEF IInv, CountedKept
  <2>3. Fine # Coarse
    BY ResolutionsAssumption
  <2>. QED
    BY <2>1, <2>2, <2>3 DEF IInv, DeletedBehind, Cutoff, Resolutions
<1>. QED
  BY <1>1, InvAlways, PTL

(* The unique constraint on rollups never stops maintenance. *)
THEOREM SummariesNeverConflict == Spec => []NeverConflicts
<1>1. IInv => NeverConflicts
  <2>0. \A r : \A x \in Summaries(r) : x.resolution = r
    BY DEF Summaries
  <2>. SUFFICES ASSUME IInv, NEW r \in Resolutions, Raw # {}, Start(r) < Stop(r),
                       NEW x \in Summaries(r)
       PROVE  /\ \A y \in Summaries(r) : x.ts = y.ts => x = y
              /\ \A y \in rollup : ~(y.resolution = r /\ y.ts = x.ts)
    BY <2>0 DEF NeverConflicts, Unique
  <2>1. PICK s \in Selected(r) :
          x = [resolution |-> r, ts |-> Floor(r, sample[s].ts), samples |-> Bucket(r, Floor(r, sample[s].ts))]
    BY DEF Summaries
  <2>2. x.ts >= Start(r) /\ x.ts \in Nat
    <3>1. sample[s].ts \in Nat /\ Start(r) <= sample[s].ts
      BY DEF Selected, Raw, IInv, TypeOK, SampleRow, Times
    <3>. QED
      BY <2>1, <3>1, Interval, BucketAfter, FloorStarts, ResolutionTypes DEF IInv
  <2>3. ASSUME NEW y \in rollup, y.resolution = r PROVE y.ts < x.ts
    <3>1. y.ts + r <= cursor[r] /\ y.ts \in Nat
      BY <2>3 DEF IInv, BucketsClosed, TypeOK, RollupRow, Times
    <3>2. cursor[r] <= Start(r) /\ Start(r) \in Nat /\ cursor[r] \in Int /\ r \in Nat \ {0}
      BY Interval, ResolutionTypes DEF IInv, TypeOK, Times, NoCursor
    <3>. QED
      BY <2>2, <3>1, <3>2
  <2>4. \A y \in Summaries(r) : x.ts = y.ts => x = y
    BY <2>1 DEF Summaries
  <2>. QED
    BY <2>2, <2>3, <2>4
<1>. QED
  BY <1>1, InvAlways, PTL

-----------------------------------------------------------------------------
(* What a query relies on: a bucket has one row, with every raw sample of   *)
(* the bucket that was not late.                                            *)
OneRowPerBucket == \A x, y \in rollup : x.resolution = y.resolution /\ x.ts = y.ts => x = y

RowsComplete ==
    \A x \in rollup : \A s \in Raw :
        sample[s].timely /\ Floor(x.resolution, sample[s].ts) = x.ts => s \in x.samples

RowsInv == OneRowPerBucket /\ RowsComplete

LEMMA RowTypes ==
    ASSUME TypeOK
    PROVE  /\ \A x \in rollup : x.resolution \in Resolutions /\ x.resolution \in Nat \ {0} /\ x.ts \in Nat
           /\ \A s \in Samples : sample[s].ts \in Nat
           /\ \A r \in Resolutions : cursor[r] \in Int
  BY ResolutionTypes DEF TypeOK, RollupRow, SampleRow, Times, NoCursor

(* A sample that arrives on time is in no bucket that has a row.            *)
LEMMA TimelyArrival ==
    ASSUME IInv, NEW s \in Samples, sample'[s].ts \in Nat, Ahead(sample'[s].ts), NEW x \in rollup
    PROVE  Floor(x.resolution, sample'[s].ts) # x.ts
<1>. DEFINE r == x.resolution
            t == sample'[s].ts
<1>1. r \in Resolutions /\ r \in Nat \ {0} /\ x.ts \in Nat /\ cursor[r] \in Int /\ x.ts + r <= cursor[r]
  BY RowTypes DEF IInv, BucketsClosed
<1>2. cursor[r] <= t
  BY <1>1 DEF Ahead, NoCursor
<1>3. t < Floor(r, t) + r
  BY <1>1, FloorStarts
<1>. HIDE DEF r, t
<1>4. Floor(r, t) # x.ts
  BY <1>1, <1>2, <1>3 DEF r, t
<1>. QED
  BY <1>4 DEF r, t

LEMMA RowsSampleStep ==
    ASSUME IInv, RowsInv, TypeOK', NEW s \in Samples, UNCHANGED rollup,
           sample' = [sample EXCEPT ![s] = sample'[s]],
           sample'[s].state = "raw" /\ sample'[s].timely => Ahead(sample'[s].ts)
    PROVE  RowsInv'
<1>1. OneRowPerBucket'
  BY DEF RowsInv, OneRowPerBucket
<1>2. ASSUME NEW x \in rollup, NEW q \in Raw', sample'[q].timely, Floor(x.resolution, sample'[q].ts) = x.ts
      PROVE  q \in x.samples
  <2>1. CASE q = s
    <3>1. sample'[s].ts \in Nat /\ Ahead(sample'[s].ts)
      BY <1>2, <2>1 DEF Raw, TypeOK, SampleRow, Times
    <3>. QED
      BY <1>2, <2>1, <3>1, TimelyArrival
  <2>2. CASE q # s
    <3>1. sample'[q] = sample[q] /\ q \in Raw
      BY <1>2, <2>2 DEF Raw, IInv, TypeOK
    <3>. QED
      BY <1>2, <3>1 DEF RowsInv, RowsComplete
  <2>. QED
    BY <2>1, <2>2
<1>3. RowsComplete'
  BY <1>2 DEF RowsComplete
<1>. QED
  BY <1>1, <1>3 DEF RowsInv

LEMMA RowsSummarizeStep ==
    ASSUME IInv, RowsInv, NEW r \in Resolutions, NEW this, NEW next, Summarize(r, this, next)
    PROVE  RowsInv'
<1>1. CASE UNCHANGED rollup
  BY <1>1 DEF Summarize, RowsInv, OneRowPerBucket, RowsComplete, Raw
<1>2. CASE Raw # {} /\ Start(r) < Stop(r)
  <2>1. UNCHANGED sample /\ rollup' = rollup \cup Summaries(r) /\ Unique(rollup, Summaries(r))
    BY <1>2 DEF Summarize
  <2>2. OneRowPerBucket'
    BY <2>1 DEF RowsInv, OneRowPerBucket, Unique
  <2>3. ASSUME NEW x \in Summaries(r), NEW q \in Raw, Floor(x.resolution, sample[q].ts) = x.ts
        PROVE  q \in x.samples
    <3>1. PICK s \in Selected(r) :
            x = [resolution |-> r, ts |-> Floor(r, sample[s].ts), samples |-> Bucket(r, Floor(r, sample[s].ts))]
      BY DEF Summaries
    <3>2. /\ Start(r) \in Nat /\ Stop(r) \in Nat /\ r \in Nat \ {0}
          /\ Aligned(r, Start(r)) /\ Aligned(r, Stop(r))
          /\ sample[s].ts \in Nat /\ sample[q].ts \in Nat
          /\ Start(r) <= sample[s].ts /\ sample[s].ts < Stop(r)
      BY <1>2, Interval, ResolutionTypes, RowTypes DEF IInv, Times, Selected, Raw
    <3>3. Start(r) <= Floor(r, sample[s].ts) /\ Floor(r, sample[s].ts) + r <= Stop(r)
      BY <3>2, BucketAfter, BucketBefore
    <3>4. Floor(r, sample[q].ts) = Floor(r, sample[s].ts)
      BY <2>3, <3>1
    <3>5. Floor(r, sample[q].ts) \in Nat /\ Floor(r, sample[q].ts) <= sample[q].ts /\ sample[q].ts < Floor(r, sample[q].ts) + r
      BY <3>2, FloorStarts
    <3>6. q \in Selected(r)
      BY <3>2, <3>3, <3>4, <3>5 DEF Selected
    <3>. QED
      BY <3>1, <3>4, <3>6 DEF Bucket
  <2>4. RowsComplete'
    BY <2>1, <2>3 DEF RowsInv, RowsComplete, Raw
  <2>. QED
    BY <2>2, <2>4 DEF RowsInv
<1>. QED
  BY <1>1, <1>2 DEF Summarize

LEMMA RowsStep == IInv /\ RowsInv /\ [Next]_vars => RowsInv'
<1>. SUFFICES ASSUME IInv, RowsInv, [Next]_vars PROVE RowsInv'
  OBVIOUS
<1>0. TypeOK'
  BY TypeStep DEF IInv
<1>1. CASE UNCHANGED store
  BY <1>1 DEF store, RowsInv, OneRowPerBucket, RowsComplete, Raw
<1>2. ASSUME NEW s \in Samples, Take(s) \/ Store(s) \/ RollBack(s) PROVE RowsInv'
  <2>1. UNCHANGED rollup /\ sample' = [sample EXCEPT ![s] = sample'[s]]
    BY <1>2 DEF Take, Store, RollBack, IInv, TypeOK
  <2>2. sample'[s].state = "raw" /\ sample'[s].timely => Ahead(sample'[s].ts)
    <3>1. CASE Store(s)
      <4>1. sample'[s] = [state |-> "raw", ts |-> sample[s].ts, timely |-> Ahead(sample[s].ts)]
        BY <3>1 DEF Store, IInv, TypeOK
      <4>. QED
        BY <4>1
    <3>2. CASE Take(s) \/ RollBack(s)
      BY <3>2 DEF Take, RollBack, IInv, TypeOK, NoSample
    <3>. QED
      BY <1>2, <3>1, <3>2
  <2>. QED
    BY <1>0, <2>1, <2>2, RowsSampleStep
<1>3. ASSUME NEW s \in Samples, NEW t \in Times, Import(s, t) PROVE RowsInv'
  <2>1. UNCHANGED rollup /\ sample' = [sample EXCEPT ![s] = sample'[s]] /\ Ahead(sample'[s].ts)
    BY <1>3 DEF Import, IInv, TypeOK, Ahead
  <2>. QED
    BY <1>0, <2>1, RowsSampleStep
<1>4. CASE BeginPass \/ Abort \/ Advance \/ (\E p \in Policies : SetPolicy(p)) \/ UNCHANGED vars
  BY <1>1, <1>4 DEF BeginPass, Abort, Advance, SetPolicy, vars
<1>5. CASE Summarize(Fine, "fine", "coarse") \/ Summarize(Coarse, "coarse", "retain")
  BY <1>5, RowsSummarizeStep DEF Resolutions
<1>6. CASE Retain
  <2>1. rollup' \subseteq rollup
    BY <1>6 DEF Retain
  <2>2. \A s \in Raw' : s \in Raw /\ sample'[s] = sample[s]
    BY <1>6 DEF Retain, Raw
  <2>. QED
    BY <2>1, <2>2 DEF RowsInv, OneRowPerBucket, RowsComplete
<1>. QED
  BY <1>2, <1>3, <1>4, <1>5, <1>6 DEF Next, Maintain

(* The rows of an answer are of one resolution.                             *)
LEMMA RowsOfOneResolution ==
    ASSUME NEW start, NEW end
    PROVE  /\ Rows(start, end) \subseteq rollup
           /\ \A x, y \in Rows(start, end) : x.resolution = y.resolution
  BY DEF Rows, RowsIn

(* No query counts a sample twice, in two rows or in a row and raw, and     *)
(* none leaves out a raw sample of its interval that was not late.          *)
THEOREM QueriesCountOnce == Spec => []QueriesFaithful
<1>1. Init => RowsInv
  BY DEF Init, RowsInv, OneRowPerBucket, RowsComplete
<1>2. IInv /\ RowsInv => QueriesFaithful
  <2>. SUFFICES ASSUME IInv, RowsInv, NEW s \in Stored, NEW start \in Times, NEW end \in start .. Horizon
       PROVE  /\ Counts(s, start, end) <= 1
              /\ s \in RawIn(start, end) /\ sample[s].timely => Counts(s, start, end) = 1
    BY DEF QueriesFaithful
  <2>. DEFINE rows == Rows(start, end)
              Having == {x \in rows : s \in x.samples}
              shown == s \in RawShown(start, end, rows)
  <2>0. Counts(s, start, end) = Cardinality(Having) + (IF shown THEN 1 ELSE 0)
    BY DEF Counts
  <2>1. \A x \in Having : x.ts = Floor(x.resolution, sample[s].ts)
    BY RowsOfOneResolution DEF IInv, RowsInBucket
  <2>2. \A x, y \in Having : x = y
    BY <2>1, RowsOfOneResolution DEF RowsInv, OneRowPerBucket
  <2>3. Having # {} => ~shown
    BY <2>1 DEF RawShown, Covered
  <2>4. s \in RawIn(start, end) /\ sample[s].timely /\ ~shown => Having # {}
    <3>. SUFFICES ASSUME s \in RawIn(start, end), sample[s].timely, ~shown PROVE Having # {}
      OBVIOUS
    <3>1. PICK x \in rows : x.ts = Floor(x.resolution, sample[s].ts)
      BY DEF RawShown, Covered
    <3>2. s \in Raw /\ x \in rollup
      BY <3>1, RowsOfOneResolution DEF RawIn
    <3>. QED
      BY <3>1, <3>2 DEF RowsInv, RowsComplete
  <2>. HIDE DEF rows, shown, Having
  <2>5. CASE Having = {}
    BY <2>0, <2>4, <2>5, FS_EmptySet
  <2>6. CASE Having # {}
    <3>1. PICK x : Having = {x}
      BY <2>2, <2>6
    <3>2. Cardinality(Having) = 1
      BY <3>1, FS_Singleton
    <3>. QED
      BY <2>0, <2>3, <2>6, <3>2
  <2>. QED
    BY <2>5, <2>6
<1>. QED
  BY <1>1, <1>2, RowsStep, InvAlways, PTL DEF Spec
=============================================================================
