------------------------------- MODULE Rollups -------------------------------
(***************************************************************************)
(* Samples, their rollups in two resolutions, retention and the history    *)
(* query (sparkscope/history.py) for one device, source and metric.        *)
(* Pollers commit samples some time after they took them; maintenance runs *)
(* three transactions per pass and may stop between any two.               *)
(***************************************************************************)
EXTENDS Integers, FiniteSets

CONSTANTS
    Samples,
    Fine,       \* 60 seconds
    Coarse,     \* 900 seconds
    PassLimit,  \* 3600 seconds, what one pass summarises
    NarrowSpan, \* 3600 seconds, up to which a query starts from raw samples
    WideSpan,   \* seven days, from which it starts from coarse rollups
    Policies,   \* retention policies an administrator may choose
    MaxDelay,   \* bound: how long after its ts a sample may be committed
    Horizon     \* bound: the last moment of the clock

Resolutions == {Fine, Coarse}
Times       == 0..Horizon
PolicyType  == [raw : Nat, fine : Nat, coarse : Nat]

ASSUME ResolutionsAssumption ==
    /\ Fine \in Nat \ {0} /\ Coarse \in Nat \ {0} /\ PassLimit \in Nat \ {0}
    /\ Fine < Coarse /\ Coarse % Fine = 0
    /\ PassLimit % Fine = 0 /\ PassLimit % Coarse = 0
ASSUME HorizonAssumption == Horizon \in Nat /\ MaxDelay \in Nat
ASSUME PoliciesAssumption ==
    Policies \subseteq {p \in PolicyType : p.raw <= p.fine /\ p.fine <= p.coarse}

VARIABLES
    now,        \* the clock
    sample,     \* [Samples -> SampleRow]
    cursor,     \* [Resolutions -> the end of what is summarised, or NoCursor]
    rollup,     \* rows of table rollups
    policy,     \* the retention policy in the database
    phase,      \* the transaction maintenance runs next
    began,      \* the clock when the pass began, or 0 between passes
    counted,    \* history: how often each rollup pass counted each sample
    expired     \* history: the latest cutoffs retention has applied

store   == <<sample, rollup, cursor>>
pass    == <<phase, began>>
history == <<counted, expired>>
vars    == <<now, store, policy, pass, history>>

(* A sample is taken (it has its ts) and committed later.  It is timely if  *)
(* no cursor had passed its ts by then.                                     *)
SampleRow == [state : {"none", "taken", "raw", "deleted"}, ts : Times, timely : BOOLEAN]
NoSample  == [state |-> "none", ts |-> 0, timely |-> FALSE]
NoCursor  == -1

(* The values of a rollup row are the samples they sum up. *)
RollupRow == [resolution : Resolutions, ts : Times, samples : SUBSET Samples]

Stored == {s \in Samples : sample[s].state \in {"raw", "deleted"}}
Raw    == {s \in Samples : sample[s].state = "raw"}

TypeOK ==
    /\ now \in Times
    /\ sample \in [Samples -> SampleRow]
    /\ cursor \in [Resolutions -> Times \cup {NoCursor}]
    /\ rollup \subseteq RollupRow
    /\ policy \in Policies
    /\ phase \in {"idle", "fine", "coarse", "retain"}
    /\ began \in Times
    /\ counted \in [Samples -> [Resolutions -> 0..2]]
    /\ expired \in [raw : Nat, fine : Nat, coarse : Nat]

Init ==
    /\ now = 0
    /\ sample = [s \in Samples |-> NoSample]
    /\ cursor = [r \in Resolutions |-> NoCursor]
    /\ rollup = {}
    /\ policy \in Policies
    /\ phase = "idle"
    /\ began = 0
    /\ counted = [s \in Samples |-> [r \in Resolutions |-> 0]]
    /\ expired = [raw |-> 0, fine |-> 0, coarse |-> 0]

Floor(r, t)   == t - (t % r)
Earlier(a, b) == IF a <= b THEN a ELSE b
Later(a, b)   == IF a >= b THEN a ELSE b

-----------------------------------------------------------------------------
(* The pollers: a sample gets its ts after the remote command, waits for    *)
(* the device's lock and the database, and is committed or rolled back.     *)
Take(s) ==
    /\ sample[s].state = "none"
    /\ sample' = [sample EXCEPT ![s] = [state |-> "taken", ts |-> now, timely |-> FALSE]]
    /\ UNCHANGED <<now, cursor, rollup, policy, pass, history>>

Ahead(t) == \A r \in Resolutions : cursor[r] = NoCursor \/ cursor[r] <= t

Store(s) ==
    /\ sample[s].state = "taken" /\ now <= sample[s].ts + MaxDelay
    /\ sample' = [sample EXCEPT ![s] = [state |-> "raw", ts |-> @.ts, timely |-> Ahead(@.ts)]]
    /\ UNCHANGED <<now, cursor, rollup, policy, pass, history>>

RollBack(s) ==
    /\ sample[s].state = "taken"
    /\ sample' = [sample EXCEPT ![s] = NoSample]
    /\ UNCHANGED <<now, cursor, rollup, policy, pass, history>>

(* import_legacy, with the service stopped and in a new installation, as    *)
(* the documentation asks: it stores old samples before any pass.           *)
Import(s, t) ==
    /\ phase = "idle" /\ \A r \in Resolutions : cursor[r] = NoCursor
    /\ sample[s].state = "none" /\ \A q \in Samples : sample[q].state # "taken"
    /\ t < now
    /\ sample' = [sample EXCEPT ![s] = [state |-> "raw", ts |-> t, timely |-> TRUE]]
    /\ UNCHANGED <<now, cursor, rollup, policy, pass, history>>

-----------------------------------------------------------------------------
(* maintain.                                                                *)
BeginPass ==
    /\ phase = "idle"
    /\ phase' = "fine"
    /\ began' = now
    /\ UNCHANGED <<now, store, policy, history>>

Earliest == CHOOSE t \in {sample[s].ts : s \in Raw} : \A s \in Raw : t <= sample[s].ts

(* The interval a pass summarises: it starts where the last one ended, or   *)
(* at the first bucket that has a sample, and ends with a closed bucket.    *)
Limit(r) == Later(PassLimit, r)
Start(r) == Floor(r, IF cursor[r] = NoCursor THEN Earliest ELSE cursor[r])
Stop_open(r) == Earlier(began, Start(r) + Limit(r))

Stop_behind(r) == Earlier(Floor(r, began) - r, Start(r) + Limit(r))

Stop(r) == Earlier(Floor(r, began), Start(r) + Limit(r))

Selected(r)  == {s \in Raw : Start(r) <= sample[s].ts /\ sample[s].ts < Stop(r)}
Bucket(r, t) == {s \in Selected(r) : Floor(r, sample[s].ts) = t}
Summaries(r) ==
    {[resolution |-> r, ts |-> t, samples |-> Bucket(r, t)] :
        t \in {Floor(r, sample[s].ts) : s \in Selected(r)}}

(* uq_rollup_bucket: the database refuses a second row for a bucket. *)
Unique(rows, new) ==
    \A x \in new : \A y \in rows \cup new : x.resolution = y.resolution /\ x.ts = y.ts => x = y

Summarize(r, this, next) ==
    /\ phase = this
    /\ phase' = next
    /\ IF Raw # {} /\ Start(r) < Stop(r)
       THEN /\ Unique(rollup, Summaries(r))
            /\ rollup' = rollup \cup Summaries(r)
            /\ cursor' = [cursor EXCEPT ![r] = Stop(r)]
            /\ counted' = [s \in Samples |->
                 IF s \in Selected(r) THEN [counted[s] EXCEPT ![r] = Earlier(@ + 1, 2)]
                 ELSE counted[s]]
       ELSE UNCHANGED <<rollup, cursor, counted>>
    /\ UNCHANGED <<now, sample, policy, began, expired>>

(* Raw samples go when both cursors have passed them. *)
Safe_either == Later(cursor[Fine], cursor[Coarse])

Safe == IF NoCursor \in {cursor[r] : r \in Resolutions} THEN 0
        ELSE Earlier(cursor[Fine], cursor[Coarse])

RawCutoff == Earlier(began - policy.raw, Safe)

Age_minute(r) == policy.fine

Age(r) == IF r = Fine THEN policy.fine ELSE policy.coarse

Retain ==
    /\ phase = "retain"
    /\ phase' = "idle"
    /\ sample' = [s \in Samples |->
         IF s \in Raw /\ sample[s].ts < RawCutoff
         THEN [sample[s] EXCEPT !.state = "deleted"] ELSE sample[s]]
    /\ rollup' = {x \in rollup : x.ts >= began - Age(x.resolution)}
    /\ expired' = [raw    |-> Later(expired.raw, began - policy.raw),
                   fine   |-> Later(expired.fine, began - policy.fine),
                   coarse |-> Later(expired.coarse, began - policy.coarse)]
    /\ began' = 0
    /\ UNCHANGED <<now, cursor, policy, counted>>

(* An exception, which maintain_loop swallows, or a stop of the process:    *)
(* the transaction of the moment is rolled back, those before it remain.    *)
Abort ==
    /\ phase # "idle"
    /\ phase' = "idle"
    /\ began' = 0
    /\ UNCHANGED <<now, store, policy, history>>

-----------------------------------------------------------------------------
SetPolicy(p) ==
    /\ policy' = p
    /\ UNCHANGED <<now, store, pass, history>>

Advance ==
    /\ now < Horizon
    /\ now' = now + 1
    /\ UNCHANGED <<store, policy, pass, history>>

Maintain ==
    \/ BeginPass
    \/ Summarize(Fine, "fine", "coarse")
    \/ Summarize(Coarse, "coarse", "retain")
    \/ Retain

Next ==
    \/ \E s \in Samples : Take(s) \/ Store(s) \/ RollBack(s) \/ (\E t \in Times : Import(s, t))
    \/ Maintain
    \/ Abort
    \/ \E p \in Policies : SetPolicy(p)
    \/ Advance

Spec == Init /\ [][Next]_vars

(* An Abort with nothing to expire looks like Retain, which goes on. *)
Interruption == Abort /\ ~Retain

FairSpec == Spec /\ WF_vars(Maintain) /\ WF_vars(Advance) /\ <>[][~Interruption]_vars

-----------------------------------------------------------------------------
(* history: the query from start to end, both included.  It reads the raw   *)
(* samples; unless it is narrow and they suffice, it takes the finest       *)
(* resolution from the wanted one on that has rows, and skips raw samples   *)
(* in buckets those rows cover.                                             *)
RawIn(start, end) == {s \in Raw : start <= sample[s].ts /\ sample[s].ts <= end}

RowsIn(r, start, end) == {x \in rollup : x.resolution = r /\ start <= x.ts /\ x.ts <= end}

Wanted(start, end) ==
    IF end - start > WideSpan THEN {Coarse} ELSE Resolutions

Consulted(start, end) == end - start > NarrowSpan \/ RawIn(start, end) = {}

Rows(start, end) ==
    IF ~Consulted(start, end) THEN {}
    ELSE IF Fine \in Wanted(start, end) /\ RowsIn(Fine, start, end) # {}
    THEN RowsIn(Fine, start, end)
    ELSE RowsIn(Coarse, start, end)

Covered_started(s, rows) == \E x \in rows : x.ts = sample[s].ts

Covered(s, rows) == \E x \in rows : x.ts = Floor(x.resolution, sample[s].ts)

RawShown(start, end, rows) == {s \in RawIn(start, end) : ~Covered(s, rows)}

(* How often the answer counts the sample. *)
Counts(s, start, end) ==
    LET rows == Rows(start, end) IN
    Cardinality({x \in rows : s \in x.samples})
      + (IF s \in RawShown(start, end, rows) THEN 1 ELSE 0)

-----------------------------------------------------------------------------
(* Every timely sample is counted exactly once in each resolution before    *)
(* its row is deleted, and none is ever counted twice, whatever passes were *)
(* interrupted between their transactions (history.py:81: "Never delete raw *)
(* samples before both resolutions have consumed them").                    *)
CountedOnce ==
    \A s \in Samples, r \in Resolutions :
        /\ counted[s][r] <= 1
        /\ sample[s].state = "deleted" /\ sample[s].timely => counted[s][r] = 1

(* A summary is only made of a closed bucket that no pass has summarised:   *)
(* the unique constraint never stops maintenance for good.                  *)
NeverConflicts ==
    \A r \in Resolutions :
        Raw # {} /\ Start(r) < Stop(r) => Unique(rollup, Summaries(r))

(* A timely sample is still there, raw or in a rollup, unless retention has *)
(* passed it in all three forms: no change of policy, interruption or pass  *)
(* that lags behind loses it earlier.                                       *)
Kept(s) == s \in Raw \/ \E x \in rollup : s \in x.samples

KeptUnlessExpired ==
    \A s \in Stored :
        sample[s].timely /\ ~Kept(s) =>
            /\ sample[s].ts < expired.raw
            /\ Floor(Fine, sample[s].ts) < expired.fine
            /\ Floor(Coarse, sample[s].ts) < expired.coarse

(* A query never counts a sample twice, in a rollup and raw or in two       *)
(* rollups, and shows every timely raw sample of its interval.              *)
QueriesFaithful ==
    \A s \in Stored : \A start \in Times : \A end \in start..Horizon :
        LET n == Counts(s, start, end) IN
        /\ n <= 1
        /\ s \in RawIn(start, end) /\ sample[s].timely => n = 1

(* Every timely sample in a bucket that closes before the clock stops is    *)
(* eventually counted in both resolutions.                                  *)
EverySampleCounted ==
    \A s \in Samples, r \in Resolutions :
        s \in Raw /\ sample[s].timely /\ sample[s].ts < Floor(r, Horizon) ~> counted[s][r] = 1
=============================================================================
