-------------------------- MODULE AlertEngineProofs --------------------------
(* The alert engine for every set of metrics, of rules and of readings.     *)
EXTENDS AlertEngine, TLAPS

(* The counters are what the log says: each counts the newest verdicts of   *)
(* its kind.                                                                *)
CountsStreak(n, l, S) == \A k \in 1..Needed : n >= k <=> \A i \in 1..k : l[i] \in S

CountersMatch ==
    \A m \in Metrics :
        /\ CountsStreak(counter[m].bad, log[m], Bad)
        /\ CountsStreak(counter[m].good, log[m], {"good"})
        /\ CountsStreak(counter[m].critical, log[m], {"critical"})

StagedTells == phase = "committing" => \A m \in Metrics : staged[m].told = staged[m].alert

IInv == TypeOK /\ CountersMatch /\ StreaksDecide /\ EventsTellAlerts /\ StagedTells

-----------------------------------------------------------------------------
(* Streaks. *)
LEMMA GapEndsStreaks ==
    ASSUME NEW l \in Log, NEW S \in SUBSET Verdict
    PROVE  CountsStreak(0, Push("gap", l), S) /\ ~All(Push("gap", l), S)
  BY DEF CountsStreak, Push, All, Needed, Log, Verdict, Bad

LEMMA OtherEndsStreak ==
    ASSUME NEW l \in Log, NEW S \in SUBSET Verdict, NEW v \in Verdict \ S
    PROVE  CountsStreak(0, Push(v, l), S)
<1>1. Push(v, l)[1] \notin S
  BY DEF Push, Needed
<1>2. \A k \in 1..Needed : 1 \in 1..k /\ ~(0 >= k)
  BY DEF Needed
<1>. QED
  BY <1>1, <1>2 DEF CountsStreak

LEMMA StreakGrows ==
    ASSUME NEW l \in Log, NEW S \in SUBSET Verdict, NEW v \in S, NEW n \in 0..Needed,
           CountsStreak(n, l, S)
    PROVE  CountsStreak(Up(n), Push(v, l), S)
<1>. DEFINE p == Push(v, l)
<1>1. p[1] = v /\ p[2] = l[1] /\ p[3] = l[2]
  BY DEF Push, Needed
<1>2. (n >= 1 <=> l[1] \in S) /\ (n >= 2 <=> l[1] \in S /\ l[2] \in S)
  BY DEF CountsStreak, Needed
<1>3. /\ Up(n) >= 1
      /\ Up(n) >= 2 <=> n >= 1
      /\ Up(n) >= 3 <=> n >= 2
  BY DEF Up, Needed
<1>. HIDE DEF p
<1>4. CountsStreak(Up(n), p, S)
  BY <1>1, <1>2, <1>3 DEF CountsStreak, Needed
<1>. QED
  BY <1>4 DEF p

LEMMA FullCount ==
    ASSUME NEW l \in Log, NEW S \in SUBSET Verdict, NEW n \in 0..Needed, CountsStreak(n, l, S)
    PROVE  n = Needed <=> All(l, S)
  BY DEF CountsStreak, All, Needed

LEMMA PushType == ASSUME NEW l \in Log, NEW v \in Verdict \cup {"gap"} PROVE Push(v, l) \in Log
  BY DEF Push, Log, Needed

-----------------------------------------------------------------------------
(* Types. *)
LEMMA JudgeType ==
    ASSUME TypeOK, NEW m \in Metrics, NEW v \in Readings PROVE Judge(m, v) \in Verdict \cup {"gap"}
  BY DEF Judge, Verdict, Bad

LEMMA CounterType ==
    ASSUME NEW c \in Counter, NEW v \in Verdict \cup {"gap"} PROVE NextCounter(c, v) \in Counter
  BY DEF NextCounter, Counter, Zero, Up, Needed, Verdict, Bad

LEMMA RowType ==
    ASSUME TypeOK, NEW m \in Metrics, NEW c \in Counter PROVE NextRow(m, c) \in Row
  BY DEF TypeOK, NextRow, Row, Severity, Level

LEMMA TypeInit == Init => TypeOK
<1>. SUFFICES ASSUME Init PROVE TypeOK
  OBVIOUS
<1>1. Zero \in Counter /\ NoRow \in Row /\ [i \in 1..Needed |-> "gap"] \in Log
  BY DEF Zero, Counter, NoRow, Row, Severity, Log, Needed
<1>. QED
  BY <1>1 DEF Init, TypeOK, Severity

LEMMA TypeStep == TypeOK /\ [Next]_vars => TypeOK'
<1>. SUFFICES ASSUME TypeOK, [Next]_vars PROVE TypeOK'
  OBVIOUS
<1>. USE DEF settings, rows, poll
<1>0. Zero \in Counter
  BY DEF Zero, Counter, Needed
<1>9. Interrupted => log' \in [Metrics -> Log]
  BY PushType DEF TypeOK, Interrupted
<1>10. Saved => alert' \in [Metrics -> Severity] /\ told' \in [Metrics -> Severity]
  BY DEF TypeOK, Saved, Row
<1>1. CASE UNCHANGED vars
  BY <1>1 DEF TypeOK, vars
<1>2. CASE ReadRules
  BY <1>2 DEF TypeOK, ReadRules
<1>3. ASSUME NEW sample \in Samples, Evaluate(sample) PROVE TypeOK'
  <2>0. \A m \in Metrics : Judge(m, sample[m]) \in Verdict \cup {"gap"}
    BY JudgeType DEF Samples
  <2>1. counter' \in [Metrics -> Counter]
    BY <1>3, <2>0, CounterType DEF Evaluate, TypeOK
  <2>2. log' \in [Metrics -> Log]
    BY <1>3, <2>0, PushType DEF Evaluate, TypeOK
  <2>3. staged' \in [Metrics -> Row]
    BY <1>3, <2>1, RowType DEF Evaluate
  <2>. QED
    BY <1>3, <2>1, <2>2, <2>3 DEF Evaluate, TypeOK
<1>4. CASE Commit
  BY <1>4, <1>10 DEF Commit, TypeOK
<1>5. CASE Fail
  BY <1>0, <1>5, <1>9, <1>10 DEF Fail, AfterReset, TypeOK
<1>6. ASSUME NEW r \in [Metrics -> Rules], SaveHardwareRules(r) \/ SaveThresholds(r) PROVE TypeOK'
  BY <1>6 DEF SaveHardwareRules, SaveThresholds, TypeOK
<1>7. CASE ClearCounters
  BY <1>0, <1>7, <1>9 DEF ClearCounters, TypeOK
<1>. QED
  BY <1>1, <1>2, <1>3, <1>4, <1>5, <1>6, <1>7 DEF Next, Poll, Settings

-----------------------------------------------------------------------------
(* The invariant. *)
LEMMA Streaks == {"good"} \in SUBSET Verdict /\ {"critical"} \in SUBSET Verdict /\ Bad \in SUBSET Verdict
  BY DEF Verdict, Bad

LEMMA InvInit == Init => IInv
<1>. SUFFICES ASSUME Init PROVE IInv
  OBVIOUS
<1>0. ASSUME NEW m \in Metrics, NEW i \in 1..Needed PROVE log[m][i] = "gap"
  BY DEF Init
<1>1. CountersMatch
  <2>1. \A k \in 1..Needed : 1 \in 1..k /\ ~(0 >= k)
    BY DEF Needed
  <2>2. ASSUME NEW m \in Metrics, NEW S \in SUBSET Verdict PROVE CountsStreak(0, log[m], S)
    <3>1. log[m][1] \notin S
      BY <1>0 DEF Needed, Verdict, Bad
    <3>. QED
      BY <2>1, <3>1 DEF CountsStreak
  <2>3. \A m \in Metrics : counter[m].bad = 0 /\ counter[m].good = 0 /\ counter[m].critical = 0
    BY DEF Init, Zero
  <2>. QED
    BY <2>2, <2>3, Streaks DEF CountersMatch
<1>2. StreaksDecide
  <2>1. 1 \in 1..Needed
    BY DEF Needed
  <2>. QED
    BY <1>0, <2>1 DEF StreaksDecide, All, Bad
<1>. QED
  BY <1>1, <1>2, TypeInit DEF Init, IInv, EventsTellAlerts, StagedTells

(* An interruption zeroes the counters and pushes a gap. *)
LEMMA InterruptionKeepsCounts ==
    ASSUME TypeOK, Interrupted, counter' = [m \in Metrics |-> Zero]
    PROVE  /\ CountersMatch'
           /\ \A m \in Metrics : \A S \in {Bad, {"critical"}, {"good"}} : ~All(log'[m], S)
<1>. USE Streaks
<1>1. \A m \in Metrics : log[m] \in Log /\ log'[m] = Push("gap", log[m])
  BY DEF TypeOK, Interrupted
<1>2. \A m \in Metrics : counter'[m].bad = 0 /\ counter'[m].good = 0 /\ counter'[m].critical = 0
  BY DEF Zero
<1>. QED
  BY <1>1, <1>2, GapEndsStreaks DEF CountersMatch

(* The counters of one metric after a verdict. *)
LEMMA VerdictKeepsCounts ==
    ASSUME NEW c \in Counter, NEW l \in Log, NEW v \in Verdict \cup {"gap"},
           CountsStreak(c.bad, l, Bad), CountsStreak(c.good, l, {"good"}),
           CountsStreak(c.critical, l, {"critical"})
    PROVE  /\ CountsStreak(NextCounter(c, v).bad, Push(v, l), Bad)
           /\ CountsStreak(NextCounter(c, v).good, Push(v, l), {"good"})
           /\ CountsStreak(NextCounter(c, v).critical, Push(v, l), {"critical"})
<1>. USE Streaks
<1>0. c.bad \in 0..Needed /\ c.good \in 0..Needed /\ c.critical \in 0..Needed
  BY DEF Counter
<1>1. CASE v = "gap"
  BY <1>1, GapEndsStreaks DEF NextCounter, Zero
<1>2. CASE v = "good"
  <2>1. v \in Verdict \ Bad /\ v \in Verdict \ {"critical"} /\ v \in {"good"}
    BY <1>2 DEF Verdict, Bad
  <2>2. NextCounter(c, v) = [bad |-> 0, good |-> Up(c.good), critical |-> 0]
    BY <1>2 DEF NextCounter
  <2>. QED
    BY <1>0, <2>1, <2>2, OtherEndsStreak, StreakGrows
<1>3. CASE v = "warning"
  <2>1. v \in Bad /\ v \in Verdict \ {"critical"} /\ v \in Verdict \ {"good"}
    BY <1>3 DEF Verdict, Bad
  <2>2. NextCounter(c, v) = [bad |-> Up(c.bad), good |-> 0, critical |-> 0]
    BY <1>3 DEF NextCounter
  <2>. QED
    BY <1>0, <2>1, <2>2, OtherEndsStreak, StreakGrows
<1>4. CASE v = "critical"
  <2>1. v \in Bad /\ v \in {"critical"} /\ v \in Verdict \ {"good"}
    BY <1>4 DEF Verdict, Bad
  <2>2. NextCounter(c, v) = [bad |-> Up(c.bad), good |-> 0, critical |-> Up(c.critical)]
    BY <1>4 DEF NextCounter
  <2>. QED
    BY <1>0, <2>1, <2>2, OtherEndsStreak, StreakGrows
<1>. QED
  BY <1>1, <1>2, <1>3, <1>4 DEF Verdict, Bad

(* The row staged for a metric, from what the invariant says of the log.    *)
LEMMA RowDecided ==
    ASSUME NEW m \in Metrics, NEW c \in Counter, NEW l \in Log, alert[m] \in Severity,
           CountsStreak(c.bad, l, Bad), CountsStreak(c.good, l, {"good"}),
           CountsStreak(c.critical, l, {"critical"})
    PROVE  /\ All(l, Bad) => NextRow(m, c).alert # "none"
           /\ All(l, {"critical"}) => NextRow(m, c).alert = "critical"
           /\ All(l, {"good"}) => NextRow(m, c).alert = "none"
           /\ Warranted(alert[m], NextRow(m, c).alert, l)
           /\ told[m] = alert[m] => NextRow(m, c).told = NextRow(m, c).alert
<1>. USE Streaks
<1>1. /\ c.bad = Needed <=> All(l, Bad)
      /\ c.good = Needed <=> All(l, {"good"})
      /\ c.critical = Needed <=> All(l, {"critical"})
  BY FullCount DEF Counter
<1>2. All(l, {"critical"}) => All(l, Bad)
  BY DEF All, Bad
<1>3. ~(All(l, {"good"}) /\ All(l, Bad))
  BY DEF All, Bad, Needed
<1>. QED
  BY <1>1, <1>2, <1>3 DEF NextRow, Open, Escalate, Resolve, Level, Warranted, Severity

LEMMA EvaluateKeeps ==
    ASSUME IInv, NEW sample \in Samples, Evaluate(sample), TypeOK'
    PROVE  /\ IInv'
           /\ \A m \in Metrics : Warranted(alert[m], staged'[m].alert, log'[m])
<1>. DEFINE v(m) == Judge(m, sample[m])
<1>1. \A m \in Metrics : v(m) \in Verdict \cup {"gap"}
  BY JudgeType DEF Samples, IInv
<1>2. \A m \in Metrics : /\ counter'[m] = NextCounter(counter[m], v(m))
                         /\ log'[m] = Push(v(m), log[m])
                         /\ staged'[m] = NextRow(m, counter'[m])
  BY DEF Evaluate
<1>3. \A m \in Metrics : /\ counter[m] \in Counter /\ log[m] \in Log /\ alert[m] \in Severity
                         /\ counter'[m] \in Counter /\ log'[m] \in Log
  BY DEF IInv, TypeOK
<1>. HIDE DEF v
<1>4. CountersMatch'
  BY <1>1, <1>2, <1>3, VerdictKeepsCounts DEF IInv, CountersMatch
<1>5. \A m \in Metrics :
         /\ All(log'[m], Bad) => staged'[m].alert # "none"
         /\ All(log'[m], {"critical"}) => staged'[m].alert = "critical"
         /\ All(log'[m], {"good"}) => staged'[m].alert = "none"
         /\ Warranted(alert[m], staged'[m].alert, log'[m])
         /\ told[m] = alert[m] => staged'[m].told = staged'[m].alert
  BY <1>2, <1>3, <1>4, RowDecided DEF CountersMatch
<1>6. phase' = "committing" /\ alert' = alert /\ told' = told
  BY DEF Evaluate, rows
<1>. QED
  BY <1>4, <1>5, <1>6 DEF IInv, StreaksDecide, EventsTellAlerts, StagedTells, Judged

LEMMA SavedTells == IInv /\ phase = "committing" /\ Saved => EventsTellAlerts'
<1>. SUFFICES ASSUME IInv, phase = "committing", Saved PROVE told' = alert'
  BY DEF EventsTellAlerts
<1>. QED
  BY DEF IInv, StagedTells, Saved

LEMMA InvStep == IInv /\ [Next]_vars => IInv'
<1>. SUFFICES ASSUME IInv, [Next]_vars PROVE IInv'
  OBVIOUS
<1>. USE DEF settings, rows, poll
<1>0. TypeOK'
  BY TypeStep DEF IInv
<1>1. CASE UNCHANGED vars
  BY <1>0, <1>1 DEF IInv, CountersMatch, StreaksDecide, EventsTellAlerts, StagedTells, Judged, vars
<1>2. CASE ReadRules
  BY <1>0, <1>2 DEF IInv, CountersMatch, StreaksDecide, EventsTellAlerts, StagedTells, Judged, ReadRules
<1>3. ASSUME NEW sample \in Samples, Evaluate(sample) PROVE IInv'
  BY <1>0, <1>3, EvaluateKeeps
<1>4. CASE Commit
  <2>1. EventsTellAlerts'
    BY <1>4, SavedTells DEF Commit
  <2>2. \A m \in Metrics : alert'[m] = Judged(m)
    BY <1>4 DEF Commit, Saved, Judged
  <2>. QED
    BY <1>0, <1>4, <2>1, <2>2 DEF IInv, CountersMatch, StreaksDecide, StagedTells, Judged, Commit
<1>5. CASE Fail
  <2>1. EventsTellAlerts'
    BY <1>5, SavedTells DEF Fail, IInv, EventsTellAlerts
  <2>2. CountersMatch' /\ StreaksDecide'
    BY <1>5, InterruptionKeepsCounts DEF Fail, AfterReset, IInv, StreaksDecide
  <2>. QED
    BY <1>0, <1>5, <2>1, <2>2 DEF IInv, StagedTells, Fail
<1>6. ASSUME NEW r \in [Metrics -> Rules], SaveHardwareRules(r) \/ SaveThresholds(r) PROVE IInv'
  BY <1>0, <1>6 DEF IInv, CountersMatch, StreaksDecide, EventsTellAlerts, StagedTells, Judged,
                    SaveHardwareRules, SaveThresholds
<1>7. CASE ClearCounters
  <2>1. CountersMatch' /\ StreaksDecide'
    BY <1>7, InterruptionKeepsCounts DEF ClearCounters, IInv, StreaksDecide
  <2>. QED
    BY <1>0, <1>7, <2>1 DEF IInv, EventsTellAlerts, StagedTells, ClearCounters
<1>. QED
  BY <1>1, <1>2, <1>3, <1>4, <1>5, <1>6, <1>7 DEF Next, Poll, Settings

LEMMA InvAlways == Spec => []IInv
  BY InvInit, InvStep, PTL DEF Spec

-----------------------------------------------------------------------------
(* Every variable stays in its type. *)
THEOREM TypeCorrect == Spec => []TypeOK
<1>1. IInv => TypeOK
  BY DEF IInv
<1>. QED
  BY <1>1, InvAlways, PTL

(* Three samples in a row decide whether an incident is open, whatever      *)
(* failed or was reconfigured before them.                                  *)
THEOREM StreaksAlwaysDecide == Spec => []StreaksDecide
<1>1. IInv => StreaksDecide
  BY DEF IInv
<1>. QED
  BY <1>1, InvAlways, PTL

(* The events tell the incidents. *)
THEOREM EventsAlwaysTell == Spec => []EventsTellAlerts
<1>1. IInv => EventsTellAlerts
  BY DEF IInv
<1>. QED
  BY <1>1, InvAlways, PTL

(* Incidents change only on three samples in a row that call for it. *)
THEOREM ChangesAlwaysWarranted == Spec => ChangesOnEvidence
<1>. DEFINE A == \A m \in Metrics :
                   /\ phase' = "committing" /\ phase # "committing"
                        => Warranted(alert[m], staged'[m].alert, log'[m])
                   /\ alert'[m] # alert[m] => alert'[m] = Judged(m)
<1>1. IInv /\ [Next]_vars => [A]_vars
  <2>. SUFFICES ASSUME IInv, Next PROVE A
    OBVIOUS
  <2>. USE DEF settings, rows, poll
  <2>0. TypeOK'
    BY TypeStep DEF IInv
  <2>1. ASSUME NEW sample \in Samples, Evaluate(sample) PROVE A
    BY <2>0, <2>1, EvaluateKeeps DEF Evaluate
  <2>2. CASE ReadRules
    BY <2>2 DEF ReadRules
  <2>3. CASE Commit
    BY <2>3 DEF Commit, Saved, Judged
  <2>4. CASE Fail
    BY <2>4 DEF Fail, Saved, Judged
  <2>5. CASE Settings
    BY <2>5 DEF Settings, SaveHardwareRules, SaveThresholds, ClearCounters
  <2>. QED
    BY <2>1, <2>2, <2>3, <2>4, <2>5 DEF Next, Poll
<1>. QED
  BY <1>1, InvAlways, PTL DEF Spec, ChangesOnEvidence
=============================================================================
