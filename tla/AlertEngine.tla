----------------------------- MODULE AlertEngine -----------------------------
(***************************************************************************)
(* AlertEngine.evaluate and reset (sparkscope/alerts.py) for one device,   *)
(* as the system loop of sparkscope/collector.py and the settings API      *)
(* drive them.  The counters live in memory, the alert rows and the events *)
(* in the database: a poll reads the rules, advances the counters at once  *)
(* and commits the rows later, or never.                                   *)
(***************************************************************************)
EXTENDS Integers

CONSTANTS
    Metrics,
    MaxValue,   \* bound: readings are 0..MaxValue
    Rules       \* the rules a metric may have

Missing  == -1                          \* absent, not a number, or not finite
Readings == 0..MaxValue \cup {Missing}
Samples  == [Metrics -> Readings]

(* A rule without a critical level has one above every reading. *)
RuleType == [kind : {"absent", "disabled"}] \cup [kind : {"set"}, warning : Nat, critical : Nat]

ASSUME ReadingsAssumption == MaxValue \in Nat
ASSUME RulesAssumption == Rules \subseteq RuleType

Needed == 3                             \* samples that open, escalate or resolve

Severity == {"none", "warning", "critical"}
Bad      == {"warning", "critical"}
Verdict  == {"good"} \cup Bad
Counter  == [bad : 0..Needed, good : 0..Needed, critical : 0..Needed]
Zero     == [bad |-> 0, good |-> 0, critical |-> 0]

VARIABLES
    rule,       \* [Metrics -> Rules], the rules in the database
    clearing,   \* BOOLEAN, PUT settings/thresholds has saved and not yet cleared
    counter,    \* [Metrics -> Counter], in memory
    alert,      \* [Metrics -> Severity], the unresolved row of the metric
    told,       \* [Metrics -> Severity], history: what the events say, replayed
    log,        \* [Metrics -> Log], history: the last verdicts, the newest first
    phase,      \* where the poll is
    held,       \* the rules the poll has read
    staged      \* the rows and events of the poll's transaction

settings == <<rule, clearing>>
rows     == <<alert, told>>
poll     == <<phase, held, staged>>
vars     == <<settings, counter, rows, log, poll>>

(* A "gap" is a missing reading, an interruption or a cleared counter. *)
Log  == [1..Needed -> Verdict \cup {"gap"}]
Row  == [alert : Severity, told : Severity]

TypeOK ==
    /\ rule \in [Metrics -> Rules]
    /\ clearing \in BOOLEAN
    /\ counter \in [Metrics -> Counter]
    /\ alert \in [Metrics -> Severity]
    /\ told \in [Metrics -> Severity]
    /\ log \in [Metrics -> Log]
    /\ phase \in {"idle", "reading", "committing"}
    /\ held \in [Metrics -> Rules]
    /\ staged \in [Metrics -> Row]

NoRow == [alert |-> "none", told |-> "none"]

Init ==
    /\ rule \in [Metrics -> Rules]
    /\ clearing = FALSE
    /\ counter = [m \in Metrics |-> Zero]
    /\ alert = [m \in Metrics |-> "none"]
    /\ told = alert
    /\ log = [m \in Metrics |-> [i \in 1..Needed |-> "gap"]]
    /\ phase = "idle"
    /\ held = rule
    /\ staged = [m \in Metrics |-> NoRow]

Push(v, l) == [i \in 1..Needed |-> IF i = 1 THEN v ELSE l[i - 1]]

Interrupted == log' = [m \in Metrics |-> Push("gap", log[m])]

-----------------------------------------------------------------------------
(* evaluate, for one metric with the reading v.  A popped counter and a     *)
(* counter of zeros are the same to the code, and a count above Needed is   *)
(* the same as Needed.                                                      *)

Counted(m, v) == held[m].kind = "set" /\ v # Missing

Judge(m, v) ==
    IF ~Counted(m, v) THEN "gap"
    ELSE IF v < held[m].warning THEN "good"
    ELSE IF v < held[m].critical THEN "warning" ELSE "critical"

Up(n) == IF n < Needed THEN n + 1 ELSE n

NextCounter_restarted(c, verdict) ==
    CASE verdict = "gap"      -> Zero
      [] verdict = "good"     -> [bad |-> 0, good |-> Up(c.good), critical |-> 0]
      [] verdict = "warning"  -> [bad |-> IF c.critical > 0 THEN 1 ELSE Up(c.bad),
                                  good |-> 0, critical |-> 0]
      [] verdict = "critical" -> [bad |-> IF c.critical = 0 THEN 1 ELSE Up(c.bad),
                                  good |-> 0, critical |-> Up(c.critical)]

NextCounter(c, verdict) ==
    CASE verdict = "gap"      -> Zero
      [] verdict = "good"     -> [bad |-> 0, good |-> Up(c.good), critical |-> 0]
      [] verdict = "warning"  -> [bad |-> Up(c.bad), good |-> 0, critical |-> 0]
      [] verdict = "critical" -> [bad |-> Up(c.bad), good |-> 0, critical |-> Up(c.critical)]

(* The rows of a metric whose counter is now c.  An open alert is never     *)
(* opened again, and only a resolution lowers its severity.                 *)
Level(c) == IF c.critical = Needed THEN "critical" ELSE "warning"

Open(m, c)     == c.bad = Needed /\ alert[m] = "none"
Escalate_never(m, c) == FALSE

Escalate(m, c) == c.bad = Needed /\ alert[m] = "warning" /\ Level(c) = "critical"
Resolve(m, c)  == c.good = Needed /\ alert[m] # "none"

(* Every change of the row comes with an event that tells of it. *)
NextRow_silent(m, c) ==
    CASE Open(m, c)     -> [alert |-> Level(c), told |-> Level(c)]
      [] Escalate(m, c) -> [alert |-> "critical", told |-> told[m]]
      [] Resolve(m, c)  -> [alert |-> "none", told |-> "none"]
      [] OTHER          -> [alert |-> alert[m], told |-> told[m]]

NextRow(m, c) ==
    CASE Open(m, c)     -> [alert |-> Level(c), told |-> Level(c)]
      [] Escalate(m, c) -> [alert |-> "critical", told |-> "critical"]
      [] Resolve(m, c)  -> [alert |-> "none", told |-> "none"]
      [] OTHER          -> [alert |-> alert[m], told |-> told[m]]

-----------------------------------------------------------------------------
(* poll_system: it reads the rules, and evaluate reads the open alerts.     *)
ReadRules ==
    /\ phase = "idle"
    /\ phase' = "reading"
    /\ held' = rule
    /\ UNCHANGED <<settings, counter, rows, log, staged>>

(* The rest of evaluate, without an await: the counters move in memory, the *)
(* rows are staged in the session.                                          *)
Evaluate(sample) ==
    /\ phase = "reading"
    /\ phase' = "committing"
    /\ counter' = [m \in Metrics |-> NextCounter(counter[m], Judge(m, sample[m]))]
    /\ log' = [m \in Metrics |-> Push(Judge(m, sample[m]), log[m])]
    /\ staged' = [m \in Metrics |-> NextRow(m, counter'[m])]
    /\ UNCHANGED <<settings, rows, held>>

Saved ==
    /\ alert' = [m \in Metrics |-> staged[m].alert]
    /\ told' = [m \in Metrics |-> staged[m].told]

Commit ==
    /\ phase = "committing"
    /\ phase' = "idle"
    /\ Saved
    /\ UNCHANGED <<settings, counter, log, held, staged>>

(* reset(device): the loop's failure path, supervision that replaces the    *)
(* tasks of a device, and a restart, which begins with no counters.         *)
AfterReset_kept(c) == c

AfterReset(c) == Zero

(* A poll that fails, is cancelled or dies; its transaction is rolled back, *)
(* or had reached the database although nobody heard of it.                 *)
Fail ==
    /\ \/ UNCHANGED rows
       \/ phase = "committing" /\ Saved
    /\ phase' = "idle"
    /\ counter' = [m \in Metrics |-> AfterReset(counter[m])]
    /\ Interrupted
    /\ UNCHANGED <<settings, held, staged>>

-----------------------------------------------------------------------------
(* PUT settings/hardware saves rules; PUT settings/thresholds saves rules   *)
(* and then clears every counter.  Bound: one such save at a time.          *)
SaveHardwareRules(r) ==
    /\ rule' = r
    /\ UNCHANGED <<clearing, counter, rows, log, poll>>

SaveThresholds(r) ==
    /\ ~clearing
    /\ rule' = r
    /\ clearing' = TRUE
    /\ UNCHANGED <<counter, rows, log, poll>>

ClearCounters ==
    /\ clearing
    /\ clearing' = FALSE
    /\ counter' = [m \in Metrics |-> Zero]
    /\ Interrupted
    /\ UNCHANGED <<rule, rows, poll>>

-----------------------------------------------------------------------------
Poll == ReadRules \/ (\E sample \in Samples : Evaluate(sample)) \/ Commit

Settings ==
    \/ \E r \in [Metrics -> Rules] : SaveHardwareRules(r) \/ SaveThresholds(r)
    \/ ClearCounters

Next == Poll \/ Fail \/ Settings

Spec == Init /\ [][Next]_vars

FairSpec == Spec /\ WF_vars(Poll)

-----------------------------------------------------------------------------
All(l, S) == \A i \in 1..Needed : l[i] \in S

(* What the engine holds to be the state of the metric: while a poll        *)
(* commits, what it is about to store.                                      *)
Judged(m) == IF phase = "committing" THEN staged[m].alert ELSE alert[m]

(* Three bad samples in a row leave an open incident, three critical ones a *)
(* critical incident and three good ones none, whatever failed, was rolled  *)
(* back or was reconfigured before them (MONITORING.md: "Incidents open     *)
(* after three bad samples and resolve after three healthy samples").       *)
StreaksDecide ==
    \A m \in Metrics :
        /\ All(log[m], Bad) => Judged(m) # "none"
        /\ All(log[m], {"critical"}) => Judged(m) = "critical"
        /\ All(log[m], {"good"}) => Judged(m) = "none"

(* An incident opens, escalates and resolves only on three samples in a row *)
(* that call for it: missing telemetry, disabled rules, failed polls and    *)
(* cleared counters never stand for a sample, and nothing else changes it.  *)
Warranted(from, to, l) ==
    \/ from = to
    \/ from = "none" /\ to = "warning" /\ All(l, Bad)
    \/ from # "critical" /\ to = "critical" /\ All(l, {"critical"})
    \/ from # "none" /\ to = "none" /\ All(l, {"good"})

ChangesOnEvidence ==
    [][ \A m \in Metrics :
          /\ phase' = "committing" /\ phase # "committing"
               => Warranted(alert[m], staged'[m].alert, log'[m])
          /\ alert'[m] # alert[m] => alert'[m] = Judged(m) ]_vars

(* Whoever replays the events (open, escalate, resolve) knows the incidents:*)
(* no change without its event, no event without its change, through polls  *)
(* that roll back and polls whose commit went unheard.                      *)
EventsTellAlerts == told = alert

(* A metric that is bad in every sample from some time on gets an incident, *)
(* when polls stop failing and settings stop changing.                      *)
CountsBad(m) ==
    \/ ReadRules
    \/ \E sample \in Samples : Evaluate(sample) /\ Judge(m, sample[m]) \in Bad
    \/ Commit

PersistentBadReported ==
    \A m \in Metrics : <>[][CountsBad(m)]_vars => <>[](alert[m] # "none")
=============================================================================
