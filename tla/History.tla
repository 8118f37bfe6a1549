------------------------------ MODULE History -------------------------------
(***************************************************************************)
(* The performance history of a device (PerformanceHistory.tsx) with its   *)
(* recorded events (HistoryEvents.tsx).  The page asks for the selected    *)
(* source, metric and range, again every fifteen seconds and on retry, and *)
(* keeps an answer while it belongs to what is selected.  A link from an   *)
(* incident opens it on a fixed interval and on a metric that may no       *)
(* longer be offered.                                                      *)
(* An answer is represented by the interval it was asked for: fixed, or    *)
(* ending when it was asked.                                               *)
(***************************************************************************)
EXTENDS Integers, Sequences, FiniteSets

CONSTANTS HiRanges,   \* time ranges offered
          HiDefault,  \* the one the page opens with
          HiOffered,  \* for each source, the sequences of metrics it may offer, as time goes by
          HiLinked,   \* the metric of an incident link
          MaxNow,     \* bound: ticks of the clock
          MaxStale    \* bound: unanswered requests of each kind

VARIABLES hiOpen,    \* source, metric and range selected; fixed, the interval of the link
          hiGrown,   \* how far each source's metrics have grown
          hiResult,  \* the last answer kept
          hiLoads,   \* requests for measurements not applied yet
          hiLoading, hiError,
          hiEvents,  \* the interval of the events listed
          hiEvLoads, \* requests for events not applied yet
          hiNow

hiVars == <<hiOpen, hiGrown, hiResult, hiLoads, hiLoading, hiError, hiEvents, hiEvLoads, hiNow>>

HiSources == DOMAIN HiOffered
HiMetrics == {HiLinked, ""} \cup UNION {UNION {{HiOffered[s][i][j] : j \in DOMAIN HiOffered[s][i]} : i \in DOMAIN HiOffered[s]} : s \in HiSources}

Definitions(open, grown) == HiOffered[open.source][grown[open.source]]

\* The metric a selection stands for: a linked one need not be offered (of the
\* system; SMART is alike).
MetricKey(open, grown) ==
  LET offered == Definitions(open, grown)
      linked == open.fixed /\ open.source = "system"
  IN IF open.metric # "" /\ (linked \/ \E i \in DOMAIN offered : offered[i] = open.metric) THEN open.metric
     ELSE IF offered = <<>> THEN "" ELSE offered[1]

RequestKey(open, grown) == <<open.source, MetricKey(open, grown), open.range>>

HiNone == [key |-> <<"", "", 0>>, fixed |-> FALSE, at |-> 0]
Asked(open, grown) == [key |-> RequestKey(open, grown), fixed |-> open.fixed, at |-> IF open.fixed THEN 0 ELSE hiNow, live |-> TRUE]
AsResult(l) == [key |-> l.key, fixed |-> l.fixed, at |-> l.at]

\* data: the answer kept, if it is of what is selected.
Shown == IF hiResult.key = RequestKey(hiOpen, hiGrown) THEN hiResult ELSE HiNone

\* dataStart and dataEnd: those of the answer, else of the link, else of when the page opened.
Interval(open, result) == IF result # HiNone THEN <<result.key[3], result.fixed, result.at>> ELSE <<open.range, open.fixed, 0>>

NoEvents == <<0, FALSE, 0>>

\* The events' effect, run when the interval changes.
Relist(open, result) ==
  IF Interval(open, result) = Interval(hiOpen, hiResult) THEN UNCHANGED <<hiEvents, hiEvLoads>>
  ELSE /\ hiEvents' = NoEvents
       /\ hiEvLoads' = {[l EXCEPT !.live = FALSE] : l \in hiEvLoads} \cup {[interval |-> Interval(open, result), live |-> TRUE]}

KeptResult(key) == IF hiResult.key = key THEN hiResult ELSE HiNone

\* The measurements' effect: what it asked for before is disowned.
Reask(open, grown) ==
  LET key == RequestKey(open, grown)
  IN /\ hiResult' = KeptResult(key)
     /\ hiError' = (hiError /\ key = RequestKey(hiOpen, hiGrown))
     /\ hiLoading' = (key[2] # "")
     /\ hiLoads' = {[l EXCEPT !.live = FALSE] : l \in hiLoads} \cup (IF key[2] = "" THEN {} ELSE {Asked(open, grown)})
     /\ Relist(open, KeptResult(key))

HistoryInit ==
  /\ hiNow = 0
  /\ hiGrown = [s \in HiSources |-> 1]
  /\ hiOpen \in {[source |-> "system", metric |-> "gpu.util_pct", range |-> HiDefault, fixed |-> FALSE],
                 [source |-> "system", metric |-> HiLinked, range |-> HiDefault, fixed |-> TRUE]}
  /\ hiResult = HiNone
  /\ hiLoads = {Asked(hiOpen, hiGrown)}
  /\ hiLoading = TRUE /\ hiError = FALSE
  /\ hiEvents = NoEvents
  /\ hiEvLoads = {[interval |-> Interval(hiOpen, HiNone), live |-> TRUE]}

HiBounded == Cardinality(hiLoads) < MaxStale /\ Cardinality(hiEvLoads) < MaxStale

-----------------------------------------------------------------------------
\* A choice of the user: the effect depends on everything it changes.
Choose(open) ==
  /\ HiBounded /\ open # hiOpen
  /\ hiOpen' = open
  /\ Reask(open, hiGrown)
  /\ UNCHANGED <<hiGrown, hiNow>>

ChooseSource(s) == s # hiOpen.source /\ Choose([hiOpen EXCEPT !.source = s, !.metric = ""])

ChooseMetric(m) ==
  /\ m = MetricKey(hiOpen, hiGrown) \/ \E i \in DOMAIN Definitions(hiOpen, hiGrown) : Definitions(hiOpen, hiGrown)[i] = m
  /\ m # "" /\ Choose([hiOpen EXCEPT !.metric = m])

ChooseRange(r) == r # hiOpen.range /\ Choose([hiOpen EXCEPT !.range = r, !.fixed = FALSE])

\* The page shows "Loading history" and nothing else.
Spinner == MetricKey(hiOpen, hiGrown) # "" /\ Shown = HiNone /\ (hiLoading \/ ~hiError)

Retry ==
  /\ hiError /\ ~hiLoading /\ ~Spinner /\ HiBounded
  /\ MetricKey(hiOpen, hiGrown) # ""
  /\ Reask(hiOpen, hiGrown)
  /\ UNCHANGED <<hiOpen, hiGrown, hiNow>>

\* The live view lists a metric the source has begun to report: it may
\* become the one selected.
Observed(s) ==
  LET grown == [hiGrown EXCEPT ![s] = @ + 1]
  IN /\ hiGrown[s] < Len(HiOffered[s]) /\ HiBounded
     /\ hiGrown' = grown
     /\ IF RequestKey(hiOpen, grown) = RequestKey(hiOpen, hiGrown)
        THEN UNCHANGED <<hiResult, hiLoads, hiLoading, hiError, hiEvents, hiEvLoads>>
        ELSE Reask(hiOpen, grown)
     /\ UNCHANGED <<hiOpen, hiNow>>

\* The interval timer: nothing while a request of this effect is running.
Refresh ==
  /\ MetricKey(hiOpen, hiGrown) # "" /\ Cardinality(hiLoads) < MaxStale
  /\ \A l \in hiLoads : ~l.live
  /\ hiLoads' = hiLoads \cup {Asked(hiOpen, hiGrown)}
  /\ UNCHANGED <<hiOpen, hiGrown, hiResult, hiLoading, hiError, hiEvents, hiEvLoads, hiNow>>

Measured(l) ==
  /\ l \in hiLoads /\ Cardinality(hiEvLoads) < MaxStale
  /\ hiLoads' = hiLoads \ {l}
  /\ IF l.live THEN hiResult' = AsResult(l) /\ hiError' = FALSE /\ hiLoading' = FALSE /\ Relist(hiOpen, AsResult(l))
     ELSE UNCHANGED <<hiResult, hiLoading, hiError, hiEvents, hiEvLoads>>
  /\ UNCHANGED <<hiOpen, hiGrown, hiNow>>

NotMeasured(l) ==
  /\ l \in hiLoads
  /\ hiLoads' = hiLoads \ {l}
  /\ IF l.live THEN hiError' = TRUE /\ hiLoading' = FALSE ELSE UNCHANGED <<hiError, hiLoading>>
  /\ UNCHANGED <<hiOpen, hiGrown, hiResult, hiEvents, hiEvLoads, hiNow>>

\* Events are listed for whichever interval they were asked.
Listing_any(l) ==
  /\ l \in hiEvLoads
  /\ hiEvLoads' = hiEvLoads \ {l}
  /\ hiEvents' = l.interval
  /\ UNCHANGED <<hiOpen, hiGrown, hiResult, hiLoads, hiLoading, hiError, hiNow>>

\* The events arrive, or the request fails and the list stays empty.
Listing(l) ==
  /\ l \in hiEvLoads
  /\ hiEvLoads' = hiEvLoads \ {l}
  /\ hiEvents' \in {hiEvents} \cup (IF l.live THEN {l.interval} ELSE {})
  /\ UNCHANGED <<hiOpen, hiGrown, hiResult, hiLoads, hiLoading, hiError, hiNow>>

HiTick == hiNow < MaxNow /\ hiNow' = hiNow + 1
            /\ UNCHANGED <<hiOpen, hiGrown, hiResult, hiLoads, hiLoading, hiError, hiEvents, hiEvLoads>>

HistoryNext ==
  \/ \E s \in HiSources : ChooseSource(s) \/ Observed(s)
  \/ \E m \in HiMetrics : ChooseMetric(m)
  \/ \E r \in HiRanges : ChooseRange(r)
  \/ Retry \/ Refresh \/ HiTick
  \/ \E l \in hiLoads : Measured(l) \/ NotMeasured(l)
  \/ \E l \in hiEvLoads : Listing(l)

-----------------------------------------------------------------------------

ChartIsSelected == Shown # HiNone => Shown.fixed = hiOpen.fixed

EventsMatchChart == hiEvents # NoEvents => hiEvents = Interval(hiOpen, hiResult)

SpinnerMeansWaiting == Spinner => \E l \in hiLoads : l.live /\ l.key = RequestKey(hiOpen, hiGrown)

(* What is charted belongs to what is selected: an answer for the fixed    *)
(* interval of a link is never charted as the recent range chosen since,   *)
(* nor the other way round; the events beside it are those of the charted  *)
(* interval; and "Loading history" is shown only while an answer is on its *)
(* way, never for a request nobody has made, or one that has failed.       *)
HistoryIsSelected == ChartIsSelected /\ EventsMatchChart /\ SpinnerMeansWaiting
=============================================================================
