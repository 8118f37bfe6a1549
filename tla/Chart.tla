------------------------------- MODULE Chart --------------------------------
(***************************************************************************)
(* The history chart (HistoryChart.tsx): how the points are split at gaps, *)
(* which point a pointer or a key inspects, and what becomes of that       *)
(* choice when the points are replaced by the next answer.                 *)
(* A point is represented by its time; all points of an answer have the    *)
(* same bucket width.                                                      *)
(***************************************************************************)
EXTENDS Integers, Sequences, FiniteSets, SequencesExt

CONSTANTS ChartTimes,   \* bound: the times points may have
          ChartBuckets, \* bucket widths of an answer
          Cadence       \* expectedCadenceSeconds

ASSUME ChartAssumption ==
  ChartTimes \subseteq Int /\ IsFiniteSet(ChartTimes) /\ ChartBuckets \subseteq Nat /\ Cadence \in Nat \ {0}

VARIABLES ctPoints,  \* the times of the points, in order
          ctBucket,  \* their bucket width
          ctInspect  \* the index inspected, or -1

ctVars == <<ctPoints, ctBucket, ctInspect>>

Answers == {p \in UNION {[1..n -> ChartTimes] : n \in 1..Cardinality(ChartTimes)} :
              \A i, j \in DOMAIN p : i < j => p[i] < p[j]}

Wider(a, b) == IF a > b THEN a ELSE b

\* A point is expected at the very end of its interval.
Broken_strict(before, after, bucket) == after - before >= Wider(bucket, Cadence)

\* Every point opens a segment when the one before lies too far back: more
\* than half as far again as the wider of the bucket and the cadence.
Broken(before, after, bucket) == 2 * (after - before) > 3 * Wider(bucket, Cadence)

Drawn(done, t, bucket) ==
  IF done = <<>> \/ Broken(Last(Last(done)), t, bucket) THEN Append(done, <<t>>)
  ELSE [done EXCEPT ![Len(done)] = Append(@, t)]

Segments(points, bucket) == FoldLeft(LAMBDA done, t : Drawn(done, t, bucket), <<>>, points)

\* selected: the index inspected, clamped to the points there are.
Selected == IF ctInspect > Len(ctPoints) - 1 THEN Len(ctPoints) - 1 ELSE ctInspect

\* The slider's value, as announced.
ValueNow == (IF Selected < 0 THEN Len(ctPoints) - 1 ELSE Selected) + 1

ChartInit ==
  /\ ctPoints \in Answers
  /\ ctBucket \in ChartBuckets
  /\ ctInspect = -1

\* The next answer: the choice is dropped when the interval moves on, and
\* kept when the interval is fixed, whose points may have been rolled up.
NextAnswer ==
  /\ ctPoints' \in Answers
  /\ ctBucket' \in ChartBuckets
  /\ ctInspect' \in {-1, ctInspect}

Inspects(i) == ctInspect' = i /\ UNCHANGED <<ctPoints, ctBucket>>

\* Focus: the choice there is, else the last point.
FocusChart == Inspects(IF ctInspect < 0 THEN Len(ctPoints) - 1 ELSE ctInspect)

\* The point of the pointer: the first of the nearest ones.
Away(i, t) == IF ctPoints[i] < t THEN t - ctPoints[i] ELSE ctPoints[i] - t
Nearest(t) == CHOOSE i \in DOMAIN ctPoints :
                /\ \A j \in DOMAIN ctPoints : Away(i, t) <= Away(j, t)
                /\ \A j \in 1..(i - 1) : Away(j, t) > Away(i, t)
PointChart(t) == Inspects(Nearest(t) - 1)

PressKey(key) ==
  LET current == ValueNow - 1
      last == Len(ctPoints) - 1
  IN Inspects(CASE key = "Home" -> 0
                [] key = "End" -> last
                [] key = "Left" -> (IF current = 0 THEN 0 ELSE current - 1)
                [] key = "Right" -> (IF current >= last THEN last ELSE current + 1))

ChartNext ==
  \/ NextAnswer \/ FocusChart
  \/ \E t \in ChartTimes : PointChart(t)
  \/ \E key \in {"Home", "End", "Left", "Right"} : PressKey(key)

-----------------------------------------------------------------------------

InspectedExists == ValueNow \in DOMAIN ctPoints /\ (Selected >= 0 => Selected + 1 \in DOMAIN ctPoints)

GapsSplit ==
  LET drawn == Segments(ctPoints, ctBucket)
      joined == UNION {{<<drawn[i][j], drawn[i][j + 1]>> : j \in 1..(Len(drawn[i]) - 1)} : i \in DOMAIN drawn}
      interval == IF ctBucket > Cadence THEN ctBucket ELSE Cadence
  IN /\ FlattenSeq(drawn) = ctPoints
     /\ \A i \in 1..(Len(ctPoints) - 1) :
          LET gap == ctPoints[i + 1] - ctPoints[i]
              bridged == <<ctPoints[i], ctPoints[i + 1]>> \in joined
          IN (gap <= interval => bridged) /\ (bridged => gap < 2 * interval)

(* What is drawn is the answer there is: the point announced as inspected  *)
(* is one of its points, whatever answer has replaced the one it was       *)
(* chosen in; the line passes every point once and in order; and it is     *)
(* interrupted where samples are missing: neighbours that follow each      *)
(* other within an interval are always joined, and a gap in which a whole  *)
(* interval went by without a sample (two from point to point) never is.   *)
(* In between, a late sample is not taken for a missing one up to one and  *)
(* a half intervals.                                                       *)
ChartIsAnswer == InspectedExists /\ GapsSplit
=============================================================================
