------------------------------ MODULE Samples -------------------------------
(***************************************************************************)
(* The live readings the monitor keeps of a device in the browser          *)
(* (LiveMonitor.tsx): every change of the live list may add a reading, old *)
(* ones are dropped.                                                       *)
(* Times are scaled: see the constants.                                    *)
(***************************************************************************)
EXTENDS Integers, Sequences, SequencesExt

CONSTANTS SaKeep,    \* how long readings are kept (300 seconds in the code)
          SaFresh,   \* how old the last sample of a reporting device is at most (20)
          SaMax,     \* how many readings are kept (180)
          SaHorizon  \* bound: the clock

ASSUME SamplesAssumption == SaMax \in Nat \ {0}

VARIABLES saNow,     \* the browser's clock
          saRow,     \* the device as the live list gives it
          saReadings \* the times of the readings kept

saVars == <<saNow, saRow, saReadings>>

SaRows == [seen : 0..SaHorizon, paused : BOOLEAN, stale : BOOLEAN, offline : BOOLEAN]

\* fresh: the device is reporting; a device never seen has no last sample.
Fresh(row) == ~row.paused /\ ~row.stale /\ ~row.offline /\ row.seen > 0 /\ saNow - row.seen <= SaFresh

\* A reading is added for every update of the list.
Reading_any(row, kept) == IF Fresh(row) THEN Append(kept, row.seen) ELSE kept

\* A reading is added when the device has been seen again since the last one.
Reading(row, kept) == IF Fresh(row) /\ (kept = <<>> \/ row.seen > Last(kept)) THEN Append(kept, row.seen) ELSE kept

Newest(seq) == IF Len(seq) <= SaMax THEN seq ELSE SubSeq(seq, Len(seq) - SaMax + 1, Len(seq))

\* The readings before, without the old ones.
Aged(kept, t) == IF t >= saNow - SaKeep THEN Append(kept, t) ELSE kept

Readings(row) == Newest(Reading(row, FoldLeft(Aged, <<>>, saReadings)))

SamplesInit ==
  /\ saNow = 0
  /\ saRow = [seen |-> 0, paused |-> FALSE, stale |-> FALSE, offline |-> TRUE]
  /\ saReadings = <<>>

\* The list changes: a new sample, a flag, or, after a late reload, an older row.
\* last_seen is the server's clock, which may be ahead of the page's.
RowListed(row) ==
  /\ saRow' = row
  /\ saReadings' = Readings(row)
  /\ saNow' = saNow

SaTick == saNow < SaHorizon /\ saNow' = saNow + 1 /\ UNCHANGED <<saRow, saReadings>>

\* The device leaves the list, and its readings with it.
RowGone == saReadings' = <<>> /\ UNCHANGED <<saNow, saRow>>

SamplesNext == SaTick \/ RowGone \/ \E row \in SaRows : RowListed(row)

-----------------------------------------------------------------------------

(* Readings are in order and each stands once, even when the live list     *)
(* repeats a row or goes back to an older one: a chart never folds back.   *)
ReadingsInOrder == \A i \in 1..(Len(saReadings) - 1) : saReadings[i] < saReadings[i + 1]
=============================================================================
