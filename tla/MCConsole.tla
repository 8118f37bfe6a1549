------------------------------ MODULE MCConsole ------------------------------
(***************************************************************************)
(* The screens of the console, side by side.  The browser shows one of     *)
(* them at a time and they share no state, so a behaviour follows one      *)
(* screen from the moment it opens; the others stay as they open.          *)
(***************************************************************************)
EXTENDS Policy, Channels, Preferences, History, Chart, Samples, Monitor

VARIABLE screen

Screens == {"policy", "channels", "preferences", "history", "chart", "samples", "monitor"}

Fitted == [g \in {"g1", "g2"} |-> IF g = "g1" THEN "d1" ELSE "d2"]
Offered == [system |-> << <<"gpu.util_pct">> >>, svc |-> << <<>>, <<"queue">> >>]
Grouped == [d \in 1..3 |-> IF d = 1 THEN "a" ELSE "b"]

\* A screen that is not shown opens in one way only.
Init ==
  /\ screen \in Screens
  /\ PolicyInit /\ (screen # "policy" => hwStored = EmptyPolicy)
  /\ ChannelsInit /\ PreferencesInit /\ SamplesInit
  /\ HistoryInit /\ (screen # "history" => ~hiOpen.fixed)
  /\ ChartInit /\ (screen # "chart" => ctPoints = <<0>> /\ ctBucket = Cadence)
  /\ MonitorInit /\ (screen # "monitor" => ~moView.tv /\ ~moLink)

Next ==
  \/ screen = "policy" /\ PolicyNext /\ UNCHANGED <<screen, chVars, prVars, hiVars, ctVars, saVars, moVars>>
  \/ screen = "channels" /\ ChannelsNext /\ UNCHANGED <<screen, hwVars, prVars, hiVars, ctVars, saVars, moVars>>
  \/ screen = "preferences" /\ PreferencesNext /\ UNCHANGED <<screen, hwVars, chVars, hiVars, ctVars, saVars, moVars>>
  \/ screen = "history" /\ HistoryNext /\ UNCHANGED <<screen, hwVars, chVars, prVars, ctVars, saVars, moVars>>
  \/ screen = "chart" /\ ChartNext /\ UNCHANGED <<screen, hwVars, chVars, prVars, hiVars, saVars, moVars>>
  \/ screen = "samples" /\ SamplesNext /\ UNCHANGED <<screen, hwVars, chVars, prVars, hiVars, ctVars, moVars>>
  \/ screen = "monitor" /\ MonitorNext /\ UNCHANGED <<screen, hwVars, chVars, prVars, hiVars, ctVars, saVars>>

vars == <<screen, hwVars, chVars, prVars, hiVars, ctVars, saVars, moVars>>

Spec == Init /\ [][Next]_vars /\ MonitorFairness

\* Bound: while there is a maintenance window, the channel form is empty and one
\* request for the list at most is unanswered.
WindowsAlone == chWindow # "none" => chForm = Blank /\ Cardinality(chPolls) <= 1

=============================================================================
