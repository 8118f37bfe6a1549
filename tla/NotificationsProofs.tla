------------------------- MODULE NotificationsProofs -------------------------
(* What the notification queue guarantees for every number of events,       *)
(* channels, windows and devices, every cap and every limit.                *)
EXTENDS Notifications, TLAPS

LEMMA UnreadType == Unread \in View
<1>1. Unread.channel \in [Channels -> ChannelRow]
  BY BoundsAssumption DEF Unread, ChannelRow, Times
<1>2. Unread.window \in [Windows -> WindowRow]
  BY DEF Unread, WindowRow, NoWindow
<1>. QED
  BY <1>1, <1>2 DEF Unread, View

LEMMA InitTypes == Init => TypeOK
<1>. SUFFICES ASSUME Init PROVE TypeOK
  OBVIOUS
<1>. USE BoundsAssumption DEF Init
<1>1. ConfigOK
  BY UnreadType DEF ConfigOK, View, Times
<1>2. FleetOK
  BY DEF FleetOK, None
<1>3. OutboxOK
  BY DEF OutboxOK
<1>4. ProgressOK
  <2>1. now \in Times
    BY DEF Times
  <2>2. phase \in Phases
    BY DEF Phases
  <2>. QED
    BY <2>1, <2>2, UnreadType, Zenon DEF ProgressOK
<1>. QED
  BY <1>1, <1>2, <1>3, <1>4 DEF TypeOK

(* The rows an administrator edits, and the clock. *)
LEMMA ConfigTypes == TypeOK /\ [Next]_vars => ConfigOK'
<1>. SUFFICES ASSUME ConfigOK, ProgressOK, [Next]_vars PROVE ConfigOK'
  BY DEF TypeOK
<1>. USE BoundsAssumption DEF ConfigOK
<1>1. CASE UNCHANGED <<clock, config>>
  BY <1>1 DEF config
<1>2. CASE Advance
  BY <1>2 DEF Advance, config, Times
<1>3. ASSUME NEW c \in Channels, NEW s \in {"enabled", "disabled"}, SaveChannel(c, s) PROVE ConfigOK'
  BY <1>3 DEF SaveChannel, ChannelRow
<1>4. ASSUME NEW c \in Channels, DeleteChannel(c) PROVE ConfigOK'
  BY <1>4 DEF DeleteChannel, ChannelRow
<1>5. ASSUME NEW w \in Windows, NEW s \in Times, NEW e \in Times, NEW scope \in Scopes,
             AddWindow(w, s, e, scope)
      PROVE ConfigOK'
  BY <1>5 DEF AddWindow, WindowRow
<1>6. ASSUME NEW w \in Windows, EndWindow(w) PROVE ConfigOK'
  BY <1>6 DEF EndWindow, WindowRow, Saved, Earlier, Times
<1>7. ASSUME NEW d \in Devices, NEW g \in Groups, Regroup(d, g) PROVE ConfigOK'
  BY <1>7 DEF Regroup
<1>8. CASE Ingest
  BY <1>8 DEF Ingest, Ending, Saved, Seen, WindowRow
<1>. QED
  BY <1>1, <1>2, <1>3, <1>4, <1>5, <1>6, <1>7, <1>8
  DEF Next, Tick, Alarms, Administration, vars, BeginTick, SelectDue, Send, Record, EndTick, Abort, Rest,
      CancelDelivery, ExhaustDelivery, SuppressDelivery, ClaimDelivery, Drop, TestChannel, Purge,
      OpenAlarm, EscalateAlarm, ResolveAlarm, OtherEvent, RaiseEvent

(* The alarm engine's rows. *)
LEMMA FleetTypes == TypeOK /\ [Next]_vars => FleetOK'
<1>. SUFFICES ASSUME ConfigOK, FleetOK, ProgressOK, [Next]_vars PROVE FleetOK'
  BY DEF TypeOK
<1>. USE BoundsAssumption DEF FleetOK
<1>1. CASE UNCHANGED fleet
  BY <1>1 DEF fleet
<1>2. ASSUME NEW e \in Events, NEW d \in Devices, NEW k \in Kinds, RaiseEvent(e, d, k)
      PROVE event' \in [Events -> EventRow \cup {NoEvent}]
  BY <1>2 DEF RaiseEvent, EventRow, Times
<1>3. ASSUME NEW e \in Events, NEW d \in Devices,
             OpenAlarm(e, d) \/ EscalateAlarm(e, d) \/ ResolveAlarm(e, d) \/ OtherEvent(e, d)
      PROVE FleetOK'
  <2>1. event' \in [Events -> EventRow \cup {NoEvent}]
    BY <1>2, <1>3 DEF OpenAlarm, EscalateAlarm, ResolveAlarm, OtherEvent, Kinds, AlarmKinds
  <2>2. alarm' \in [Devices -> Events \cup {None}]
    BY <1>3 DEF OpenAlarm, EscalateAlarm, ResolveAlarm, OtherEvent
  <2>. QED
    BY <2>1, <2>2
<1>4. CASE Ingest
  <2>1. PICK E \in SUBSET Unprocessed :
           event' = [e \in Events |->
              IF e \in E THEN [event[e] EXCEPT !.processed = TRUE, !.by = now] ELSE event[e]]
    BY <1>4 DEF Ingest
  <2>2. ASSUME NEW e \in E PROVE [event[e] EXCEPT !.processed = TRUE, !.by = now] \in EventRow
    BY DEF Unprocessed, Raised, EventRow, ProgressOK
  <2>3. event' \in [Events -> EventRow \cup {NoEvent}]
    BY <2>1, <2>2
  <2>. QED
    BY <1>4, <2>3 DEF Ingest
<1>. QED
  BY <1>1, <1>3, <1>4
  DEF Next, Tick, Alarms, Administration, vars, BeginTick, SelectDue, Send, Record, EndTick, Abort, Rest,
      CancelDelivery, ExhaustDelivery, SuppressDelivery, ClaimDelivery, Drop, TestChannel, Purge,
      Advance, SaveChannel, DeleteChannel, AddWindow, EndWindow, Regroup

(* tick's own variables. *)
LEMMA ProgressTypes == TypeOK /\ [Next]_vars => ProgressOK'
<1>. SUFFICES ASSUME ConfigOK, ProgressOK, [Next]_vars PROVE ProgressOK'
  BY DEF TypeOK
<1>. USE BoundsAssumption DEF ProgressOK
<1>1. CASE UNCHANGED progress
  BY <1>1 DEF progress
<1>2. CASE BeginTick
  <2>1. [channel |-> channel, window |-> window] \in View
    BY DEF ConfigOK, View
  <2>. QED
    BY <1>2, <2>1, UnreadType DEF BeginTick, ConfigOK, Phases
<1>3. CASE Ingest
  BY <1>3, UnreadType DEF Ingest, Phases
<1>4. CASE SelectDue
  BY <1>4 DEF SelectDue, Due, Phases
<1>5. ASSUME NEW r \in Rows, NEW s, Drop(r, s) PROVE ProgressOK'
  BY <1>5 DEF Drop
<1>6. ASSUME NEW r \in Rows, ClaimDelivery(r) PROVE ProgressOK'
  BY <1>6 DEF ClaimDelivery, Phases
<1>7. CASE Send
  BY <1>7 DEF Send, Phases
<1>8. CASE Record
  BY <1>8 DEF Record, Phases
<1>9. CASE Rest
  <2>1. now' \in Times
    BY <1>9 DEF Rest, Times
  <2>2. phase' \in Phases
    BY <1>9 DEF Rest, Phases
  <2>3. UNCHANGED Rows /\ UNCHANGED View
    OBVIOUS
  <2>4. /\ view' \in View
        /\ due' \subseteq Rows
        /\ current' \in Rows \cup {<<>>}
        /\ accepted' \in BOOLEAN
    BY <1>9, UnreadType, Zenon DEF Rest
  <2>. QED
    BY <2>1, <2>2, <2>4
<1>. QED
  BY <1>1, <1>2, <1>3, <1>4, <1>5, <1>6, <1>7, <1>8, <1>9
  DEF Next, Tick, Alarms, Administration, vars, EndTick, Abort, Purge, TestChannel,
      CancelDelivery, ExhaustDelivery, SuppressDelivery, Advance, SaveChannel, DeleteChannel,
      AddWindow, EndWindow, Regroup, OpenAlarm, EscalateAlarm, ResolveAlarm, OtherEvent, RaiseEvent

-----------------------------------------------------------------------------
(* The inductive invariant.  AttemptsPaidFor is not inductive alone: the    *)
(* row a tick is sending must be pending and its attempt unused, and a row  *)
(* about to be created must never have existed.                             *)

DuePending == \A r \in due : Exists(r) /\ Pending(r)

InFlight ==
    /\ phase \in {"send", "record"} => current \in due /\ posts[current] <= delivery[current].attempts
    /\ phase = "send" => posts[current] < delivery[current].attempts
    /\ phase = "record" /\ accepted => posts[current] > 0

Fresh(r) == delivery[r] = NoDelivery /\ archive[r] = NoDelivery

FreshUnposted == \A r \in Rows : Fresh(r) => posts[r] = 0

EventsFresh ==
    \A e \in Events, c \in Channels : ~(Raised(e) /\ event[e].processed) => Fresh(<<e, c>>)

Unsummarized(w) == w.state = "none" \/ (Saved(w) /\ ~w.summarized)

WindowsFresh ==
    \A w \in Windows, c \in Channels : Unsummarized(window[w]) => Fresh(<<w, c>>)

(* What tick has read of the windows may be old, but only tick summarises.  *)
ViewFresh ==
    phase = "ingest" =>
        \A w \in Windows, c \in Channels :
            Saved(view.window[w]) /\ ~view.window[w].summarized => Fresh(<<w, c>>)

(* A window tick has read is never unknown again. *)
ViewKnown ==
    phase = "ingest" => \A w \in Windows : Saved(view.window[w]) => window[w].state # "none"

IInv ==
    /\ TypeOK
    /\ DuePending /\ InFlight
    /\ AttemptsPaidFor
    /\ FreshUnposted /\ EventsFresh /\ WindowsFresh /\ ViewFresh /\ ViewKnown

LEMMA InitIInv == Init => IInv
<1>. SUFFICES ASSUME Init PROVE IInv
  OBVIOUS
<1>1. TypeOK
  BY InitTypes
<1>2. \A r \in Rows : ~Exists(r) /\ Fresh(r) /\ posts[r] = 0
  BY DEF Init, Exists, Fresh
<1>3. DuePending /\ InFlight /\ ViewFresh /\ ViewKnown
  BY DEF Init, DuePending, InFlight, ViewFresh, ViewKnown
<1>4. AttemptsPaidFor /\ FreshUnposted
  BY <1>2 DEF AttemptsPaidFor, FreshUnposted
<1>5. EventsFresh /\ WindowsFresh
  BY <1>2 DEF EventsFresh, WindowsFresh, Rows, Keys
<1>. QED
  BY <1>1, <1>3, <1>4, <1>5 DEF IInv

(* What is outside the outbox: an administrator or the alarm engine may     *)
(* create an event or a window, never make a processed one fresh again.     *)
LEMMA OutsideIInv ==
    ASSUME IInv, UNCHANGED <<outbox, progress>>,
           Advance \/ Alarms \/ Administration \/ UNCHANGED vars
    PROVE  DuePending' /\ InFlight' /\ AttemptsPaidFor' /\ FreshUnposted'
           /\ EventsFresh' /\ WindowsFresh' /\ ViewFresh' /\ ViewKnown'
<1>1. DuePending' /\ InFlight' /\ AttemptsPaidFor' /\ FreshUnposted' /\ ViewFresh'
  BY DEF IInv, DuePending, InFlight, AttemptsPaidFor, FreshUnposted, ViewFresh, outbox, progress,
         Exists, Pending, Fresh
<1>2. ASSUME NEW e \in Events, Raised(e), event[e].processed PROVE Raised(e)' /\ event'[e].processed
  <2>1. CASE UNCHANGED event
    BY <1>2, <2>1 DEF Raised
  <2>2. ASSUME NEW f \in Events, NEW d \in Devices, NEW k, RaiseEvent(f, d, k)
        PROVE Raised(e)' /\ event'[e].processed
    BY <1>2, <2>2 DEF RaiseEvent, Raised, IInv, TypeOK, FleetOK
  <2>. QED
    BY <2>1, <2>2 DEF Advance, Alarms, Administration, vars, fleet, SaveChannel, DeleteChannel, AddWindow,
       EndWindow, Regroup, TestChannel, OpenAlarm, EscalateAlarm, ResolveAlarm, OtherEvent
<1>3. EventsFresh'
  BY <1>2 DEF IInv, EventsFresh, Fresh, outbox
<1>4. ASSUME NEW w \in Windows, Unsummarized(window'[w]) PROVE Unsummarized(window[w])
  <2>1. CASE UNCHANGED window
    BY <1>4, <2>1
  <2>2. ASSUME NEW v \in Windows, NEW a, NEW b, NEW scope, AddWindow(v, a, b, scope)
        PROVE Unsummarized(window[w])
    BY <1>4, <2>2 DEF AddWindow, Unsummarized, NoWindow, Saved, IInv, TypeOK, ConfigOK
  <2>3. ASSUME NEW v \in Windows, EndWindow(v) PROVE Unsummarized(window[w])
    <3>1. CASE v = w /\ window[w].start <= clock
      <4>1. window[w] \in [state : {"saved"}, start : Times, end : Times, scope : Scopes, summarized : BOOLEAN]
        BY <2>3, <3>1 DEF EndWindow, Saved, IInv, TypeOK, ConfigOK, WindowRow
      <4>2. window'[w].summarized = window[w].summarized
        BY <2>3, <3>1, <4>1 DEF EndWindow, IInv, TypeOK, ConfigOK, Times
      <4>. QED
        BY <1>4, <2>3, <3>1, <4>1, <4>2 DEF EndWindow, Unsummarized, Saved, IInv, TypeOK, ConfigOK
    <3>2. CASE v = w /\ window[w].start > clock
      BY <1>4, <2>3, <3>2 DEF EndWindow, Unsummarized, Saved, IInv, TypeOK, ConfigOK
    <3>3. CASE v # w
      BY <1>4, <2>3, <3>3 DEF EndWindow, Unsummarized, Saved, IInv, TypeOK, ConfigOK
    <3>4. window[v].start \in Times /\ clock \in Times
      BY <2>3 DEF EndWindow, Saved, IInv, TypeOK, ConfigOK, WindowRow
    <3>. QED
      BY <3>1, <3>2, <3>3, <3>4 DEF Times
  <2>. QED
    BY <2>1, <2>2, <2>3 DEF Advance, Alarms, Administration, vars, config, SaveChannel, DeleteChannel,
       Regroup, TestChannel, OpenAlarm, EscalateAlarm, ResolveAlarm, OtherEvent, RaiseEvent
<1>5. WindowsFresh'
  BY <1>4 DEF IInv, WindowsFresh, Fresh, outbox
<1>6. ASSUME NEW w \in Windows, window'[w].state = "none" PROVE window[w].state = "none"
  <2>1. CASE UNCHANGED window
    BY <1>6, <2>1
  <2>2. ASSUME NEW v \in Windows, NEW a, NEW b, NEW scope, AddWindow(v, a, b, scope)
        PROVE window[w].state = "none"
    BY <1>6, <2>2 DEF AddWindow, IInv, TypeOK, ConfigOK
  <2>3. ASSUME NEW v \in Windows, EndWindow(v) PROVE window[w].state = "none"
    <3>1. CASE v = w
      <4>1. window[w] \in [state : {"saved"}, start : Times, end : Times, scope : Scopes, summarized : BOOLEAN]
        BY <2>3, <3>1 DEF EndWindow, Saved, IInv, TypeOK, ConfigOK, WindowRow
      <4>. QED
        BY <1>6, <2>3, <3>1, <4>1 DEF EndWindow, IInv, TypeOK, ConfigOK
    <3>2. CASE v # w
      BY <1>6, <2>3, <3>2 DEF EndWindow, IInv, TypeOK, ConfigOK
    <3>. QED
      BY <3>1, <3>2
  <2>. QED
    BY <2>1, <2>2, <2>3 DEF Advance, Alarms, Administration, vars, config, SaveChannel, DeleteChannel,
       Regroup, TestChannel, OpenAlarm, EscalateAlarm, ResolveAlarm, OtherEvent, RaiseEvent
<1>7. ViewKnown'
  BY <1>6 DEF IInv, ViewKnown, progress
<1>. QED
  BY <1>1, <1>3, <1>5, <1>7

(* The rows an ingestion creates are fresh: it only reads unprocessed       *)
(* events and unsummarised windows.                                         *)
LEMMA IngestedRows ==
    ASSUME IInv, phase = "ingest", NEW E \in SUBSET Unprocessed, NEW r \in Rows
    PROVE  /\ Exists(r) => Ingested(E)[r] = delivery[r]
           /\ Ingested(E)[r] # delivery[r] =>
                /\ Fresh(r)
                /\ r[1] \in E \/ (r[1] \in Windows /\ Ending(r[1]))
                /\ \E n \in LongAgo..Horizon, D \in SUBSET Devices : Ingested(E)[r] = NewRow(n, D)
<1>1. Exists(r) => Ingested(E)[r] = delivery[r]
  BY DEF Ingested
<1>2. ASSUME Ingested(E)[r] # delivery[r] PROVE ~Exists(r) /\ delivery[r] = NoDelivery
  BY <1>2 DEF Ingested, Exists
<1>3. PICK k \in Keys, c \in Channels : r = <<k, c>>
  BY DEF Rows
<1>4. LongAgo \in LongAgo..Horizon
  BY BoundsAssumption DEF LongAgo
<1>5. CASE r \in Announced(E) /\ Enabled(r[2], event[r[1]].ts)
  <2>1. r[1] \in E /\ r[1] \in Events
    BY <1>5 DEF Announced, Unprocessed
  <2>2. Fresh(r)
    BY <1>3, <2>1 DEF IInv, EventsFresh, Unprocessed
  <2>3. {event[r[1]].device} \in SUBSET Devices
    BY <2>1 DEF IInv, TypeOK, FleetOK, EventRow, Unprocessed, Raised
  <2>4. ~Exists(r) => Ingested(E)[r] = NewRow(LongAgo, {event[r[1]].device})
    BY <1>5 DEF Ingested
  <2>. QED
    BY <1>1, <1>2, <1>4, <2>1, <2>2, <2>3, <2>4
<1>6. CASE ~(r \in Announced(E) /\ Enabled(r[2], event[r[1]].ts)) /\ r[1] \in Windows /\ Ending(r[1])
  <2>1. Unsummarized(Seen.window[r[1]])
    BY <1>6 DEF Ending, Unsummarized
  <2>2. Fresh(r)
    <3>1. CASE StatementReads
      BY <1>3, <1>6, <3>1 DEF Ending, Seen, IInv, ViewFresh
    <3>2. CASE ~StatementReads
      BY <1>3, <1>6, <2>1, <3>2 DEF Seen, IInv, WindowsFresh
    <3>. QED
      BY <3>1, <3>2
  <2>3. Outstanding(r[1]) \in SUBSET Devices
    BY DEF Outstanding
  <2>4. ~Exists(r) => Ingested(E)[r] \in {NewRow(LongAgo, Outstanding(r[1])), NoDelivery}
    BY <1>6 DEF Ingested
  <2>. QED
    BY <1>1, <1>2, <1>4, <1>6, <2>2, <2>3, <2>4
<1>7. CASE ~(r \in Announced(E) /\ Enabled(r[2], event[r[1]].ts)) /\ ~(r[1] \in Windows /\ Ending(r[1]))
  BY <1>1, <1>2, <1>7 DEF Ingested
<1>. QED
  BY <1>1, <1>5, <1>6, <1>7

LEMMA NewRowType ==
    ASSUME NEW n \in LongAgo..Horizon, NEW D \in SUBSET Devices
    PROVE  NewRow(n, D) \in DeliveryRow /\ NewRow(n, D) # NoDelivery /\ NewRow(n, D).status = "pending"
           /\ NewRow(n, D).attempts = 0
  BY BoundsAssumption DEF NewRow, DeliveryRow, NoDelivery, None

LEMMA IngestIInv ==
    ASSUME IInv, Ingest
    PROVE  OutboxOK' /\ DuePending' /\ InFlight' /\ AttemptsPaidFor' /\ FreshUnposted'
           /\ EventsFresh' /\ WindowsFresh' /\ ViewFresh' /\ ViewKnown'
<1>1. PICK E \in SUBSET Unprocessed :
        /\ event' = [e \in Events |->
              IF e \in E THEN [event[e] EXCEPT !.processed = TRUE, !.by = now] ELSE event[e]]
        /\ delivery' = Ingested(E)
  BY DEF Ingest
<1>2. UNCHANGED <<archive, posts, due>> /\ phase = "ingest" /\ phase' = "select"
  BY DEF Ingest
<1>3. /\ delivery' = [r \in Rows |-> Ingested(E)[r]]
      /\ \A r \in Rows : delivery'[r] = Ingested(E)[r]
  BY <1>1 DEF Ingested
<1>4. OutboxOK'
  <2>1. ASSUME NEW r \in Rows PROVE Ingested(E)[r] \in DeliveryRow \cup {NoDelivery}
    BY <1>2, IngestedRows, NewRowType DEF IInv, TypeOK, OutboxOK
  <2>. QED
    <3>1. delivery' \in [Rows -> DeliveryRow \cup {NoDelivery}]
      BY <1>3, <2>1
    <3>. QED
      BY <1>2, <3>1 DEF OutboxOK, IInv, TypeOK
<1>5. DuePending'
  BY <1>2, <1>3, IngestedRows DEF IInv, DuePending, Exists, Pending, TypeOK, ProgressOK
<1>6. InFlight'
  BY <1>2 DEF InFlight
<1>7. AttemptsPaidFor'
  <2>. SUFFICES ASSUME NEW r \in Rows, Exists(r)'
                PROVE posts[r] <= delivery'[r].attempts /\ (delivery'[r].status = "sent" => posts[r] > 0)
    BY <1>2 DEF AttemptsPaidFor
  <2>1. CASE delivery'[r] = delivery[r]
    BY <2>1 DEF IInv, AttemptsPaidFor, Exists
  <2>2. CASE delivery'[r] # delivery[r]
    <3>1. posts[r] = 0
      BY <1>2, <1>3, <2>2, IngestedRows DEF IInv, FreshUnposted
    <3>2. delivery'[r].status = "pending" /\ delivery'[r].attempts = 0
      BY <1>2, <1>3, <2>2, IngestedRows, NewRowType
    <3>. QED
      BY <3>1, <3>2
  <2>. QED
    BY <2>1, <2>2
<1>8. ASSUME NEW r \in Rows, Fresh(r)' PROVE Fresh(r)
  BY <1>2, <1>3, <1>8, IngestedRows, NewRowType DEF Fresh
<1>9. FreshUnposted'
  BY <1>2, <1>8 DEF IInv, FreshUnposted
<1>10. EventsFresh'
  <2>. SUFFICES ASSUME NEW e \in Events, NEW c \in Channels, ~(Raised(e)' /\ event'[e].processed)
                PROVE Fresh(<<e, c>>)'
    BY DEF EventsFresh
  <2>1. e \notin E
    BY <1>1 DEF Unprocessed, Raised, NoEvent, None, IInv, TypeOK, FleetOK, EventRow
  <2>2. Fresh(<<e, c>>) /\ <<e, c>> \in Rows
    BY <1>1, <2>1 DEF IInv, EventsFresh, Raised, Rows, Keys
  <2>3. <<e, c>>[1] = e /\ e \notin Windows
    BY KeysAssumption
  <2>4. Ingested(E)[<<e, c>>] = delivery[<<e, c>>]
    BY <1>2, <2>1, <2>2, <2>3, IngestedRows
  <2>. QED
    BY <1>2, <1>3, <2>2, <2>4 DEF Fresh
<1>11. WindowsFresh'
  <2>. SUFFICES ASSUME NEW w \in Windows, NEW c \in Channels, Unsummarized(window'[w])
                PROVE Fresh(<<w, c>>)'
    BY DEF WindowsFresh
  <2>1. ~Ending(w) /\ window'[w] = window[w]
    <3>1. CASE Ending(w)
      <4>1. window'[w] = [window[w] EXCEPT !.summarized = TRUE]
        BY <3>1 DEF Ingest
      <4>2. window[w].state # "none"
        BY <1>2, <3>1 DEF Ending, Seen, Saved, IInv, ViewKnown
      <4>3. window'[w].state = window[w].state
        BY <4>1 DEF IInv, TypeOK, ConfigOK, WindowRow
      <4>4. CASE Saved(window[w])
        BY <4>1, <4>4 DEF Unsummarized, Saved, IInv, TypeOK, ConfigOK, WindowRow
      <4>5. CASE ~Saved(window[w])
        BY <4>2, <4>3, <4>5 DEF Unsummarized, Saved
      <4>. QED
        BY <4>4, <4>5
    <3>2. CASE ~Ending(w)
      BY <3>2 DEF Ingest
    <3>. QED
      BY <3>1, <3>2
  <2>2. Fresh(<<w, c>>) /\ <<w, c>> \in Rows
    BY <2>1 DEF IInv, WindowsFresh, Rows, Keys
  <2>3. <<w, c>>[1] = w /\ w \notin E
    BY KeysAssumption DEF Unprocessed
  <2>4. Ingested(E)[<<w, c>>] = delivery[<<w, c>>]
    BY <1>2, <2>1, <2>2, <2>3, IngestedRows
  <2>. QED
    BY <1>2, <1>3, <2>2, <2>4 DEF Fresh
<1>12. ViewFresh' /\ ViewKnown'
  BY <1>2 DEF ViewFresh, ViewKnown
<1>. QED
  BY <1>4, <1>5, <1>6, <1>7, <1>9, <1>10, <1>11, <1>12

(* The steps of tick that touch neither an event nor a window.              *)
LEMMA RowIInv ==
    ASSUME IInv, UNCHANGED <<event, window>>, view' \in {view, Unread}, phase' # "ingest",
           \A r \in Rows : Fresh(r)' <=> Fresh(r)
    PROVE  EventsFresh' /\ WindowsFresh' /\ ViewFresh' /\ ViewKnown'
<1>1. \A e \in Events, c \in Channels : <<e, c>> \in Rows
  BY DEF Rows, Keys
<1>2. \A w \in Windows, c \in Channels : <<w, c>> \in Rows
  BY DEF Rows, Keys
<1>3. EventsFresh'
  BY <1>1 DEF IInv, EventsFresh, Raised
<1>4. WindowsFresh'
  BY <1>2 DEF IInv, WindowsFresh
<1>. QED
  BY <1>3, <1>4 DEF ViewFresh, ViewKnown

LEMMA BeginTickIInv ==
    ASSUME IInv, BeginTick
    PROVE  DuePending' /\ InFlight' /\ AttemptsPaidFor' /\ FreshUnposted'
           /\ EventsFresh' /\ WindowsFresh' /\ ViewFresh' /\ ViewKnown'
<1>. USE DEF IInv, BeginTick, config, fleet, outbox
<1>1. DuePending' /\ InFlight' /\ AttemptsPaidFor' /\ FreshUnposted'
  BY DEF DuePending, InFlight, AttemptsPaidFor, FreshUnposted, Exists, Pending, Fresh
<1>2. EventsFresh' /\ WindowsFresh'
  BY DEF EventsFresh, WindowsFresh, Fresh, Raised
<1>3. CASE StatementReads
  <2>1. view'.window = window
    BY <1>3
  <2>2. ViewKnown'
    BY <2>1 DEF ViewKnown, Saved
  <2>3. ViewFresh'
    BY <2>1 DEF ViewFresh, WindowsFresh, Unsummarized, Saved, Fresh
  <2>. QED
    BY <1>1, <1>2, <2>2, <2>3
<1>4. CASE ~StatementReads
  <2>1. \A w \in Windows : Unread.window[w].state = "none"
    BY DEF Unread, NoWindow
  <2>2. \A w \in Windows : ~Saved(view'.window[w])
    BY <1>4, <2>1 DEF Saved
  <2>3. ViewKnown' /\ ViewFresh'
    BY <2>2 DEF ViewKnown, ViewFresh, Saved
  <2>. QED
    BY <1>1, <1>2, <2>3
<1>. QED
  BY <1>3, <1>4

LEMMA SelectDueIInv ==
    ASSUME IInv, SelectDue
    PROVE  DuePending' /\ InFlight' /\ AttemptsPaidFor' /\ FreshUnposted'
           /\ EventsFresh' /\ WindowsFresh' /\ ViewFresh' /\ ViewKnown'
<1>. USE DEF SelectDue, config, fleet, outbox
<1>1. DuePending'
  BY DEF DuePending, Due, Exists, Pending
<1>2. InFlight' /\ AttemptsPaidFor' /\ FreshUnposted'
  BY DEF IInv, InFlight, AttemptsPaidFor, FreshUnposted, Exists, Fresh
<1>. QED
  BY <1>1, <1>2, RowIInv DEF Fresh

(* Due rows exist, and what is not in the queue keeps its place there.      *)
LEMMA DropIInv ==
    ASSUME IInv, NEW r \in Rows, NEW s \in {"cancelled", "failed", "suppressed"}, Head(r), Drop(r, s)
    PROVE  OutboxOK' /\ DuePending' /\ InFlight' /\ AttemptsPaidFor' /\ FreshUnposted'
           /\ EventsFresh' /\ WindowsFresh' /\ ViewFresh' /\ ViewKnown'
<1>1. delivery[r] \in DeliveryRow /\ Pending(r)
  BY DEF Head, IInv, DuePending, Exists, TypeOK, OutboxOK
<1>2. /\ delivery' = [delivery EXCEPT ![r].status = s]
      /\ due' = due \ {r}
      /\ UNCHANGED <<archive, posts, phase, view, event, window>>
      /\ phase' = "deliver"
  BY DEF Drop, Head, fleet, config
<1>3. /\ delivery'[r] \in DeliveryRow
      /\ delivery'[r].status = s
      /\ delivery'[r].attempts = delivery[r].attempts
      /\ \A q \in Rows \ {r} : delivery'[q] = delivery[q]
  BY <1>1, <1>2 DEF IInv, TypeOK, OutboxOK, DeliveryRow
<1>4. OutboxOK'
  BY <1>2, <1>3 DEF IInv, TypeOK, OutboxOK
<1>5. \A x \in DeliveryRow : x # NoDelivery
  BY DEF DeliveryRow, NoDelivery, None
<1>6. DuePending' /\ InFlight'
  BY <1>2, <1>3 DEF IInv, DuePending, InFlight, Exists, Pending, TypeOK, ProgressOK
<1>7. AttemptsPaidFor'
  BY <1>1, <1>2, <1>3, <1>5 DEF IInv, AttemptsPaidFor, Exists
<1>8. \A q \in Rows : Fresh(q)' <=> Fresh(q)
  BY <1>1, <1>2, <1>3, <1>5 DEF Fresh
<1>. QED
  BY <1>2, <1>4, <1>6, <1>7, <1>8, RowIInv DEF IInv, FreshUnposted

LEMMA ClaimIInv ==
    ASSUME IInv, NEW r \in Rows, ClaimDelivery(r)
    PROVE  OutboxOK' /\ DuePending' /\ InFlight' /\ AttemptsPaidFor' /\ FreshUnposted'
           /\ EventsFresh' /\ WindowsFresh' /\ ViewFresh' /\ ViewKnown'
<1>1. delivery[r] \in DeliveryRow /\ Pending(r) /\ Exists(r) /\ r \in due
  BY DEF ClaimDelivery, Head, IInv, DuePending, Exists, TypeOK, OutboxOK
<1>2. /\ delivery' = [delivery EXCEPT ![r].attempts = @ + 1, ![r].next = Later(now + Claim)]
      /\ current' = r /\ phase' = "send"
      /\ UNCHANGED <<archive, posts, due, accepted, view, event, window>>
  BY DEF ClaimDelivery, Claimed, fleet, config
<1>3. Later(now + Claim) \in LongAgo..Horizon
  BY BoundsAssumption DEF IInv, TypeOK, ProgressOK, Times, Later, Earlier, Claim, LongAgo
<1>4. delivery[r].attempts + 1 \in 0..MaxAttempts
  BY <1>1, BoundsAssumption DEF ClaimDelivery, Exhausted, DeliveryRow
<1>5. /\ delivery'[r] \in DeliveryRow
      /\ delivery'[r].status = "pending"
      /\ delivery'[r].attempts = delivery[r].attempts + 1
      /\ \A q \in Rows \ {r} : delivery'[q] = delivery[q]
  BY <1>1, <1>2, <1>3, <1>4 DEF IInv, TypeOK, OutboxOK, DeliveryRow, Pending
<1>6. OutboxOK'
  BY <1>2, <1>5 DEF IInv, TypeOK, OutboxOK
<1>7. \A x \in DeliveryRow : x # NoDelivery /\ x.attempts \in Nat
  BY BoundsAssumption DEF DeliveryRow, NoDelivery, None
<1>8. posts[r] \in Nat /\ posts[r] <= delivery[r].attempts /\ delivery[r].attempts \in Nat
  BY <1>1, <1>7 DEF IInv, AttemptsPaidFor, TypeOK, OutboxOK
<1>9. DuePending'
  BY <1>2, <1>5, <1>7 DEF IInv, DuePending, Exists, Pending, TypeOK, ProgressOK
<1>10. InFlight'
  BY <1>1, <1>2, <1>5, <1>8 DEF InFlight
<1>11. AttemptsPaidFor'
  <2>1. posts'[r] <= delivery'[r].attempts /\ delivery'[r].status # "sent"
    BY <1>2, <1>5, <1>8
  <2>2. ASSUME NEW q \in Rows \ {r}, Exists(q)'
        PROVE posts'[q] <= delivery'[q].attempts /\ (delivery'[q].status = "sent" => posts'[q] > 0)
    BY <1>2, <1>5, <2>2 DEF IInv, AttemptsPaidFor, Exists
  <2>. QED
    BY <2>1, <2>2 DEF AttemptsPaidFor
<1>12. \A q \in Rows : Fresh(q)' <=> Fresh(q)
  BY <1>1, <1>2, <1>5, <1>7 DEF Fresh
<1>. QED
  BY <1>2, <1>6, <1>9, <1>10, <1>11, <1>12, RowIInv DEF IInv, FreshUnposted

LEMMA SendIInv ==
    ASSUME IInv, Send
    PROVE  OutboxOK' /\ DuePending' /\ InFlight' /\ AttemptsPaidFor' /\ FreshUnposted'
           /\ EventsFresh' /\ WindowsFresh' /\ ViewFresh' /\ ViewKnown'
<1>1. PICK arrived \in BOOLEAN, ok \in BOOLEAN :
        /\ ok => arrived
        /\ accepted' = ok
        /\ posts' = [posts EXCEPT ![current] = IF arrived THEN @ + 1 ELSE @]
  BY DEF Send
<1>2. /\ phase = "send" /\ phase' = "record"
      /\ UNCHANGED <<delivery, archive, due, current, view, event, window>>
  BY DEF Send, fleet, config
<1>3. /\ current \in due /\ current \in Rows
      /\ Exists(current) /\ Pending(current)
      /\ posts[current] < delivery[current].attempts
      /\ posts[current] \in Nat
      /\ delivery[current].attempts \in Nat
  BY <1>2, BoundsAssumption DEF IInv, InFlight, DuePending, TypeOK, ProgressOK, OutboxOK, DeliveryRow, Exists
<1>4. /\ posts'[current] \in Nat
      /\ posts'[current] <= delivery[current].attempts
      /\ ok => posts'[current] > 0
      /\ \A q \in Rows \ {current} : posts'[q] = posts[q]
  BY <1>1, <1>3 DEF IInv, TypeOK, OutboxOK
<1>5. OutboxOK'
  BY <1>1, <1>2, <1>3, <1>4 DEF IInv, TypeOK, OutboxOK
<1>6. DuePending' /\ InFlight'
  BY <1>1, <1>2, <1>3, <1>4 DEF IInv, DuePending, InFlight, Exists, Pending
<1>7. AttemptsPaidFor'
  <2>1. delivery'[current].status # "sent"
    BY <1>2, <1>3 DEF Pending
  <2>2. ASSUME NEW q \in Rows \ {current}, Exists(q)'
        PROVE posts'[q] <= delivery'[q].attempts /\ (delivery'[q].status = "sent" => posts'[q] > 0)
    BY <1>2, <1>4, <2>2 DEF IInv, AttemptsPaidFor, Exists
  <2>. QED
    BY <1>2, <1>4, <2>1, <2>2 DEF AttemptsPaidFor
<1>8. FreshUnposted'
  BY <1>2, <1>3, <1>4 DEF IInv, FreshUnposted, Fresh, Exists
<1>. QED
  BY <1>2, <1>5, <1>6, <1>7, <1>8, RowIInv DEF Fresh

LEMMA RecordIInv ==
    ASSUME IInv, Record
    PROVE  OutboxOK' /\ DuePending' /\ InFlight' /\ AttemptsPaidFor' /\ FreshUnposted'
           /\ EventsFresh' /\ WindowsFresh' /\ ViewFresh' /\ ViewKnown'
<1>1. /\ phase = "record" /\ phase' = "deliver"
      /\ due' = due \ {current}
      /\ UNCHANGED <<archive, posts, view, event, window>>
      /\ delivery' = [delivery EXCEPT ![current].status = Outcome(current),
                                      ![current].next = Later(clock + Backoff(delivery[current].attempts))]
  BY DEF Record, fleet, config
<1>2. /\ current \in due /\ current \in Rows
      /\ delivery[current] \in DeliveryRow
      /\ posts[current] <= delivery[current].attempts
      /\ accepted => posts[current] > 0
  BY <1>1 DEF IInv, InFlight, DuePending, TypeOK, ProgressOK, OutboxOK, Exists
<1>3. Later(clock + Backoff(delivery[current].attempts)) \in LongAgo..Horizon
  <2>1. \A n : Backoff(n) \in Nat
    BY DEF Backoff
  <2>. QED
    BY <2>1, BoundsAssumption DEF IInv, TypeOK, ConfigOK, Times, Later, Earlier, LongAgo
<1>4. /\ delivery'[current] \in DeliveryRow
      /\ delivery'[current].status = Outcome(current)
      /\ delivery'[current].attempts = delivery[current].attempts
      /\ \A q \in Rows \ {current} : delivery'[q] = delivery[q]
  BY <1>1, <1>2, <1>3 DEF IInv, TypeOK, OutboxOK, DeliveryRow, Outcome
<1>5. OutboxOK'
  BY <1>1, <1>4 DEF IInv, TypeOK, OutboxOK
<1>6. \A x \in DeliveryRow : x # NoDelivery
  BY DEF DeliveryRow, NoDelivery, None
<1>7. DuePending' /\ InFlight'
  BY <1>1, <1>4 DEF IInv, DuePending, InFlight, Exists, Pending, TypeOK, ProgressOK
<1>8. AttemptsPaidFor'
  <2>1. delivery'[current].status = "sent" => posts[current] > 0
    BY <1>2, <1>4 DEF Outcome
  <2>2. ASSUME NEW q \in Rows \ {current}, Exists(q)'
        PROVE posts'[q] <= delivery'[q].attempts /\ (delivery'[q].status = "sent" => posts'[q] > 0)
    BY <1>1, <1>4, <2>2 DEF IInv, AttemptsPaidFor, Exists
  <2>. QED
    BY <1>1, <1>2, <1>4, <2>1, <2>2 DEF AttemptsPaidFor
<1>9. \A q \in Rows : Fresh(q)' <=> Fresh(q)
  BY <1>1, <1>2, <1>4, <1>6 DEF Fresh
<1>. QED
  BY <1>1, <1>5, <1>7, <1>8, <1>9, RowIInv DEF IInv, FreshUnposted

(* A tick that ends or is interrupted forgets what it held in memory.       *)
LEMMA RestIInv ==
    ASSUME IInv, Rest
    PROVE  DuePending' /\ InFlight' /\ AttemptsPaidFor' /\ FreshUnposted'
           /\ EventsFresh' /\ WindowsFresh' /\ ViewFresh' /\ ViewKnown'
<1>. USE DEF Rest, config, fleet, outbox
<1>1. DuePending' /\ InFlight'
  BY DEF DuePending, InFlight
<1>2. AttemptsPaidFor' /\ FreshUnposted'
  BY DEF IInv, AttemptsPaidFor, FreshUnposted, Exists, Fresh
<1>. QED
  BY <1>1, <1>2, RowIInv DEF Fresh

(* A test creates a row that never existed; retention moves decided rows to *)
(* the archive, so neither makes a row fresh.                               *)
LEMMA TestIInv ==
    ASSUME IInv, NEW t \in Tests, NEW c \in Channels, TestChannel(t, c)
    PROVE  OutboxOK' /\ DuePending' /\ InFlight' /\ AttemptsPaidFor' /\ FreshUnposted'
           /\ EventsFresh' /\ WindowsFresh' /\ ViewFresh' /\ ViewKnown'
<1>. DEFINE r == <<t, c>>
<1>1. r \in Rows /\ Fresh(r)
  BY DEF Rows, Keys, TestChannel, Fresh
<1>2. /\ delivery' = [delivery EXCEPT ![r] = NewRow(clock, {})]
      /\ UNCHANGED <<archive, posts, due, phase, current, accepted, view, event, window>>
  BY DEF TestChannel, fleet, config, progress
<1>3. NewRow(clock, {}) \in DeliveryRow /\ NewRow(clock, {}).status = "pending"
      /\ NewRow(clock, {}) # NoDelivery /\ NewRow(clock, {}).attempts = 0
  BY NewRowType, BoundsAssumption DEF IInv, TypeOK, ConfigOK, Times, LongAgo
<1>4. delivery'[r] = NewRow(clock, {}) /\ \A q \in Rows \ {r} : delivery'[q] = delivery[q]
  BY <1>1, <1>2 DEF IInv, TypeOK, OutboxOK
<1>5. posts[r] = 0
  BY <1>1 DEF IInv, FreshUnposted
<1>. HIDE DEF r
<1>6. OutboxOK'
  BY <1>2, <1>3, <1>4 DEF IInv, TypeOK, OutboxOK
<1>7. r \notin due
  BY <1>1 DEF IInv, DuePending, Exists, Fresh
<1>8. DuePending'
  BY <1>2, <1>4, <1>7 DEF IInv, DuePending, Exists, Pending, TypeOK, ProgressOK
<1>9. InFlight'
  BY <1>2, <1>4, <1>7 DEF IInv, InFlight, TypeOK, ProgressOK
<1>10. AttemptsPaidFor'
  <2>1. posts'[r] <= delivery'[r].attempts /\ delivery'[r].status # "sent"
    BY <1>2, <1>3, <1>4, <1>5
  <2>2. ASSUME NEW q \in Rows \ {r}, Exists(q)'
        PROVE posts'[q] <= delivery'[q].attempts /\ (delivery'[q].status = "sent" => posts'[q] > 0)
    BY <1>2, <1>4, <2>2 DEF IInv, AttemptsPaidFor, Exists
  <2>. QED
    BY <2>1, <2>2 DEF AttemptsPaidFor
<1>11. \A q \in Rows \ {r} : Fresh(q)' <=> Fresh(q)
  BY <1>2, <1>4 DEF Fresh
<1>12. FreshUnposted'
  BY <1>2, <1>3, <1>4, <1>5, <1>11 DEF IInv, FreshUnposted
<1>13. \A e \in Events, k \in Channels : <<e, k>> \in Rows \ {r}
  BY KeysAssumption DEF r, Rows, Keys
<1>14. \A w \in Windows, k \in Channels : <<w, k>> \in Rows \ {r}
  BY KeysAssumption DEF r, Rows, Keys
<1>15. EventsFresh'
  BY <1>2, <1>11, <1>13 DEF IInv, EventsFresh, Raised
<1>16. WindowsFresh' /\ ViewFresh' /\ ViewKnown'
  BY <1>2, <1>11, <1>14 DEF IInv, WindowsFresh, ViewFresh, ViewKnown
<1>. QED
  BY <1>6, <1>8, <1>9, <1>10, <1>12, <1>15, <1>16

LEMMA PurgeIInv ==
    ASSUME IInv, Purge
    PROVE  OutboxOK' /\ DuePending' /\ InFlight' /\ AttemptsPaidFor' /\ FreshUnposted'
           /\ EventsFresh' /\ WindowsFresh' /\ ViewFresh' /\ ViewKnown'
<1>1. PICK old \in SUBSET Rows :
        /\ \A r \in old : Exists(r) /\ ~Pending(r)
        /\ delivery' = [r \in Rows |-> IF r \in old THEN NoDelivery ELSE delivery[r]]
        /\ archive' = [r \in Rows |-> IF r \in old THEN delivery[r] ELSE archive[r]]
  BY DEF Purge
<1>2. UNCHANGED <<posts, due, phase, current, accepted, view, event, window>>
  BY DEF Purge, fleet, config, progress
<1>3. OutboxOK'
  BY <1>1, <1>2 DEF IInv, TypeOK, OutboxOK
<1>4. \A r \in due : r \in Rows /\ r \notin old
  BY <1>1 DEF IInv, DuePending, TypeOK, ProgressOK
<1>5. DuePending'
  BY <1>1, <1>2, <1>4 DEF IInv, DuePending, Exists, Pending
<1>6. InFlight'
  BY <1>1, <1>2, <1>4 DEF IInv, InFlight
<1>7. AttemptsPaidFor'
  BY <1>1, <1>2 DEF IInv, AttemptsPaidFor, Exists
<1>8. \A r \in Rows : Fresh(r)' <=> Fresh(r)
  BY <1>1 DEF Fresh, Exists
<1>9. FreshUnposted'
  BY <1>2, <1>8 DEF IInv, FreshUnposted
<1>10. \A e \in Events, k \in Channels : <<e, k>> \in Rows
  BY DEF Rows, Keys
<1>11. \A w \in Windows, k \in Channels : <<w, k>> \in Rows
  BY DEF Rows, Keys
<1>12. EventsFresh'
  BY <1>2, <1>8, <1>10 DEF IInv, EventsFresh, Raised
<1>13. WindowsFresh' /\ ViewFresh' /\ ViewKnown'
  BY <1>2, <1>8, <1>11 DEF IInv, WindowsFresh, ViewFresh, ViewKnown
<1>. QED
  BY <1>3, <1>5, <1>6, <1>7, <1>9, <1>12, <1>13

LEMMA NextIInv == IInv /\ [Next]_vars => IInv'
<1>. SUFFICES ASSUME IInv, [Next]_vars PROVE IInv'
  OBVIOUS
<1>1. ConfigOK' /\ FleetOK' /\ ProgressOK'
  BY ConfigTypes, FleetTypes, ProgressTypes DEF IInv
<1>. DEFINE Rest7 == DuePending' /\ InFlight' /\ AttemptsPaidFor' /\ FreshUnposted'
                      /\ EventsFresh' /\ WindowsFresh' /\ ViewFresh' /\ ViewKnown'
<1>2. ASSUME OutboxOK', Rest7 PROVE IInv'
  BY <1>1, <1>2 DEF IInv, TypeOK
<1>3. UNCHANGED <<delivery, archive, posts>> => OutboxOK'
  BY DEF IInv, TypeOK, OutboxOK
<1>4. CASE BeginTick
  BY <1>2, <1>3, <1>4, BeginTickIInv DEF BeginTick, outbox
<1>5. CASE Ingest
  BY <1>2, <1>5, IngestIInv
<1>6. CASE SelectDue
  BY <1>2, <1>3, <1>6, SelectDueIInv DEF SelectDue, outbox
<1>7. CASE Send
  BY <1>2, <1>7, SendIInv
<1>8. CASE Record
  BY <1>2, <1>8, RecordIInv
<1>9. CASE Rest
  BY <1>2, <1>3, <1>9, RestIInv DEF Rest, outbox
<1>10. ASSUME NEW r \in Rows, NEW s \in {"cancelled", "failed", "suppressed"}, Head(r), Drop(r, s)
       PROVE IInv'
  BY <1>2, <1>10, DropIInv
<1>11. ASSUME NEW r \in Rows, ClaimDelivery(r) PROVE IInv'
  BY <1>2, <1>11, ClaimIInv
<1>12. ASSUME NEW t \in Tests, NEW c \in Channels, TestChannel(t, c) PROVE IInv'
  BY <1>2, <1>12, TestIInv
<1>13. CASE Purge
  BY <1>2, <1>13, PurgeIInv
<1>14. ASSUME UNCHANGED <<outbox, progress>>, Advance \/ Alarms \/ Administration \/ UNCHANGED vars
       PROVE IInv'
  BY <1>2, <1>3, <1>14, OutsideIInv DEF outbox
<1>15. Advance \/ Alarms \/ UNCHANGED vars => UNCHANGED <<outbox, progress>>
  BY DEF Advance, Alarms, vars, OpenAlarm, EscalateAlarm, ResolveAlarm, OtherEvent, RaiseEvent
<1>16. CASE Administration
  <2>1. UNCHANGED <<outbox, progress>> \/ \E t \in Tests, c \in Channels : TestChannel(t, c)
    BY <1>16 DEF Administration, SaveChannel, DeleteChannel, AddWindow, EndWindow, Regroup
  <2>. QED
    BY <1>12, <1>14, <1>16, <2>1
<1>. QED
  BY <1>4, <1>5, <1>6, <1>7, <1>8, <1>9, <1>10, <1>11, <1>13, <1>14, <1>15, <1>16
  DEF Next, Tick, EndTick, Abort, CancelDelivery, ExhaustDelivery, SuppressDelivery

THEOREM Invariance == Spec => []IInv
  BY InitIInv, NextIInv, PTL DEF Spec

(* Every variable stays within its type. *)
THEOREM TypeCorrect == Spec => []TypeOK
<1>1. IInv => TypeOK
  BY DEF IInv
<1>. QED
  BY <1>1, Invariance, PTL

(* However the process is interrupted, an endpoint hears of a delivery at   *)
(* most as often as attempts were committed for it, and what is recorded as *)
(* sent has arrived.                                                        *)
THEOREM AttemptsArePaidFor == Spec => []AttemptsPaidFor
<1>1. IInv => AttemptsPaidFor
  BY DEF IInv
<1>. QED
  BY <1>1, Invariance, PTL

-----------------------------------------------------------------------------
(* The queue implements Outbox.                                             *)

LEMMA InitOutbox == Init => Ob!Init
<1>. SUFFICES ASSUME Init PROVE Ob!Init
  OBVIOUS
<1>1. \A r \in Rows : Row(r) = NoDelivery
  BY DEF Init, Row, Exists
<1>. QED
  BY <1>1 DEF Init, Ob!Init, RowStatus, RowUsed, NoDelivery, None

(* The mapped state changes where rows change. *)
LEMMA SameRows ==
    ASSUME UNCHANGED posts, \A r \in Rows : Row(r)' = Row(r)
    PROVE  UNCHANGED Ob!vars
  BY DEF Ob!vars, RowStatus, RowUsed

LEMMA OneRow ==
    ASSUME IInv, NEW r \in Rows, Pending(r), delivery[r] \in DeliveryRow, UNCHANGED archive,
           NEW x \in DeliveryRow, delivery' = [delivery EXCEPT ![r] = x]
    PROVE  /\ RowStatus[r] = "pending"
           /\ RowUsed[r] = delivery[r].attempts
           /\ RowStatus' = [RowStatus EXCEPT ![r] = x.status]
           /\ RowUsed' = [RowUsed EXCEPT ![r] = x.attempts]
<1>1. \A y \in DeliveryRow : y # NoDelivery
  BY DEF DeliveryRow, NoDelivery, None
<1>2. Row(r) = delivery[r] /\ Row(r)' = x
  BY <1>1 DEF Row, Exists, IInv, TypeOK, OutboxOK
<1>3. \A q \in Rows \ {r} : Row(q)' = Row(q)
  BY DEF Row, Exists, IInv, TypeOK, OutboxOK
<1>. QED
  BY <1>1, <1>2, <1>3 DEF RowStatus, RowUsed, Pending

LEMMA StepOutbox == IInv /\ [Next]_vars => [Ob!Next]_(Ob!vars)
<1>. SUFFICES ASSUME IInv, [Next]_vars PROVE [Ob!Next]_(Ob!vars)
  OBVIOUS
<1>1. CASE UNCHANGED outbox
  <2>1. UNCHANGED posts /\ \A r \in Rows : Row(r)' = Row(r)
    BY <1>1 DEF outbox, Row, Exists
  <2>. QED
    BY <2>1, SameRows
<1>2. CASE Ingest
  <2>1. PICK E \in SUBSET Unprocessed : delivery' = Ingested(E)
    BY <1>2 DEF Ingest
  <2>2. UNCHANGED <<archive, posts>> /\ phase = "ingest"
    BY <1>2 DEF Ingest
  <2>. DEFINE New == {r \in Rows : Ingested(E)[r] # delivery[r]}
  <2>3. ASSUME NEW r \in New PROVE RowStatus[r] = "none" /\ Row(r) = NoDelivery
    BY <2>2, IngestedRows DEF Fresh, Row, Exists, RowStatus, NoDelivery, None
  <2>4. ASSUME NEW r \in New PROVE Row(r)'.status = "pending" /\ Row(r)'.attempts = 0 /\ Row(r)' # NoDelivery
    BY <2>1, <2>2, IngestedRows, NewRowType DEF Row, Exists
  <2>5. ASSUME NEW r \in Rows \ New PROVE Row(r)' = Row(r)
    BY <2>1, <2>2 DEF Row, Exists
  <2>. HIDE DEF New
  <2>6. RowStatus' = [r \in Rows |-> IF r \in New THEN "pending" ELSE RowStatus[r]]
    BY <2>4, <2>5 DEF RowStatus
  <2>7. RowUsed' = RowUsed
    BY <2>3, <2>4, <2>5 DEF RowUsed, New
  <2>8. Ob!Enqueue(New)
    BY <2>2, <2>3, <2>6, <2>7 DEF Ob!Enqueue
  <2>. QED
    BY <2>8 DEF Ob!Next, New
<1>3. ASSUME NEW r \in Rows, NEW s \in {"cancelled", "failed", "suppressed"}, Head(r), Drop(r, s)
      PROVE Ob!Next
  <2>1. Pending(r) /\ delivery[r] \in DeliveryRow
    BY <1>3 DEF Head, IInv, DuePending, Exists, TypeOK, OutboxOK
  <2>. DEFINE x == [delivery[r] EXCEPT !.status = s]
  <2>2. x \in DeliveryRow /\ x.status = s /\ x.attempts = delivery[r].attempts
    BY <2>1 DEF DeliveryRow
  <2>3. delivery' = [delivery EXCEPT ![r] = x]
    BY <1>3 DEF Drop
  <2>4. UNCHANGED <<archive, posts>>
    BY <1>3 DEF Drop
  <2>. HIDE DEF x
  <2>6. /\ RowStatus[r] = "pending" /\ RowStatus' = [RowStatus EXCEPT ![r] = s]
        /\ RowUsed' = [RowUsed EXCEPT ![r] = RowUsed[r]]
    <3>1. /\ RowStatus[r] = "pending"
          /\ RowUsed[r] = delivery[r].attempts
          /\ RowStatus' = [RowStatus EXCEPT ![r] = x.status]
          /\ RowUsed' = [RowUsed EXCEPT ![r] = x.attempts]
      BY <2>1, <2>2, <2>3, <2>4, OneRow
    <3>. QED
      BY <2>2, <3>1
  <2>7. Ob!Decide(r, s)
    BY <2>4, <2>6 DEF Ob!Decide, RowUsed
  <2>. QED
    BY <2>7 DEF Ob!Next, Ob!Decided
<1>4. ASSUME NEW r \in Rows, ClaimDelivery(r) PROVE Ob!Next
  <2>1. Pending(r) /\ delivery[r] \in DeliveryRow
    BY <1>4 DEF ClaimDelivery, Head, IInv, DuePending, Exists, TypeOK, OutboxOK
  <2>2. OutboxOK'
    BY <1>4, ClaimIInv
  <2>3. UNCHANGED <<archive, posts>> /\ delivery' = [delivery EXCEPT ![r] = delivery'[r]]
    BY <1>4 DEF ClaimDelivery, Claimed, IInv, TypeOK, OutboxOK
  <2>4. delivery'[r].status = "pending" /\ delivery'[r].attempts = delivery[r].attempts + 1
    BY <1>4, <2>1 DEF ClaimDelivery, Claimed, Pending, IInv, TypeOK, OutboxOK, DeliveryRow
  <2>5. delivery'[r] \in DeliveryRow
    BY <2>2, <2>4 DEF OutboxOK, NoDelivery, None
  <2>6. /\ RowStatus[r] = "pending" /\ RowUsed[r] = delivery[r].attempts
        /\ RowStatus' = [RowStatus EXCEPT ![r] = "pending"]
        /\ RowUsed' = [RowUsed EXCEPT ![r] = delivery[r].attempts + 1]
    BY <2>1, <2>3, <2>4, <2>5, OneRow
  <2>7. RowStatus' = RowStatus
    BY <2>6 DEF RowStatus
  <2>8. delivery[r].attempts < MaxAttempts
    BY <1>4, <2>1, BoundsAssumption DEF ClaimDelivery, Exhausted, DeliveryRow
  <2>9. Ob!Try(r)
    BY <2>3, <2>6, <2>7, <2>8 DEF Ob!Try
  <2>. QED
    BY <2>9 DEF Ob!Next
<1>5. CASE Send
  <2>1. PICK arrived \in BOOLEAN :
          posts' = [posts EXCEPT ![current] = IF arrived THEN @ + 1 ELSE @]
    BY <1>5 DEF Send
  <2>2. UNCHANGED <<delivery, archive>> /\ phase = "send"
    BY <1>5 DEF Send
  <2>3. /\ current \in Rows /\ Exists(current) /\ Pending(current)
        /\ posts[current] < delivery[current].attempts
    BY <2>2 DEF IInv, InFlight, DuePending, TypeOK, ProgressOK
  <2>4. \A r \in Rows : Row(r)' = Row(r)
    BY <2>2 DEF Row, Exists
  <2>5. RowStatus' = RowStatus /\ RowUsed' = RowUsed
    BY <2>4 DEF RowStatus, RowUsed
  <2>6. CASE ~arrived
    <3>1. posts' = posts
      BY <2>1, <2>6 DEF IInv, TypeOK, OutboxOK
    <3>. QED
      BY <2>4, <3>1, SameRows
  <2>7. CASE arrived
    <3>1. RowStatus[current] = "pending" /\ RowUsed[current] = delivery[current].attempts
      BY <2>3 DEF RowStatus, RowUsed, Row, Pending, Exists
    <3>2. Ob!Post(current)
      BY <2>1, <2>3, <2>5, <2>7, <3>1 DEF Ob!Post
    <3>. QED
      BY <2>3, <3>2 DEF Ob!Next
  <2>. QED
    BY <2>6, <2>7
<1>6. CASE Record
  <2>. DEFINE r == current
  <2>1. /\ r \in Rows /\ Pending(r) /\ delivery[r] \in DeliveryRow
        /\ accepted => posts[r] > 0
    BY <1>6 DEF Record, IInv, InFlight, DuePending, Exists, TypeOK, ProgressOK, OutboxOK
  <2>2. OutboxOK'
    BY <1>6, RecordIInv
  <2>3. UNCHANGED <<archive, posts>> /\ delivery' = [delivery EXCEPT ![r] = delivery'[r]]
    BY <1>6 DEF Record, IInv, TypeOK, OutboxOK
  <2>4. delivery'[r].status = Outcome(r) /\ delivery'[r].attempts = delivery[r].attempts
    BY <1>6, <2>1 DEF Record, IInv, TypeOK, OutboxOK, DeliveryRow
  <2>5. delivery'[r] \in DeliveryRow
    BY <2>1, <2>2, <2>4 DEF OutboxOK, NoDelivery, None, Outcome
  <2>6. /\ RowStatus[r] = "pending"
        /\ RowStatus' = [RowStatus EXCEPT ![r] = Outcome(r)]
        /\ RowUsed' = [RowUsed EXCEPT ![r] = RowUsed[r]]
    BY <2>1, <2>3, <2>4, <2>5, OneRow
  <2>7. CASE Outcome(r) = "pending"
    BY <2>3, <2>6, <2>7 DEF RowStatus, RowUsed, Ob!vars
  <2>8. CASE Outcome(r) # "pending"
    <3>1. Ob!Decide(r, Outcome(r))
      BY <2>1, <2>3, <2>6 DEF Ob!Decide, Outcome, RowUsed
    <3>. QED
      BY <2>1, <2>8, <3>1 DEF Ob!Next, Ob!Decided, Outcome
  <2>. QED
    BY <2>7, <2>8
<1>7. ASSUME NEW t \in Tests, NEW c \in Channels, TestChannel(t, c) PROVE Ob!Next
  <2>. DEFINE r == <<t, c>>
  <2>1. r \in Rows /\ Fresh(r)
    BY <1>7 DEF Rows, Keys, TestChannel, Fresh
  <2>2. UNCHANGED <<archive, posts>> /\ delivery' = [delivery EXCEPT ![r] = NewRow(clock, {})]
    BY <1>7 DEF TestChannel
  <2>3. /\ NewRow(clock, {}).status = "pending" /\ NewRow(clock, {}).attempts = 0
        /\ NewRow(clock, {}) # NoDelivery
    BY NewRowType, BoundsAssumption DEF IInv, TypeOK, ConfigOK, Times, LongAgo
  <2>. HIDE DEF r
  <2>4. Row(r)' = NewRow(clock, {}) /\ Row(r) = NoDelivery
    BY <2>1, <2>2, <2>3 DEF Row, Exists, Fresh, IInv, TypeOK, OutboxOK
  <2>5. \A q \in Rows \ {r} : Row(q)' = Row(q)
    BY <2>2 DEF Row, Exists, IInv, TypeOK, OutboxOK
  <2>6. /\ RowStatus[r] = "none"
        /\ RowStatus' = [q \in Rows |-> IF q \in {r} THEN "pending" ELSE RowStatus[q]]
    BY <2>1, <2>3, <2>4, <2>5 DEF RowStatus, NoDelivery, None
  <2>7. RowUsed' = RowUsed
    BY <2>3, <2>4, <2>5 DEF RowUsed
  <2>8. Ob!Enqueue({r})
    BY <2>2, <2>6, <2>7 DEF Ob!Enqueue
  <2>. QED
    BY <2>1, <2>8 DEF Ob!Next
<1>8. CASE Purge
  <2>1. UNCHANGED posts /\ \A r \in Rows : Row(r)' = Row(r)
    BY <1>8 DEF Purge, Row, Exists
  <2>. QED
    BY <2>1, SameRows
<1>. QED
  BY <1>1, <1>2, <1>3, <1>4, <1>5, <1>6, <1>7, <1>8
  DEF Next, Tick, Alarms, Administration, vars, BeginTick, SelectDue, EndTick, Abort, Rest, CancelDelivery,
      ExhaustDelivery, SuppressDelivery, Advance, SaveChannel, DeleteChannel, AddWindow, EndWindow, Regroup,
      OpenAlarm, EscalateAlarm, ResolveAlarm, OtherEvent, RaiseEvent

(* Every behaviour of the queue, with its clock, crashes, channels, windows *)
(* and retention, is one that Outbox allows to each delivery row.           *)
THEOREM QueueImplementsOutbox == Spec => ImplementsOutbox
  BY InitOutbox, StepOutbox, InitIInv, NextIInv, PTL DEF Spec, ImplementsOutbox, Ob!Spec

-----------------------------------------------------------------------------
(* What lies behind the clock.                                              *)

(* Time does not run backwards: what was raised, read or summarised lies    *)
(* behind the clock, and behind the tick under way.                         *)
Behind(t) == t <= clock /\ (phase # "idle" => t <= now)

EventsPast ==
    \A e \in Events : Raised(e) =>
        event[e].ts <= clock /\ (event[e].processed => Behind(event[e].by))

WindowsPast ==
    \A w \in Windows : Saved(window[w]) =>
        window[w].start <= window[w].end /\ (window[w].summarized => Behind(window[w].end))

(* What tick sees of a channel enabled before it began is so, and a window  *)
(* it sees is still there, unless it had not started.                       *)
SeenChannels ==
    \A c \in Channels :
        channel[c].state = "enabled" /\ channel[c].since < now => Seen.channel[c] = channel[c]

SeenWindow(s, w) ==
    /\ s.start <= s.end /\ (s.summarized => s.end <= now)
    /\ \/ StatementReads /\ w.state = "deleted" /\ now < s.start
       \/ /\ Saved(w) /\ w.start = s.start /\ w.scope = s.scope /\ w.summarized = s.summarized
          /\ w.end <= s.end /\ (s.end <= now => w.end = s.end)

SeenFaithful ==
    phase = "ingest" =>
        /\ SeenChannels
        /\ \A w \in Windows : Saved(Seen.window[w]) => SeenWindow(Seen.window[w], window[w])

ClockInv == now <= clock /\ EventsPast /\ WindowsPast /\ SeenFaithful

SavedRow == [state : {"saved"}, start : Times, end : Times, scope : Scopes, summarized : BOOLEAN]

LEMMA RowTypes ==
    ASSUME TypeOK
    PROVE  /\ clock \in Nat /\ now \in Nat /\ Times \subseteq Nat
           /\ \A c \in Channels : channel[c] \in ChannelRow /\ view.channel[c] \in ChannelRow
           /\ \A e \in Events : Raised(e) => event[e] \in EventRow
           /\ \A w \in Windows : Saved(window[w]) => window[w] \in SavedRow
           /\ \A w \in Windows : Saved(view.window[w]) => view.window[w] \in SavedRow
           /\ \A w \in Windows : ~Saved(window[w]) => window[w].state \in {"none", "deleted"}
<1>1. Times \subseteq Nat
  BY DEF Times
<1>2. clock \in Nat /\ now \in Nat
  BY <1>1 DEF TypeOK, ConfigOK, ProgressOK
<1>3. \A c \in Channels : channel[c] \in ChannelRow /\ view.channel[c] \in ChannelRow
  BY DEF TypeOK, ConfigOK, ProgressOK, View
<1>4. \A e \in Events : Raised(e) => event[e] \in EventRow
  BY DEF TypeOK, FleetOK, Raised
<1>5. \A w \in Windows : window[w] \in WindowRow /\ view.window[w] \in WindowRow
  BY DEF TypeOK, ConfigOK, ProgressOK, View
<1>6. \A x \in WindowRow : (Saved(x) => x \in SavedRow) /\ (~Saved(x) => x.state \in {"none", "deleted"})
  BY DEF WindowRow, Saved, SavedRow
<1>. QED
  BY <1>1, <1>2, <1>3, <1>4, <1>5, <1>6

(* How a step moves the clock and the tick.                                 *)
LEMMA PhaseMoves ==
    ASSUME [Next]_vars
    PROVE  \/ BeginTick
           \/ Ingest
           \/ phase' = "idle" /\ now' = 0
           \/ UNCHANGED <<now, phase, view>>
           \/ UNCHANGED <<now, view>> /\ phase \notin {"idle", "ingest"} /\ phase' \notin {"idle", "ingest"}
<1>1. CASE Tick
  BY <1>1 DEF Tick, SelectDue, Send, Record, EndTick, Rest, CancelDelivery, ExhaustDelivery, SuppressDelivery,
              ClaimDelivery, Head, Drop
<1>2. CASE Abort
  BY <1>2 DEF Abort, Rest
<1>3. CASE Advance \/ Alarms \/ Administration \/ Purge \/ UNCHANGED vars
  BY <1>3 DEF Advance, Alarms, Administration, Purge, vars, progress, OpenAlarm, EscalateAlarm, ResolveAlarm,
              OtherEvent, RaiseEvent, SaveChannel, DeleteChannel, TestChannel, AddWindow, EndWindow, Regroup
<1>. QED
  BY <1>1, <1>2, <1>3 DEF Next

LEMMA ClockMoves ==
    ASSUME TypeOK, [Next]_vars
    PROVE  clock' \in Nat /\ clock <= clock' /\ (clock' = clock \/ UNCHANGED <<config, fleet, progress>>)
<1>1. clock \in Nat
  BY RowTypes
<1>2. CASE Advance
  BY <1>1, <1>2 DEF Advance
<1>3. CASE Tick \/ Abort \/ Alarms \/ Administration \/ Purge \/ UNCHANGED vars
  <2>1. clock' = clock
    BY <1>3 DEF Tick, BeginTick, Ingest, SelectDue, Send, Record, EndTick, Rest, CancelDelivery, ExhaustDelivery,
       SuppressDelivery, ClaimDelivery, Drop, Abort, Alarms, Administration, Purge, vars, OpenAlarm, EscalateAlarm,
       ResolveAlarm, OtherEvent, RaiseEvent, SaveChannel, DeleteChannel, TestChannel, AddWindow, EndWindow, Regroup
  <2>. QED
    BY <1>1, <2>1
<1>. QED
  BY <1>2, <1>3 DEF Next

(* What lies behind the clock and the tick stays behind them.               *)
LEMMA BehindStays ==
    ASSUME TypeOK, now <= clock, [Next]_vars
    PROVE  /\ now' <= clock' /\ now' \in Nat
           /\ \A t \in Nat : Behind(t) => t <= clock' /\ (phase' # "idle" => t <= now')
<1>1. clock \in Nat /\ now \in Nat /\ clock' \in Nat /\ clock <= clock'
  BY RowTypes, ClockMoves
<1>2. \/ now' = clock
      \/ phase' = "idle" /\ now' = 0
      \/ now' = now /\ (phase' # "idle" => phase # "idle")
  <2>1. BeginTick => now' = clock
    BY DEF BeginTick
  <2>2. Ingest => now' = now /\ phase # "idle"
    BY DEF Ingest
  <2>. QED
    BY <2>1, <2>2, PhaseMoves
<1>. QED
  BY <1>1, <1>2 DEF Behind

(* How a step moves an event, a channel and a window.                       *)
LEMMA EventMoves ==
    ASSUME TypeOK, [Next]_vars, NEW e \in Events, Raised(e)
    PROVE  /\ Raised(e)' /\ event'[e].kind = event[e].kind /\ event'[e].device = event[e].device
           /\ event'[e].ts = event[e].ts
           /\ \/ event'[e] = event[e]
              \/ Ingest /\ ~event[e].processed /\ event'[e].processed /\ event'[e].by = now
<1>1. event[e] \in EventRow /\ \A x \in EventRow : x # NoEvent
  BY RowTypes DEF EventRow, NoEvent, None, Kinds, AlarmKinds
<1>2. CASE event'[e] = event[e]
  BY <1>2 DEF Raised
<1>3. CASE Ingest
  <2>1. PICK E \in SUBSET Unprocessed : event' = [f \in Events |->
              IF f \in E THEN [event[f] EXCEPT !.processed = TRUE, !.by = now] ELSE event[f]]
    BY <1>3 DEF Ingest
  <2>2. CASE e \notin E
    BY <1>2, <2>1, <2>2
  <2>3. CASE e \in E
    <3>. DEFINE x == [event[e] EXCEPT !.processed = TRUE, !.by = now]
    <3>1. now \in Times
      BY DEF TypeOK, ProgressOK
    <3>2. x \in EventRow /\ x.kind = event[e].kind /\ x.device = event[e].device /\ x.ts = event[e].ts
          /\ x.processed /\ x.by = now
      BY <1>1, <3>1 DEF EventRow
    <3>3. event'[e] = x
      BY <2>1, <2>3
    <3>. HIDE DEF x
    <3>4. Raised(e)' /\ ~event[e].processed
      BY <1>1, <2>3, <3>2, <3>3 DEF Raised, Unprocessed
    <3>. QED
      BY <1>3, <3>2, <3>3, <3>4
  <2>. QED
    BY <2>2, <2>3
<1>4. CASE \E f \in Events, d \in Devices : \E k : RaiseEvent(f, d, k)
  BY <1>2, <1>4 DEF RaiseEvent, TypeOK, FleetOK
<1>5. CASE UNCHANGED event
  BY <1>2, <1>5
<1>. QED
  BY <1>3, <1>4, <1>5
  DEF Next, Tick, Alarms, Administration, vars, BeginTick, SelectDue, Send, Record, EndTick, Abort, Rest,
      CancelDelivery, ExhaustDelivery, SuppressDelivery, ClaimDelivery, Drop, TestChannel, Purge, fleet,
      Advance, SaveChannel, DeleteChannel, AddWindow, EndWindow, Regroup, OpenAlarm, EscalateAlarm, ResolveAlarm,
      OtherEvent

LEMMA EventArrives ==
    ASSUME TypeOK, [Next]_vars, NEW e \in Events, ~Raised(e), Raised(e)'
    PROVE  /\ ~event'[e].processed /\ event'[e].ts \in Nat
           /\ event'[e].ts <= clock /\ clock - CommitLag <= event'[e].ts
           /\ UNCHANGED <<clock, config, progress>>
<1>1. CASE Ingest
  <2>1. event'[e] = event[e]
    BY <1>1 DEF Ingest, Unprocessed
  <2>. QED
    BY <2>1 DEF Raised
<1>2. ASSUME NEW f \in Events, NEW d \in Devices, NEW k, RaiseEvent(f, d, k)
      PROVE  /\ ~event'[e].processed /\ event'[e].ts \in Nat
             /\ event'[e].ts <= clock /\ clock - CommitLag <= event'[e].ts
             /\ UNCHANGED <<clock, config, progress>>
  <2>1. PICK ts \in Times :
          /\ clock - CommitLag <= ts /\ ts <= clock
          /\ event' = [event EXCEPT ![f] = [kind |-> k, device |-> d, ts |-> ts, processed |-> FALSE, by |-> 0]]
    BY <1>2 DEF RaiseEvent
  <2>2. e = f
    BY <2>1 DEF Raised
  <2>3. event'[e] = [kind |-> k, device |-> d, ts |-> ts, processed |-> FALSE, by |-> 0]
    BY <2>1, <2>2 DEF TypeOK, FleetOK
  <2>. QED
    BY <1>2, <2>1, <2>3, RowTypes DEF RaiseEvent
<1>3. ~UNCHANGED event
  BY DEF Raised
<1>. QED
  BY <1>1, <1>2, <1>3
  DEF Next, Tick, Alarms, Administration, vars, BeginTick, SelectDue, Send, Record, EndTick, Abort, Rest,
      CancelDelivery, ExhaustDelivery, SuppressDelivery, ClaimDelivery, Drop, TestChannel, Purge, fleet,
      Advance, SaveChannel, DeleteChannel, AddWindow, EndWindow, Regroup, OpenAlarm, EscalateAlarm, ResolveAlarm,
      OtherEvent

LEMMA ChannelMoves ==
    ASSUME TypeOK, [Next]_vars, NEW c \in Channels, channel'[c].state = "enabled"
    PROVE  channel'[c] = channel[c] \/ (channel'[c].since = clock /\ UNCHANGED <<event, progress>>)
<1>1. ASSUME NEW k \in Channels, NEW state, SaveChannel(k, state)
      PROVE  channel'[c] = channel[c] \/ (channel'[c].since = clock /\ UNCHANGED <<event, progress>>)
  <2>. DEFINE since == IF channel[k].state = "enabled" /\ state = "enabled" THEN channel[k].since ELSE clock
  <2>1. channel' = [channel EXCEPT ![k] = [state |-> state, since |-> since]] /\ UNCHANGED <<event, progress>>
    BY <1>1 DEF SaveChannel, fleet
  <2>2. CASE c # k
    BY <2>1, <2>2 DEF TypeOK, ConfigOK
  <2>3. CASE c = k
    <3>1. channel'[c] = [state |-> state, since |-> since]
      BY <2>1, <2>3 DEF TypeOK, ConfigOK
    <3>2. CASE since = clock
      BY <2>1, <3>1, <3>2
    <3>3. CASE since # clock
      <4>1. channel[c].state = "enabled" /\ state = "enabled" /\ since = channel[c].since
        BY <2>3, <3>3
      <4>2. channel[c] \in ChannelRow
        BY RowTypes
      <4>3. channel[c] = [state |-> "enabled", since |-> channel[c].since]
        BY <4>1, <4>2 DEF ChannelRow
      <4>. QED
        BY <3>1, <4>1, <4>3
    <3>. QED
      BY <3>2, <3>3
  <2>. QED
    BY <2>2, <2>3
<1>2. ASSUME NEW k \in Channels, DeleteChannel(k) PROVE channel'[c] = channel[c]
  <2>1. channel' = [channel EXCEPT ![k].state = "deleted"] /\ channel[k] \in ChannelRow
    BY <1>2, RowTypes DEF DeleteChannel
  <2>2. c # k
    BY <2>1 DEF TypeOK, ConfigOK, ChannelRow
  <2>. QED
    BY <2>1, <2>2 DEF TypeOK, ConfigOK
<1>3. CASE UNCHANGED channel
  BY <1>3
<1>. QED
  BY <1>1, <1>2, <1>3
  DEF Next, Tick, Alarms, Administration, vars, BeginTick, Ingest, SelectDue, Send, Record, EndTick, Abort, Rest,
      CancelDelivery, ExhaustDelivery, SuppressDelivery, ClaimDelivery, Drop, TestChannel, Purge, config,
      Advance, AddWindow, EndWindow, Regroup, OpenAlarm, EscalateAlarm, ResolveAlarm, OtherEvent, RaiseEvent

SameWindow(v, u) == Saved(v) /\ Saved(u) /\ u.start = v.start /\ u.scope = v.scope

Planned(v, u) == v.state = "none" /\ Saved(u) /\ u.start <= u.end /\ ~u.summarized
Removed(v, u) == Saved(v) /\ clock < v.start /\ u.state = "deleted"
Ended(v, u)   == SameWindow(v, u) /\ v.start <= clock /\ u.summarized = v.summarized /\ u.end = Earlier(v.end, clock)
Summed(v, u)  == SameWindow(v, u) /\ u.end = v.end /\ u.summarized

(* A window that is summarised has begun, so it is still there.             *)
LEMMA EndingStays ==
    ASSUME TypeOK, SeenFaithful, phase = "ingest", NEW w \in Windows, Ending(w)
    PROVE  /\ SameWindow(Seen.window[w], window[w]) /\ ~window[w].summarized
           /\ window[w].end = Seen.window[w].end /\ window[w].end <= now /\ window[w] \in SavedRow
<1>1. /\ Saved(Seen.window[w]) /\ Seen.window[w].end <= now /\ ~Seen.window[w].summarized
      /\ SeenWindow(Seen.window[w], window[w])
  BY DEF Ending, SeenFaithful
<1>2. Seen.window[w] \in SavedRow
  BY <1>1, RowTypes DEF Seen
<1>3. Seen.window[w].start \in Nat /\ Seen.window[w].end \in Nat /\ now \in Nat
  BY <1>2, RowTypes DEF SavedRow
<1>4. ~(now < Seen.window[w].start)
  BY <1>1, <1>3 DEF SeenWindow
<1>5. Saved(window[w]) /\ SameWindow(Seen.window[w], window[w]) /\ ~window[w].summarized
      /\ window[w].end = Seen.window[w].end
  BY <1>1, <1>4 DEF SeenWindow, SameWindow
<1>. QED
  BY <1>1, <1>5, RowTypes

LEMMA WindowMoves ==
    ASSUME TypeOK, SeenFaithful, [Next]_vars, NEW w \in Windows, window'[w] # window[w]
    PROVE  \/ /\ Planned(window[w], window'[w]) \/ Removed(window[w], window'[w]) \/ Ended(window[w], window'[w])
              /\ UNCHANGED <<clock, event, progress>>
           \/ Ingest /\ Ending(w) /\ Summed(window[w], window'[w])
<1>1. ASSUME NEW v \in Windows, NEW start \in Times, NEW end \in Times, NEW scope \in Scopes,
             AddWindow(v, start, end, scope)
      PROVE  Planned(window[w], window'[w]) /\ UNCHANGED <<clock, event, progress>>
  <2>1. /\ window[v] = NoWindow /\ start < end
        /\ window' = [window EXCEPT ![v] = [state |-> "saved", start |-> start, end |-> end,
                                            scope |-> scope, summarized |-> FALSE]]
    BY <1>1 DEF AddWindow
  <2>2. w = v
    BY <2>1 DEF TypeOK, ConfigOK
  <2>3. window'[w] = [state |-> "saved", start |-> start, end |-> end, scope |-> scope, summarized |-> FALSE]
    BY <2>1, <2>2 DEF TypeOK, ConfigOK
  <2>4. start <= end
    BY <2>1, RowTypes
  <2>. QED
    BY <1>1, <2>1, <2>2, <2>3, <2>4 DEF AddWindow, NoWindow, Planned, Saved, fleet
<1>2. ASSUME NEW v \in Windows, EndWindow(v)
      PROVE  /\ Removed(window[w], window'[w]) \/ Ended(window[w], window'[w])
             /\ UNCHANGED <<clock, event, progress>>
  <2>. DEFINE last == Earlier(window[w].end, clock)
              shorter == [window[w] EXCEPT !.end = last]
  <2>1. Saved(window[v]) /\ w = v
    BY <1>2 DEF EndWindow, TypeOK, ConfigOK
  <2>2. window[w] \in SavedRow
    BY <2>1, RowTypes
  <2>3. window'[w] = IF window[w].start > clock THEN [state |-> "deleted"] ELSE shorter
    BY <1>2, <2>1 DEF EndWindow, TypeOK, ConfigOK
  <2>4. UNCHANGED <<clock, event, progress>>
    BY <1>2 DEF EndWindow, fleet
  <2>5. window[w].start \in Nat /\ clock \in Nat
    BY <2>2, RowTypes DEF SavedRow
  <2>6. CASE window[w].start > clock
    BY <2>1, <2>3, <2>4, <2>5, <2>6 DEF Removed
  <2>7. CASE ~(window[w].start > clock)
    <3>. HIDE DEF last
    <3>1. Saved(shorter) /\ shorter.start = window[w].start /\ shorter.scope = window[w].scope
          /\ shorter.summarized = window[w].summarized /\ shorter.end = last
      BY <2>2 DEF SavedRow, Saved
    <3>. HIDE DEF shorter
    <3>2. window'[w] = shorter
      BY <2>3, <2>7
    <3>3. window[w].start <= clock
      BY <2>5, <2>7
    <3>. QED
      BY <2>1, <2>4, <3>1, <3>2, <3>3 DEF Ended, SameWindow, last
  <2>. QED
    BY <2>6, <2>7
<1>3. CASE Ingest
  <2>1. window'[w] = IF Ending(w) THEN [window[w] EXCEPT !.summarized = TRUE] ELSE window[w]
    BY <1>3 DEF Ingest
  <2>2. Ending(w) /\ phase = "ingest"
    BY <1>3, <2>1 DEF Ingest
  <2>3. Saved(window[w]) /\ window[w] \in SavedRow
    BY <2>2, EndingStays DEF SameWindow
  <2>. DEFINE done == [window[w] EXCEPT !.summarized = TRUE]
  <2>4. Saved(done) /\ done.start = window[w].start /\ done.scope = window[w].scope
        /\ done.end = window[w].end /\ done.summarized
    BY <2>3 DEF SavedRow, Saved
  <2>5. window'[w] = done
    BY <2>1, <2>2
  <2>. HIDE DEF done
  <2>. QED
    BY <1>3, <2>2, <2>3, <2>4, <2>5 DEF Summed, SameWindow
<1>4. ~UNCHANGED window
  OBVIOUS
<1>. QED
  BY <1>1, <1>2, <1>3, <1>4
  DEF Next, Tick, Alarms, Administration, vars, BeginTick, SelectDue, Send, Record, EndTick, Abort, Rest,
      CancelDelivery, ExhaustDelivery, SuppressDelivery, ClaimDelivery, Drop, TestChannel, Purge, config,
      Advance, SaveChannel, DeleteChannel, Regroup, OpenAlarm, EscalateAlarm, ResolveAlarm, OtherEvent, RaiseEvent

LEMMA ClockBegin == ASSUME Init PROVE ClockInv
<1>1. \A e \in Events : ~Raised(e)
  BY DEF Init, Raised
<1>2. \A w \in Windows : ~Saved(window[w])
  BY DEF Init, Unread, NoWindow, Saved
<1>3. now <= clock /\ phase # "ingest"
  BY DEF Init
<1>. QED
  BY <1>1, <1>2, <1>3 DEF ClockInv, EventsPast, WindowsPast, SeenFaithful

LEMMA EventsPastStep == ASSUME TypeOK, ClockInv, [Next]_vars PROVE EventsPast'
<1>. SUFFICES ASSUME NEW e \in Events, Raised(e)'
     PROVE  /\ event'[e].ts <= clock'
            /\ event'[e].processed => event'[e].by <= clock' /\ (phase' # "idle" => event'[e].by <= now')
  BY DEF EventsPast, Behind
<1>1. clock \in Nat /\ now \in Nat /\ clock' \in Nat /\ clock <= clock' /\ now <= clock
  BY RowTypes, ClockMoves DEF ClockInv
<1>2. CASE ~Raised(e)
  BY <1>1, <1>2, EventArrives
<1>3. CASE Raised(e)
  <2>1. event[e].ts \in Nat /\ event[e].by \in Nat
    BY <1>3, RowTypes DEF EventRow
  <2>2. event[e].ts <= clock /\ (event[e].processed => Behind(event[e].by))
    BY <1>3 DEF ClockInv, EventsPast
  <2>3. event'[e].ts <= clock'
    BY <1>1, <1>3, <2>1, <2>2, EventMoves
  <2>4. CASE event'[e] = event[e]
    <3>. DEFINE by == event[e].by
    <3>1. Behind(by) => by <= clock' /\ (phase' # "idle" => by <= now')
      BY <2>1, BehindStays DEF ClockInv
    <3>. QED
      BY <2>2, <2>3, <2>4, <3>1
  <2>5. CASE Ingest /\ event'[e].by = now
    <3>1. now' = now
      BY <2>5 DEF Ingest
    <3>. QED
      BY <1>1, <2>3, <2>5, <3>1
  <2>. QED
    BY <1>3, <2>4, <2>5, EventMoves
<1>. QED
  BY <1>2, <1>3

LEMMA WindowsPastStep == ASSUME TypeOK, ClockInv, [Next]_vars PROVE WindowsPast'
<1>. SUFFICES ASSUME NEW w \in Windows, Saved(window'[w])
     PROVE  /\ window'[w].start <= window'[w].end
            /\ window'[w].summarized => window'[w].end <= clock' /\ (phase' # "idle" => window'[w].end <= now')
  BY DEF WindowsPast, Behind
<1>. DEFINE v == window[w]
            u == window'[w]
<1>1. clock \in Nat /\ now \in Nat /\ clock' \in Nat /\ clock <= clock' /\ now <= clock
  BY RowTypes, ClockMoves DEF ClockInv
<1>2. Saved(v) => v.start \in Nat /\ v.end \in Nat /\ v.start <= v.end
  BY RowTypes DEF SavedRow, ClockInv, WindowsPast
<1>3. Saved(v) /\ v.summarized => v.end <= clock' /\ (phase' # "idle" => v.end <= now')
  <2>1. Saved(v) /\ v.summarized => Behind(v.end)
    BY DEF ClockInv, WindowsPast
  <2>. QED
    BY <1>2, <2>1, BehindStays DEF ClockInv
<1>4. CASE u = v
  BY <1>2, <1>3, <1>4
<1>5. CASE u # v /\ Ingest
  <2>1. Ending(w) /\ Summed(v, u) /\ phase = "ingest"
    BY <1>5, WindowMoves DEF ClockInv, Ingest, Planned, Removed, Ended, progress
  <2>2. v.end <= now
    BY <2>1, EndingStays DEF ClockInv
  <2>3. now' = now
    BY <1>5 DEF Ingest
  <2>4. Saved(v) /\ u.start = v.start /\ u.end = v.end
    BY <2>1 DEF Summed, SameWindow
  <2>. HIDE DEF u, v
  <2>. QED
    BY <1>1, <1>2, <2>2, <2>3, <2>4 DEF u, v
<1>6. CASE u # v /\ ~Ingest
  <2>1. Planned(v, u) \/ Ended(v, u)
    BY <1>6, WindowMoves DEF ClockInv, Removed, Saved
  <2>2. CASE Planned(v, u)
    BY <2>2 DEF Planned
  <2>3. CASE Ended(v, u)
    <3>1. v.summarized => u.end = v.end
      <4>1. v.summarized => v.end <= clock
        BY <2>3 DEF Ended, SameWindow, ClockInv, WindowsPast, Behind
      <4>. QED
        BY <2>3, <4>1 DEF Ended, SameWindow, Earlier
    <3>2. u.start <= u.end
      BY <1>1, <1>2, <2>3 DEF Ended, SameWindow, Earlier
    <3>. QED
      BY <1>3, <2>3, <3>1, <3>2 DEF Ended, SameWindow
  <2>. QED
    BY <2>1, <2>2, <2>3
<1>. QED
  BY <1>4, <1>5, <1>6

LEMMA SeenStep == ASSUME TypeOK, TypeOK', ClockInv, WindowsPast', [Next]_vars PROVE SeenFaithful'
<1>. SUFFICES ASSUME phase' = "ingest"
     PROVE  SeenChannels' /\ \A w \in Windows : Saved(Seen'.window[w]) => SeenWindow(Seen.window[w], window[w])'
  BY DEF SeenFaithful
<1>1. clock \in Nat /\ now \in Nat /\ now <= clock
  BY RowTypes DEF ClockInv
<1>2. CASE Seen' = [channel |-> channel', window |-> window']
  <2>1. \A w \in Windows : Saved(window'[w]) =>
          window'[w].start <= window'[w].end /\ (window'[w].summarized => window'[w].end <= now')
    BY DEF WindowsPast, Behind
  <2>2. \A w \in Windows : Saved(window'[w]) => window'[w].end \in Nat
    <3>1. \A w \in Windows : Saved(window'[w]) => window'[w] \in SavedRow
      <4>1. \A x \in WindowRow : Saved(x) => x \in SavedRow
        BY DEF WindowRow, Saved, SavedRow
      <4>. QED
        BY <4>1 DEF TypeOK, ConfigOK
    <3>. QED
      BY <3>1, RowTypes DEF SavedRow
  <2>3. Seen'.channel = channel' /\ Seen'.window = window'
    BY <1>2
  <2>4. SeenChannels'
    BY <2>3 DEF SeenChannels
  <2>5. ASSUME NEW w \in Windows, Saved(Seen'.window[w]) PROVE SeenWindow(Seen.window[w], window[w])'
    BY <2>1, <2>2, <2>3, <2>5 DEF SeenWindow
  <2>. QED
    BY <2>4, <2>5
<1>3. CASE BeginTick
  BY <1>2, <1>3 DEF BeginTick, Seen, config
<1>4. CASE ~StatementReads
  BY <1>2, <1>4 DEF Seen
<1>5. CASE StatementReads /\ ~BeginTick
  <2>1. UNCHANGED <<now, view>> /\ phase = "ingest" /\ Seen = view /\ Seen' = view
    BY <1>5, PhaseMoves DEF Ingest, Seen
  <2>2. ~Ingest
    BY DEF Ingest
  <2>3. SeenChannels /\ \A w \in Windows : Saved(view.window[w]) => SeenWindow(view.window[w], window[w])
    BY <2>1 DEF ClockInv, SeenFaithful
  <2>4. ASSUME NEW c \in Channels, channel'[c].state = "enabled", channel'[c].since < now
        PROVE  view.channel[c] = channel'[c]
    <3>1. channel'[c].since # clock
      BY <1>1, <2>4
    <3>2. channel'[c] = channel[c]
      BY <2>4, <3>1, ChannelMoves
    <3>. QED
      BY <2>1, <2>3, <2>4, <3>2 DEF SeenChannels
  <2>5. ASSUME NEW w \in Windows, Saved(view.window[w]) PROVE SeenWindow(view.window[w], window'[w])
    <3>. DEFINE s == view.window[w]
                v == window[w]
                u == window'[w]
    <3>1. s.start \in Nat /\ s.end \in Nat /\ (Saved(v) => v.start \in Nat /\ v.end \in Nat) /\ SeenWindow(s, v)
      BY <2>3, <2>5, RowTypes DEF SavedRow
    <3>2. CASE u = v
      BY <3>1, <3>2
    <3>3. CASE Planned(v, u)
      BY <3>1, <3>3 DEF Planned, SeenWindow, Saved
    <3>4. CASE Removed(v, u)
      BY <1>1, <1>5, <3>1, <3>4 DEF Removed, SeenWindow, Saved
    <3>5. CASE Ended(v, u)
      BY <1>1, <3>1, <3>5 DEF Ended, SameWindow, SeenWindow, Saved, Earlier
    <3>. HIDE DEF s, v, u
    <3>6. \/ u = v \/ Planned(v, u) \/ Removed(v, u) \/ Ended(v, u)
      BY <2>2, WindowMoves DEF ClockInv, u, v
    <3>. QED
      BY <3>2, <3>3, <3>4, <3>5, <3>6 DEF s, u
  <2>. QED
    BY <2>1, <2>4, <2>5 DEF SeenChannels, SeenWindow
<1>. QED
  BY <1>3, <1>4, <1>5

LEMMA ClockAlways == Spec => [](IInv /\ ClockInv)
<1>1. Init => IInv /\ ClockInv
  BY InitIInv, ClockBegin
<1>2. IInv /\ ClockInv /\ [Next]_vars => (IInv /\ ClockInv)'
  <2>. SUFFICES ASSUME IInv, ClockInv, [Next]_vars PROVE IInv' /\ ClockInv'
    OBVIOUS
  <2>1. IInv'
    BY NextIInv
  <2>2. TypeOK /\ TypeOK'
    BY <2>1 DEF IInv
  <2>3. now' <= clock'
    BY <2>2, BehindStays DEF ClockInv
  <2>. QED
    BY <2>1, <2>2, <2>3, EventsPastStep, WindowsPastStep, SeenStep DEF ClockInv
<1>. QED
  BY <1>1, <1>2, PTL DEF Spec

-----------------------------------------------------------------------------
(* Events and their deliveries.                                             *)

(* A row that was queued stays, retained or archived, about the same        *)
(* devices; only a channel switched off or a window drops it.               *)
LEMMA RowMoves ==
    ASSUME IInv, [Next]_vars, NEW r \in Rows, Row(r) # NoDelivery
    PROVE  /\ Row(r)' # NoDelivery /\ Row(r)'.about = Row(r).about
           /\ \/ Row(r)'.status = Row(r).status
              \/ Row(r)'.status \in {"pending", "sent", "failed"}
              \/ /\ ~Live(r) \/ (phase = "deliver" /\ Suppressed(r))
                 /\ UNCHANGED <<clock, config, fleet, phase, now>>
<1>. DEFINE Goal == /\ Row(r)' # NoDelivery /\ Row(r)'.about = Row(r).about
                    /\ \/ Row(r)'.status = Row(r).status
                       \/ Row(r)'.status \in {"pending", "sent", "failed"}
                       \/ /\ ~Live(r) \/ (phase = "deliver" /\ Suppressed(r))
                          /\ UNCHANGED <<clock, config, fleet, phase, now>>
<1>0. (\A x \in DeliveryRow : x # NoDelivery) /\ delivery \in [Rows -> DeliveryRow \cup {NoDelivery}]
  BY DEF DeliveryRow, NoDelivery, None, IInv, TypeOK, OutboxOK
<1>. SUFFICES Goal
  OBVIOUS
<1>1. Row(r)' = Row(r) => Goal
  OBVIOUS
<1>2. CASE UNCHANGED <<delivery, archive>>
  <2>1. Row(r)' = Row(r)
    BY <1>2 DEF Row, Exists
  <2>. QED
    BY <1>1, <2>1
<1>3. CASE Ingest
  <2>1. PICK E \in SUBSET Unprocessed : delivery' = Ingested(E)
    BY <1>3 DEF Ingest
  <2>2. archive' = archive /\ phase = "ingest"
    BY <1>3 DEF Ingest
  <2>3. delivery'[r] = delivery[r]
    BY <2>1, <2>2, IngestedRows DEF Fresh, Row, Exists
  <2>. QED
    BY <1>1, <2>2, <2>3 DEF Row, Exists
<1>4. ASSUME NEW q \in Rows, NEW x \in DeliveryRow, Exists(q), delivery' = [delivery EXCEPT ![q] = x],
             archive' = archive, x.about = delivery[q].about,
             q = r => \/ x.status \in {"pending", "sent", "failed"}
                      \/ /\ ~Live(r) \/ (phase = "deliver" /\ Suppressed(r))
                         /\ UNCHANGED <<clock, config, fleet, phase, now>>
      PROVE  Goal
  <2>1. CASE q # r
    <3>1. Row(r)' = Row(r)
      BY <1>0, <1>4, <2>1 DEF Row, Exists
    <3>. QED
      BY <1>1, <3>1
  <2>2. CASE q = r
    <3>1. Row(r)' = x /\ Row(r) = delivery[r]
      BY <1>0, <1>4, <2>2 DEF Row, Exists
    <3>. HIDE DEF Goal
    <3>2. x # NoDelivery
      BY <1>0
    <3>. QED
      BY <1>4, <2>2, <3>1, <3>2 DEF Goal
  <2>. QED
    BY <2>1, <2>2
<1>5. ASSUME NEW q \in Rows, NEW s \in {"cancelled", "failed", "suppressed"}, Head(q), Drop(q, s),
             s # "failed" => ~Live(q) \/ Suppressed(q)
      PROVE  Goal
  <2>. DEFINE x == [delivery[q] EXCEPT !.status = s]
  <2>1. Exists(q) /\ delivery[q] \in DeliveryRow /\ phase = "deliver"
    BY <1>0, <1>5 DEF Head, IInv, DuePending, Exists
  <2>2. x \in DeliveryRow /\ x.about = delivery[q].about /\ x.status = s
    BY <2>1 DEF DeliveryRow
  <2>3. delivery' = [delivery EXCEPT ![q] = x] /\ archive' = archive /\ UNCHANGED <<clock, config, fleet, phase, now>>
    BY <1>5 DEF Drop
  <2>. HIDE DEF x, Goal
  <2>. QED
    BY <1>4, <1>5, <2>1, <2>2, <2>3
<1>6. ASSUME NEW q \in Rows, ClaimDelivery(q) PROVE Goal
  <2>1. Exists(q) /\ delivery[q] \in DeliveryRow /\ Pending(q)
    BY <1>0, <1>6 DEF ClaimDelivery, Head, IInv, DuePending, Exists
  <2>. DEFINE x == [delivery[q] EXCEPT !.attempts = delivery[q].attempts + 1, !.next = Later(now + Claim)]
  <2>2. delivery' = [delivery EXCEPT ![q] = x] /\ archive' = archive
    BY <1>6 DEF ClaimDelivery, Claimed
  <2>3. x.about = delivery[q].about /\ x.status = "pending"
    BY <2>1 DEF DeliveryRow, Pending
  <2>4. delivery'[q] = x
    BY <1>0, <2>2
  <2>5. OutboxOK'
    BY <1>6, ClaimIInv
  <2>. HIDE DEF x, Goal
  <2>6. x \in DeliveryRow
    BY <2>3, <2>4, <2>5 DEF OutboxOK, NoDelivery, None
  <2>. QED
    BY <1>4, <2>1, <2>2, <2>3, <2>6
<1>7. CASE Record
  <2>. DEFINE q == current
              x == [delivery[q] EXCEPT !.status = Outcome(q), !.next = Later(clock + Backoff(delivery[q].attempts))]
  <2>1. q \in Rows /\ Exists(q) /\ delivery[q] \in DeliveryRow
    BY <1>0, <1>7 DEF Record, IInv, InFlight, DuePending, TypeOK, ProgressOK, Exists
  <2>2. delivery' = [delivery EXCEPT ![q] = x] /\ archive' = archive
    BY <1>7 DEF Record
  <2>3. x.about = delivery[q].about /\ x.status = Outcome(q)
    BY <2>1 DEF DeliveryRow
  <2>4. delivery'[q] = x
    BY <1>0, <2>1, <2>2
  <2>5. OutboxOK'
    BY <1>7, RecordIInv
  <2>6. Outcome(q) \in {"pending", "sent", "failed"}
    BY DEF Outcome
  <2>. HIDE DEF x, q, Goal
  <2>7. x \in DeliveryRow
    BY <2>1, <2>3, <2>4, <2>5, <2>6 DEF OutboxOK, NoDelivery, None
  <2>. QED
    BY <1>4, <2>1, <2>2, <2>3, <2>6, <2>7
<1>8. ASSUME NEW t \in Tests, NEW c \in Channels, TestChannel(t, c) PROVE Goal
  <2>1. Fresh(<<t, c>>) /\ archive' = archive /\ delivery' = [delivery EXCEPT ![<<t, c>>] = NewRow(clock, {})]
    BY <1>8 DEF TestChannel, Fresh
  <2>2. <<t, c>> # r
    BY <2>1 DEF Row, Exists, Fresh
  <2>3. Row(r)' = Row(r)
    BY <1>0, <2>1, <2>2 DEF Row, Exists
  <2>. QED
    BY <1>1, <2>3
<1>9. CASE Purge
  <2>1. PICK old \in SUBSET Rows :
          /\ \A q \in old : Exists(q)
          /\ delivery' = [q \in Rows |-> IF q \in old THEN NoDelivery ELSE delivery[q]]
          /\ archive' = [q \in Rows |-> IF q \in old THEN delivery[q] ELSE archive[q]]
    BY <1>9 DEF Purge
  <2>2. Row(r)' = Row(r)
    BY <2>1 DEF Row, Exists
  <2>. QED
    BY <1>1, <2>2
<1>. HIDE DEF Goal
<1>10. CASE Tick
  <2>1. (\E q \in Rows : CancelDelivery(q) \/ ExhaustDelivery(q) \/ SuppressDelivery(q)) => Goal
    BY <1>5 DEF CancelDelivery, ExhaustDelivery, SuppressDelivery
  <2>2. BeginTick \/ SelectDue \/ Send \/ EndTick => UNCHANGED <<delivery, archive>>
    BY DEF BeginTick, SelectDue, Send, EndTick, Rest, outbox
  <2>3. (\E q \in Rows : ClaimDelivery(q)) => Goal
    BY <1>6
  <2>. QED
    BY <1>2, <1>3, <1>7, <1>10, <2>1, <2>2, <2>3 DEF Tick
<1>11. CASE Abort \/ Advance \/ Alarms \/ UNCHANGED vars
  BY <1>2, <1>11 DEF Abort, Rest, Advance, Alarms, vars, outbox, OpenAlarm, EscalateAlarm, ResolveAlarm, OtherEvent,
                     RaiseEvent
<1>12. CASE Administration
  <2>1. UNCHANGED <<delivery, archive>> \/ \E t \in Tests, c \in Channels : TestChannel(t, c)
    BY <1>12 DEF Administration, SaveChannel, DeleteChannel, AddWindow, EndWindow, Regroup, outbox
  <2>. QED
    BY <1>2, <1>8, <2>1
<1>. QED
  BY <1>9, <1>10, <1>11, <1>12 DEF Next

(* What an ingestion announces or a window hides.                           *)
LEMMA IngestAnnounces ==
    ASSUME IInv, ClockInv, Ingest, NEW e \in Events, NEW c \in Channels,
           Raised(e), ~event[e].processed, event'[e].processed, event[e].kind \in AlarmKinds,
           channel[c].state = "enabled", channel[c].since < event[e].ts, channel[c].since < now
    PROVE  \/ Row(<<e, c>>)' # NoDelivery /\ Row(<<e, c>>)'.status = "pending"
           \/ \E w \in Windows : Covers(Seen.window[w], event[e].ts) /\ Matches(Seen.window[w].scope, event[e].device)
<1>1. PICK E \in SUBSET Unprocessed :
        /\ event' = [f \in Events |-> IF f \in E THEN [event[f] EXCEPT !.processed = TRUE, !.by = now] ELSE event[f]]
        /\ delivery' = Ingested(E)
  BY DEF Ingest
<1>2. e \in E
  BY <1>1
<1>3. CASE Quiet(e)
  BY <1>3 DEF Quiet
<1>4. CASE ~Quiet(e)
  <2>. DEFINE r == <<e, c>>
  <2>1. r \in Rows /\ r \in Announced(E)
    BY <1>2, <1>4 DEF Rows, Keys, Announced
  <2>2. Fresh(r)
    BY DEF IInv, EventsFresh
  <2>3. Seen.channel[c] = channel[c]
    BY DEF ClockInv, SeenFaithful, SeenChannels, Ingest
  <2>4. event[e].ts \in Nat /\ channel[c].since \in Nat /\ event[e].device \in Devices
    BY RowTypes DEF IInv, EventRow, ChannelRow
  <2>5. Enabled(c, event[e].ts)
    BY <2>3, <2>4 DEF Enabled
  <2>6. r[1] = e /\ r[2] = c
    OBVIOUS
  <2>. HIDE DEF r
  <2>7. Ingested(E)[r] = NewRow(LongAgo, {event[e].device})
    BY <2>1, <2>2, <2>5, <2>6 DEF Ingested, Exists, Fresh
  <2>8. LongAgo \in LongAgo .. Horizon
    BY BoundsAssumption DEF LongAgo
  <2>. DEFINE D == {event[e].device}
  <2>9. D \in SUBSET Devices
    BY <2>4
  <2>10. delivery'[r] = NewRow(LongAgo, D)
    BY <1>1, <2>7
  <2>. HIDE DEF D
  <2>11. delivery'[r] # NoDelivery /\ delivery'[r].status = "pending"
    BY <2>8, <2>9, <2>10, NewRowType
  <2>12. Row(r)' # NoDelivery /\ Row(r)'.status = "pending"
    BY <2>11 DEF Row, Exists
  <2>. QED
    BY <2>12 DEF r
<1>. QED
  BY <1>3, <1>4

(* A window that hides an event has begun, unless it was removed.           *)
LEMMA HidingWindow ==
    ASSUME IInv, ClockInv, phase = "ingest", NEW w \in Windows, NEW e \in Events, Raised(e),
           Covers(Seen.window[w], event[e].ts)
    PROVE  \/ StatementReads /\ window[w].state = "deleted" /\ now < event[e].ts
           \/ /\ SameWindow(Seen.window[w], window[w]) /\ window[w].summarized = Seen.window[w].summarized
              /\ window[w].start <= event[e].ts /\ window[w].start <= clock
              /\ Seen.window[w].end <= now => window[w].end = Seen.window[w].end
<1>. DEFINE s == Seen.window[w]
<1>1. Saved(s) /\ s.start <= event[e].ts /\ SeenWindow(s, window[w])
  BY DEF Covers, ClockInv, SeenFaithful
<1>2. s \in SavedRow
  BY <1>1, RowTypes DEF Seen, IInv
<1>3. s.start \in Nat /\ event[e].ts \in Nat /\ event[e].ts <= clock /\ now \in Nat /\ clock \in Nat
  BY <1>2, RowTypes DEF SavedRow, IInv, EventRow, ClockInv, EventsPast
<1>. HIDE DEF s
<1>. QED
  BY <1>1, <1>3 DEF SeenWindow, SameWindow, s

LEMMA DeletedStays ==
    ASSUME IInv, ClockInv, [Next]_vars, NEW w \in Windows, window[w].state = "deleted"
    PROVE  window'[w].state = "deleted"
  BY WindowMoves DEF IInv, ClockInv, Planned, Removed, Ended, Summed, SameWindow, Saved

LEMMA HiddenStays ==
    ASSUME IInv, ClockInv, [Next]_vars, NEW e \in Events, event'[e] = event[e], HiddenByRemoved(e)
    PROVE  HiddenByRemoved(e)'
  BY DeletedStays DEF HiddenByRemoved

(* A window that has begun stays.                                           *)
LEMMA BegunStays ==
    ASSUME IInv, ClockInv, [Next]_vars, NEW w \in Windows, Saved(window[w]), window[w].start <= clock
    PROVE  Saved(window'[w]) /\ window'[w].start = window[w].start /\ window'[w].scope = window[w].scope
<1>1. window[w].start \in Nat /\ clock \in Nat
  BY RowTypes DEF IInv, SavedRow
<1>. QED
  BY <1>1, WindowMoves DEF IInv, ClockInv, Planned, Removed, Ended, Summed, SameWindow, Saved

LEMMA QueuedStep == ASSUME IInv, ClockInv, EveryEventQueued, [Next]_vars PROVE EveryEventQueued'
<1>. SUFFICES ASSUME NEW e \in Events, NEW c \in Channels,
                     Raised(e)', event'[e].processed, event'[e].kind \in AlarmKinds, channel'[c].state = "enabled",
                     channel'[c].since < event'[e].ts, channel'[c].since < event'[e].by
     PROVE  \/ Row(<<e, c>>)' # NoDelivery
            \/ \E w \in Windows : Saved(window'[w]) /\ window'[w].start <= event'[e].ts
            \/ HiddenByRemoved(e)'
  BY DEF EveryEventQueued
<1>0. TypeOK /\ <<e, c>> \in Rows
  BY DEF IInv, Rows, Keys
<1>1. Raised(e)
  BY <1>0, EventArrives
<1>2. /\ event'[e].kind = event[e].kind /\ event'[e].ts = event[e].ts
      /\ event'[e] = event[e] \/ (Ingest /\ ~event[e].processed /\ event'[e].by = now)
  BY <1>0, <1>1, EventMoves
<1>3. event[e].ts \in Nat /\ event[e].ts <= clock /\ clock \in Nat
  BY <1>0, <1>1, RowTypes DEF EventRow, ClockInv, EventsPast
<1>4. channel'[c] = channel[c]
  <2>1. channel'[c].since # clock
    BY <1>2, <1>3
  <2>. QED
    BY <1>0, <2>1, ChannelMoves
<1>5. ASSUME NEW w \in Windows, Saved(window[w]), window[w].start <= event[e].ts
      PROVE  Saved(window'[w]) /\ window'[w].start <= event'[e].ts
  <2>1. window[w].start \in Nat
    BY <1>0, <1>5, RowTypes DEF SavedRow
  <2>2. window[w].start <= clock
    BY <1>3, <1>5, <2>1
  <2>. QED
    BY <1>2, <1>5, <2>2, BegunStays
<1>6. CASE event'[e] = event[e]
  <2>1. \/ Row(<<e, c>>) # NoDelivery
        \/ \E w \in Windows : Saved(window[w]) /\ window[w].start <= event[e].ts
        \/ HiddenByRemoved(e)
    BY <1>1, <1>4, <1>6 DEF EveryEventQueued
  <2>2. Row(<<e, c>>) # NoDelivery => Row(<<e, c>>)' # NoDelivery
    BY <1>0, RowMoves
  <2>. QED
    BY <1>5, <1>6, <2>1, <2>2, HiddenStays
<1>7. CASE Ingest /\ ~event[e].processed /\ event'[e].by = now
  <2>1. \/ Row(<<e, c>>)' # NoDelivery
        \/ \E w \in Windows : Covers(Seen.window[w], event[e].ts)
    BY <1>1, <1>2, <1>4, <1>7, IngestAnnounces
  <2>2. ASSUME NEW w \in Windows, Covers(Seen.window[w], event[e].ts)
        PROVE  \/ Saved(window[w]) /\ window[w].start <= event[e].ts
               \/ HiddenByRemoved(e)'
    <3>1. phase = "ingest"
      BY <1>7 DEF Ingest
    <3>2. \/ StatementReads /\ window[w].state = "deleted" /\ now < event[e].ts
          \/ Saved(window[w]) /\ window[w].start <= event[e].ts
      BY <1>1, <2>2, <3>1, HidingWindow DEF SameWindow
    <3>3. window[w].state = "deleted" => window'[w].state = "deleted"
      BY DeletedStays
    <3>. QED
      BY <1>2, <1>7, <3>2, <3>3 DEF HiddenByRemoved
  <2>. QED
    BY <1>5, <2>1, <2>2
<1>. QED
  BY <1>2, <1>6, <1>7

(* No alarm event is lost: a channel enabled in time gets a delivery, unless *)
(* a window hides the event, whatever is interrupted, edited or committed    *)
(* late, with either way of reading.                                         *)
THEOREM EventsAlwaysQueued == Spec => []EveryEventQueued
<1>1. Init => EveryEventQueued
  BY DEF Init, EveryEventQueued, Raised
<1>2. IInv /\ ClockInv /\ EveryEventQueued /\ [Next]_vars => EveryEventQueued'
  BY QueuedStep
<1>. QED
  BY <1>1, <1>2, ClockAlways, PTL DEF Spec

-----------------------------------------------------------------------------
(* Incidents.                                                               *)

Opened(e, d) == alarm[d] = e /\ e # None

(* The alarm of a device is the event that opened it.                       *)
AlarmsOpened ==
    \A e \in Events, d \in Devices : Opened(e, d) =>
        Raised(e) /\ event[e].device = d /\ event[e].kind \in AlarmKinds

(* A channel is told of a device: a window that has begun is yet to be      *)
(* summarised, or its summary names the device.                             *)
Told(d, c) ==
    \E w \in Windows :
        \/ /\ Saved(window[w]) /\ ~window[w].summarized /\ window[w].start <= clock
           /\ Matches(window[w].scope, d)
        \/ Row(<<w, c>>) # NoDelivery /\ d \in Row(<<w, c>>).about

Announces(e, c) == Row(<<e, c>>).status \in {"pending", "sent", "failed"}

Awaits(c, e) == channel[c].state = "enabled" /\ channel[c].since < event[e].ts

ProcessedTold ==
    \A e \in Events, d \in Devices, c \in Channels :
        Opened(e, d) /\ Awaits(c, e) /\ event[e].processed /\ channel[c].since < event[e].by
        => Announces(e, c) \/ Told(d, c) \/ HiddenByRemoved(e)

(* No window is summarised before it knows of the incidents it hides.       *)
UnprocessedTold ==
    \A e \in Events, d \in Devices, c \in Channels, w \in Windows :
        /\ Opened(e, d) /\ Awaits(c, e) /\ ~event[e].processed
        /\ Covers(window[w], event[e].ts) /\ window[w].summarized /\ Matches(window[w].scope, d)
        => Told(d, c)

IncidentInv == AlarmsOpened /\ ProcessedTold /\ UnprocessedTold

(* No alarm is committed so late that a window over its time is summarised. *)
OnTime ==
    \A e \in Events, w \in Windows :
        ~Raised(e) /\ Raised(e)' /\ Covers(window[w], event'[e].ts) => ~window[w].summarized

(* No device moves into or out of a scope.                                  *)
ScopesStay == \A d \in Devices, scope \in Scopes : Matches(scope, d)' <=> Matches(scope, d)

LEMMA AlarmMoves ==
    ASSUME TypeOK, [Next]_vars, NEW d \in Devices, alarm'[d] # None
    PROVE  \/ alarm'[d] = alarm[d]
           \/ /\ ~Raised(alarm'[d])
              /\ event'[alarm'[d]] # NoEvent /\ event'[alarm'[d]].device = d /\ event'[alarm'[d]].kind = "alarm.open"
<1>1. ASSUME NEW e \in Events, NEW k \in Devices, OpenAlarm(e, k), alarm'[d] # alarm[d]
      PROVE  /\ ~Raised(alarm'[d])
             /\ event'[alarm'[d]] # NoEvent /\ event'[alarm'[d]].device = d /\ event'[alarm'[d]].kind = "alarm.open"
  <2>1. /\ ~Raised(e) /\ alarm' = [alarm EXCEPT ![k] = e]
        /\ \E ts : event' = [event EXCEPT ![e] = [kind |-> "alarm.open", device |-> k, ts |-> ts,
                                                  processed |-> FALSE, by |-> 0]]
    BY <1>1 DEF OpenAlarm, RaiseEvent
  <2>2. k = d /\ alarm'[d] = e
    BY <1>1, <2>1 DEF TypeOK, FleetOK
  <2>3. event'[e].kind = "alarm.open" /\ event'[e].device = d
    BY <2>1, <2>2 DEF TypeOK, FleetOK
  <2>4. event'[e] # NoEvent
    BY <2>3 DEF NoEvent, None
  <2>. QED
    BY <2>1, <2>2, <2>3, <2>4 DEF Raised
<1>2. ASSUME NEW e \in Events, NEW k \in Devices, ResolveAlarm(e, k) PROVE alarm'[d] = alarm[d]
  BY <1>2 DEF ResolveAlarm, TypeOK, FleetOK
<1>. QED
  BY <1>1, <1>2
  DEF Next, Tick, Alarms, Administration, vars, BeginTick, Ingest, SelectDue, Send, Record, EndTick, Abort, Rest,
      CancelDelivery, ExhaustDelivery, SuppressDelivery, ClaimDelivery, Drop, TestChannel, Purge, fleet,
      Advance, SaveChannel, DeleteChannel, AddWindow, EndWindow, Regroup, EscalateAlarm, OtherEvent

(* A summary names every open incident that no other window covers.         *)
LEMMA SummaryTells ==
    ASSUME IInv, ClockInv, Ingest, ScopesStay, NEW w \in Windows, NEW d \in Devices, NEW c \in Channels,
           Ending(w), alarm[d] # None, Matches(window[w].scope, d),
           channel[c].state = "enabled", channel[c].since < now
    PROVE  Told(d, c)'
<1>0. phase = "ingest" /\ UNCHANGED <<clock, archive, group>> /\ clock \in Nat /\ now \in Nat /\ now <= clock
  BY RowTypes DEF Ingest, IInv, ClockInv
<1>1. SameWindow(Seen.window[w], window[w]) /\ ~window[w].summarized /\ window[w] \in SavedRow
  BY <1>0, EndingStays DEF IInv, ClockInv
<1>2. CASE \E v \in Windows : Covers(Seen.window[v], now) /\ Matches(Seen.window[v].scope, d)
  <2>1. PICK v \in Windows : Covers(Seen.window[v], now) /\ Matches(Seen.window[v].scope, d)
    BY <1>2
  <2>. DEFINE s == Seen.window[v]
  <2>2. Saved(s) /\ s.start <= now /\ now < s.end /\ SeenWindow(s, window[v])
    BY <1>0, <2>1 DEF Covers, ClockInv, SeenFaithful
  <2>3. s \in SavedRow
    BY <2>2, RowTypes DEF Seen, IInv
  <2>4. s.start \in Nat /\ s.end \in Nat
    BY <2>3, RowTypes DEF SavedRow, IInv
  <2>5. ~(now < s.start) /\ ~(s.end <= now) /\ s.start <= clock
    BY <1>0, <2>2, <2>4
  <2>6. Saved(window[v]) /\ window[v].start = s.start /\ window[v].scope = s.scope /\ ~window[v].summarized
    BY <2>2, <2>5 DEF SeenWindow
  <2>7. ~Ending(v)
    BY <2>5 DEF Ending
  <2>8. window'[v] = window[v]
    BY <2>7 DEF Ingest
  <2>9. Matches(window[v].scope, d)'
    <3>1. s.scope \in Scopes
      BY <2>3 DEF SavedRow
    <3>2. Matches(s.scope, d)
      BY <2>1
    <3>3. Matches(window[v].scope, d)
      BY <2>6, <3>2
    <3>. QED
      BY <1>0, <2>6, <2>8, <3>3 DEF Matches
  <2>. QED
    BY <1>0, <2>5, <2>6, <2>8, <2>9 DEF Told
<1>3. CASE ~\E v \in Windows : Covers(Seen.window[v], now) /\ Matches(Seen.window[v].scope, d)
  <2>. DEFINE r == <<w, c>>
              D == Outstanding(w)
  <2>1. Seen.window[w].scope = window[w].scope
    BY <1>1 DEF SameWindow
  <2>2. d \in D /\ D \in SUBSET Devices
    BY <1>3, <2>1 DEF Outstanding
  <2>3. PICK E \in SUBSET Unprocessed : delivery' = Ingested(E)
    BY DEF Ingest
  <2>4. r \in Rows /\ r[1] = w /\ r[2] = c
    BY DEF Rows, Keys
  <2>5. Fresh(r)
    BY <1>1 DEF IInv, WindowsFresh, Unsummarized, SameWindow
  <2>6. r \notin Announced(E)
    BY KeysAssumption DEF Announced, Unprocessed
  <2>7. Seen.channel[c].state = "enabled"
    BY <1>0 DEF ClockInv, SeenFaithful, SeenChannels
  <2>. HIDE DEF r, D
  <2>8. D # {}
    BY <2>2
  <2>9. delivery'[r] = NewRow(LongAgo, D)
    BY <2>3, <2>4, <2>5, <2>6, <2>7, <2>8 DEF Ingested, Exists, Fresh, D
  <2>10. LongAgo \in LongAgo .. Horizon
    BY BoundsAssumption DEF LongAgo
  <2>11. NewRow(LongAgo, D).about = D
    BY DEF NewRow
  <2>12. delivery'[r] # NoDelivery /\ delivery'[r].about = D
    BY <2>2, <2>9, <2>10, <2>11, NewRowType
  <2>13. Row(r)' # NoDelivery /\ d \in Row(r)'.about
    BY <2>2, <2>12 DEF Row, Exists
  <2>. QED
    BY <2>13 DEF Told, r
<1>. QED
  BY <1>2, <1>3

LEMMA ToldStays ==
    ASSUME IInv, ClockInv, [Next]_vars, ScopesStay, NEW d \in Devices, NEW c \in Channels, Told(d, c),
           Ingest => alarm[d] # None /\ channel[c].state = "enabled" /\ channel[c].since < now
    PROVE  Told(d, c)'
<1>1. PICK w \in Windows :
        \/ Saved(window[w]) /\ ~window[w].summarized /\ window[w].start <= clock /\ Matches(window[w].scope, d)
        \/ Row(<<w, c>>) # NoDelivery /\ d \in Row(<<w, c>>).about
  BY DEF Told
<1>2. CASE Row(<<w, c>>) # NoDelivery /\ d \in Row(<<w, c>>).about
  <2>1. <<w, c>> \in Rows
    BY DEF Rows, Keys
  <2>2. Row(<<w, c>>)' # NoDelivery /\ Row(<<w, c>>)'.about = Row(<<w, c>>).about
    BY <1>2, <2>1, RowMoves
  <2>. QED
    BY <1>2, <2>2 DEF Told
<1>3. CASE Saved(window[w]) /\ ~window[w].summarized /\ window[w].start <= clock /\ Matches(window[w].scope, d)
  <2>1. Saved(window'[w]) /\ window'[w].start = window[w].start /\ window'[w].scope = window[w].scope
    BY <1>3, BegunStays
  <2>2. window[w].start \in Nat /\ window[w].scope \in Scopes /\ clock \in Nat /\ clock' \in Nat /\ clock <= clock'
    BY <1>3, RowTypes, ClockMoves DEF IInv, SavedRow
  <2>3. CASE ~window'[w].summarized
    <3>1. Matches(window[w].scope, d)'
      <4>. DEFINE scope == window[w].scope
      <4>1. \A x \in Scopes : Matches(x, d)' <=> Matches(x, d)
        BY DEF ScopesStay
      <4>2. \A x \in Scopes : x = scope => Matches(x, d)'
        BY <1>3, <4>1
      <4>3. \A x \in Scopes : x = scope' => Matches(x, d)'
        BY <2>1, <4>2
      <4>. QED
        BY <2>1, <2>2, <4>3 DEF Matches
    <3>2. window'[w].start <= clock'
      BY <1>3, <2>1, <2>2
    <3>. QED
      BY <2>1, <2>3, <3>1, <3>2 DEF Told
  <2>4. CASE window'[w].summarized
    <3>1. Ingest /\ Ending(w)
      BY <1>3, <2>1, <2>4, WindowMoves DEF IInv, ClockInv, Planned, Removed, Ended, SameWindow, Saved
    <3>. QED
      BY <1>3, <3>1, SummaryTells
  <2>. QED
    BY <2>3, <2>4
<1>. QED
  BY <1>1, <1>2, <1>3

LEMMA IncidentBegin == ASSUME Init PROVE IncidentInv
<1>1. \A e \in Events, d \in Devices : ~Opened(e, d)
  BY DEF Init, Opened
<1>. QED
  BY <1>1 DEF IncidentInv, AlarmsOpened, ProcessedTold, UnprocessedTold

(* An incident that was open before the step.                               *)
LEMMA OpenedMoves ==
    ASSUME TypeOK, AlarmsOpened, [Next]_vars,
           NEW e \in Events, NEW d \in Devices, Opened(e, d)'
    PROVE  /\ Raised(e)' /\ event'[e].device = d /\ event'[e].kind \in AlarmKinds
           /\ \/ Opened(e, d) /\ Raised(e)
              \/ ~Raised(e) /\ ~event'[e].processed /\ UNCHANGED <<clock, config, progress>>
<1>1. alarm'[d] = e /\ e # None
  BY DEF Opened
<1>2. CASE alarm[d] = e
  <2>1. Opened(e, d) /\ Raised(e) /\ event[e].device = d /\ event[e].kind \in AlarmKinds
    BY <1>1, <1>2 DEF Opened, AlarmsOpened
  <2>. QED
    BY <2>1, EventMoves
<1>3. CASE alarm[d] # e
  <2>1. ~Raised(e) /\ event'[e] # NoEvent /\ event'[e].device = d /\ event'[e].kind = "alarm.open"
    BY <1>1, <1>3, AlarmMoves
  <2>2. Raised(e)'
    BY <2>1 DEF Raised
  <2>3. ~event'[e].processed /\ UNCHANGED <<clock, config, progress>>
    BY <2>1, <2>2, EventArrives
  <2>. QED
    BY <2>1, <2>2, <2>3 DEF AlarmKinds
<1>. QED
  BY <1>2, <1>3

(* An alarm whose timestamp is the moment of its commit is on time.         *)
LEMMA PromptOnTime == ASSUME TypeOK, ClockInv, [Next]_vars, CommitLag = 0 PROVE OnTime
<1>. SUFFICES ASSUME NEW e \in Events, NEW w \in Windows,
                     ~Raised(e), Raised(e)', Covers(window[w], event'[e].ts), window[w].summarized
     PROVE  FALSE
  BY DEF OnTime
<1>1. event'[e].ts \in Nat /\ event'[e].ts <= clock /\ clock - CommitLag <= event'[e].ts
  BY EventArrives
<1>2. clock \in Nat /\ window[w].end \in Nat
  BY RowTypes DEF Covers, SavedRow
<1>3. window[w].end <= clock /\ event'[e].ts < window[w].end
  BY DEF Covers, ClockInv, WindowsPast, Behind
<1>. QED
  BY <1>1, <1>2, <1>3

LEMMA UnprocessedStep ==
    ASSUME IInv, ClockInv, IncidentInv, [Next]_vars, ScopesStay, OnTime
    PROVE  UnprocessedTold'
<1>. SUFFICES ASSUME NEW e \in Events, NEW d \in Devices, NEW c \in Channels, NEW w \in Windows,
                     Opened(e, d)', Awaits(c, e)', ~event'[e].processed,
                     Covers(window'[w], event'[e].ts), window'[w].summarized, Matches(window[w].scope, d)'
     PROVE  Told(d, c)'
  BY DEF UnprocessedTold, Covers, Saved
<1>0. TypeOK /\ clock \in Nat /\ now \in Nat /\ now <= clock
  BY RowTypes DEF IInv, ClockInv
<1>1. window'[w].start <= event'[e].ts /\ event'[e].ts < window'[w].end /\ Saved(window'[w])
  BY DEF Covers
<1>2. CASE ~Raised(e)
  <2>1. Raised(e)' /\ window' = window
    BY <1>0, <1>2, OpenedMoves DEF IncidentInv, config
  <2>. QED
    BY <1>2, <2>1 DEF OnTime
<1>3. CASE Raised(e)
  <2>1. Opened(e, d)
    BY <1>0, <1>3, OpenedMoves DEF IncidentInv
  <2>2. event'[e] = event[e]
    BY <1>0, <1>3, EventMoves
  <2>3. event[e].ts \in Nat /\ event[e].ts <= clock
    BY <1>0, <1>3, RowTypes DEF EventRow, ClockInv, EventsPast
  <2>4. channel'[c] = channel[c] /\ channel[c].since \in Nat
    <3>1. channel'[c].since # clock
      BY <1>0, <2>2, <2>3 DEF Awaits
    <3>. QED
      BY <1>0, <3>1, ChannelMoves, RowTypes DEF Awaits, ChannelRow
  <2>5. Awaits(c, e) /\ ~event[e].processed
    BY <2>2, <2>4 DEF Awaits
  <2>6. alarm[d] # None /\ channel[c].state = "enabled" /\ channel[c].since < event[e].ts
    BY <2>1, <2>5 DEF Opened, Awaits
  <2>7. ASSUME Ingest, Ending(w) PROVE Told(d, c)'
    <3>1. phase = "ingest" /\ UNCHANGED group
      BY <2>7 DEF Ingest
    <3>2. SameWindow(Seen.window[w], window[w]) /\ window[w].end <= now /\ window[w] \in SavedRow
      BY <1>0, <2>7, <3>1, EndingStays DEF ClockInv
    <3>3. window'[w].scope = window[w].scope /\ window'[w].end = window[w].end
      BY <2>7, <3>2 DEF Ingest, SavedRow
    <3>4. Matches(window[w].scope, d)
      BY <3>1, <3>3 DEF Matches
    <3>5. channel[c].since < now
      <4>1. window[w].end \in Nat
        BY <1>0, <3>2, RowTypes DEF SavedRow
      <4>2. event[e].ts < window[w].end
        BY <1>1, <2>2, <3>3
      <4>. QED
        BY <1>0, <2>3, <2>4, <2>6, <3>2, <4>1, <4>2
    <3>. QED
      BY <2>6, <2>7, <3>4, <3>5, SummaryTells
  <2>8. CASE Saved(window[w]) /\ window[w].summarized /\ window[w].start = window'[w].start
             /\ window[w].scope = window'[w].scope /\ window'[w].end \in Nat /\ window'[w].end <= window[w].end
    <3>1. window[w] \in SavedRow /\ window[w].start \in Nat /\ window[w].end \in Nat
      BY <1>0, <2>8, RowTypes DEF SavedRow
    <3>2. window[w].end <= clock /\ (phase # "idle" => window[w].end <= now)
      BY <2>8 DEF ClockInv, WindowsPast, Behind
    <3>4. Covers(window[w], event[e].ts)
      BY <1>1, <2>2, <2>3, <2>8, <3>1 DEF Covers
    <3>5. Matches(window[w].scope, d)
      <4>1. \A x \in Scopes : Matches(x, d)' <=> Matches(x, d)
        BY DEF ScopesStay
      <4>2. window[w].scope \in Scopes
        BY <3>1 DEF SavedRow
      <4>3. \A x \in Scopes : x = window'[w].scope => Matches(x, d)'
        BY DEF Matches
      <4>. QED
        BY <2>8, <4>1, <4>2, <4>3
    <3>6. Told(d, c)
      BY <2>1, <2>5, <2>8, <3>4, <3>5 DEF IncidentInv, UnprocessedTold
    <3>7. Ingest => channel[c].since < now
      <4>1. Ingest => phase = "ingest"
        BY DEF Ingest
      <4>2. event[e].ts < window[w].end
        BY <3>4 DEF Covers
      <4>. QED
        BY <1>0, <2>3, <2>4, <2>6, <3>1, <3>2, <4>1, <4>2
    <3>. QED
      BY <2>6, <3>6, <3>7, ToldStays
  <2>9. (Ingest /\ Ending(w))
        \/ (Saved(window[w]) /\ window[w].summarized /\ window[w].start = window'[w].start
             /\ window[w].scope = window'[w].scope /\ window'[w].end \in Nat /\ window'[w].end <= window[w].end)
    <3>1. CASE window'[w] = window[w]
      BY <1>0, <1>1, <3>1, RowTypes DEF SavedRow
    <3>2. CASE Ended(window[w], window'[w])
      BY <1>0, <1>1, <3>2, RowTypes DEF Ended, SameWindow, SavedRow, Earlier
    <3>3. ~Planned(window[w], window'[w]) /\ ~Removed(window[w], window'[w])
      BY <1>1 DEF Planned, Removed, Saved
    <3>. QED
      BY <1>0, <3>1, <3>2, <3>3, WindowMoves DEF ClockInv
  <2>. QED
    BY <2>7, <2>8, <2>9
<1>. QED
  BY <1>2, <1>3

LEMMA ProcessedStep ==
    ASSUME IInv, ClockInv, IncidentInv, [Next]_vars, ScopesStay, OnTime
    PROVE  ProcessedTold'
<1>. SUFFICES ASSUME NEW e \in Events, NEW d \in Devices, NEW c \in Channels,
                     Opened(e, d)', Awaits(c, e)', event'[e].processed, channel'[c].since < event'[e].by
     PROVE  Announces(e, c)' \/ Told(d, c)' \/ HiddenByRemoved(e)'
  BY DEF ProcessedTold
<1>0. TypeOK /\ clock \in Nat /\ now \in Nat /\ now <= clock /\ <<e, c>> \in Rows
  BY RowTypes DEF IInv, ClockInv, Rows, Keys
<1>1. Opened(e, d) /\ Raised(e) /\ event[e].device = d /\ event[e].kind \in AlarmKinds
  BY <1>0, OpenedMoves DEF IncidentInv, AlarmsOpened
<1>2. /\ event'[e].ts = event[e].ts
      /\ event'[e] = event[e] \/ (Ingest /\ ~event[e].processed /\ event'[e].by = now)
  BY <1>0, <1>1, EventMoves
<1>3. event[e].ts \in Nat /\ event[e].by \in Nat /\ event[e].ts <= clock
  BY <1>0, <1>1, RowTypes DEF EventRow, ClockInv, EventsPast
<1>4. channel'[c] = channel[c] /\ channel[c].since \in Nat
  <2>1. channel'[c].since # clock
    BY <1>0, <1>2, <1>3 DEF Awaits
  <2>. QED
    BY <1>0, <2>1, ChannelMoves, RowTypes DEF Awaits, ChannelRow
<1>5. Awaits(c, e) /\ alarm[d] # None
  BY <1>1, <1>2, <1>4 DEF Awaits, Opened
<1>6. Ingest => channel[c].since < now
  <2>1. Ingest /\ event'[e] = event[e] => event[e].by <= now
    BY <1>1 DEF Ingest, ClockInv, EventsPast, Behind
  <2>. QED
    BY <1>0, <1>2, <1>3, <1>4, <2>1
<1>7. Told(d, c) => Told(d, c)'
  BY <1>5, <1>6, ToldStays DEF Awaits
<1>8. CASE event'[e] = event[e]
  <2>1. Announces(e, c) \/ Told(d, c) \/ HiddenByRemoved(e)
    BY <1>1, <1>4, <1>5, <1>8 DEF IncidentInv, ProcessedTold
  <2>2. CASE Announces(e, c)
    <3>1. Row(<<e, c>>) # NoDelivery
      BY <2>2 DEF Announces, NoDelivery, None
    <3>2. \/ Row(<<e, c>>)'.status = Row(<<e, c>>).status
          \/ Row(<<e, c>>)'.status \in {"pending", "sent", "failed"}
          \/ /\ ~Live(<<e, c>>) \/ (phase = "deliver" /\ Suppressed(<<e, c>>))
             /\ UNCHANGED <<clock, config, fleet, phase, now>>
      BY <1>0, <3>1, RowMoves
    <3>3. Live(<<e, c>>)
      BY <1>5 DEF Live, Awaits
    <3>4. ASSUME phase = "deliver", Suppressed(<<e, c>>) PROVE Told(d, c)
      <4>1. PICK w \in Windows : Covers(window[w], now) /\ Matches(window[w].scope, d)
        BY <1>1, <3>4 DEF Suppressed
      <4>2. window[w].start \in Nat /\ window[w].end \in Nat
        BY <1>0, <4>1, RowTypes DEF Covers, SavedRow
      <4>3. ~window[w].summarized /\ window[w].start <= clock
        BY <1>0, <3>4, <4>1, <4>2 DEF Covers, ClockInv, WindowsPast, Behind
      <4>. QED
        BY <4>1, <4>3 DEF Told, Covers
    <3>. QED
      BY <1>7, <2>2, <3>2, <3>3, <3>4 DEF Announces
  <2>3. HiddenByRemoved(e) => HiddenByRemoved(e)'
    BY <1>8, HiddenStays
  <2>. QED
    BY <1>7, <2>1, <2>2, <2>3
<1>9. CASE Ingest /\ ~event[e].processed /\ event'[e].by = now
  <2>1. phase = "ingest" /\ UNCHANGED group
    BY <1>9 DEF Ingest
  <2>2. \/ Row(<<e, c>>)' # NoDelivery /\ Row(<<e, c>>)'.status = "pending"
        \/ \E w \in Windows : Covers(Seen.window[w], event[e].ts) /\ Matches(Seen.window[w].scope, d)
    BY <1>1, <1>5, <1>6, <1>9, IngestAnnounces DEF Awaits
  <2>3. ASSUME NEW w \in Windows, Covers(Seen.window[w], event[e].ts), Matches(Seen.window[w].scope, d)
        PROVE  Told(d, c) \/ HiddenByRemoved(e)'
    <3>1. CASE StatementReads /\ window[w].state = "deleted" /\ now < event[e].ts
      <4>1. window'[w].state = "deleted"
        BY <3>1, DeletedStays
      <4>. QED
        BY <1>2, <1>9, <3>1, <4>1 DEF HiddenByRemoved
    <3>2. CASE /\ SameWindow(Seen.window[w], window[w]) /\ window[w].summarized = Seen.window[w].summarized
               /\ window[w].start <= event[e].ts /\ window[w].start <= clock
               /\ Seen.window[w].end <= now => window[w].end = Seen.window[w].end
      <4>1. Saved(window[w]) /\ Matches(window[w].scope, d)
        BY <2>3, <3>2 DEF SameWindow
      <4>2. CASE ~window[w].summarized
        BY <3>2, <4>1, <4>2 DEF Told
      <4>3. CASE window[w].summarized
        <5>1. Seen.window[w].end <= now
          BY <2>1, <2>3, <3>2, <4>3 DEF ClockInv, SeenFaithful, SeenWindow, Covers
        <5>2. Covers(window[w], event[e].ts)
          BY <2>3, <3>2, <4>1, <5>1 DEF Covers, SameWindow
        <5>. QED
          BY <1>1, <1>5, <1>9, <4>1, <4>3, <5>2 DEF IncidentInv, UnprocessedTold
      <4>. QED
        BY <4>2, <4>3
    <3>. QED
      BY <1>1, <2>1, <2>3, <3>1, <3>2, HidingWindow
  <2>4. Row(<<e, c>>)'.status = "pending" => Announces(e, c)'
    BY DEF Announces
  <2>. QED
    BY <1>7, <2>2, <2>3, <2>4
<1>. QED
  BY <1>2, <1>8, <1>9

LEMMA IncidentStep ==
    ASSUME IInv, ClockInv, IncidentInv, [Next]_vars, ScopesStay, OnTime
    PROVE  IncidentInv'
<1>1. AlarmsOpened'
  <2>. SUFFICES ASSUME NEW e \in Events, NEW d \in Devices, Opened(e, d)'
       PROVE  Raised(e)' /\ event'[e].device = d /\ event'[e].kind \in AlarmKinds
    BY DEF AlarmsOpened
  <2>. QED
    BY OpenedMoves DEF IInv, IncidentInv
<1>. QED
  BY <1>1, UnprocessedStep, ProcessedStep DEF IncidentInv

LEMMA IncidentReports == ASSUME TypeOK, IncidentInv PROVE OpenIncidentReported
<1>. SUFFICES ASSUME NEW d \in Devices, NEW c \in Channels, alarm[d] # None, event[alarm[d]].processed,
                     Awaits(c, alarm[d]), channel[c].since < event[alarm[d]].by
     PROVE  Announces(alarm[d], c) \/ Told(d, c) \/ HiddenByRemoved(alarm[d])
  BY DEF OpenIncidentReported, Awaits, Announces, Told
<1>1. alarm[d] \in Events /\ Opened(alarm[d], d)
  BY DEF TypeOK, FleetOK, Opened
<1>. QED
  BY <1>1 DEF IncidentInv, ProcessedTold

(* No open incident is forgotten: its message, the summary of a window that *)
(* hid it or a summary still to come tells every channel that was enabled   *)
(* in time.  No alarm is committed after a window over its time has been    *)
(* summarised, and no device moves into or out of a window's scope.         *)
THEOREM IncidentsReported == Spec /\ [][ScopesStay /\ OnTime]_vars => []OpenIncidentReported
<1>1. Init => IncidentInv
  BY IncidentBegin
<1>2. IInv /\ ClockInv /\ IncidentInv /\ [Next]_vars /\ [ScopesStay /\ OnTime]_vars => IncidentInv'
  <2>1. UNCHANGED vars => ScopesStay /\ OnTime
    BY DEF vars, config, fleet, ScopesStay, Matches, OnTime, Raised
  <2>. QED
    BY <2>1, IncidentStep
<1>3. IInv /\ IncidentInv => OpenIncidentReported
  BY IncidentReports DEF IInv
<1>. QED
  BY <1>1, <1>2, <1>3, ClockAlways, PTL DEF Spec

(* The same when an event's timestamp is the moment of its commit.          *)
THEOREM PromptIncidentsReported ==
    ASSUME CommitLag = 0
    PROVE  Spec /\ [][ScopesStay]_vars => []OpenIncidentReported
<1>1. IInv /\ ClockInv /\ [Next]_vars /\ [ScopesStay]_vars => [ScopesStay /\ OnTime]_vars
  BY PromptOnTime DEF IInv
<1>. QED
  BY <1>1, IncidentsReported, ClockAlways, PTL DEF Spec
=============================================================================
