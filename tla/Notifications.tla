---------------------------- MODULE Notifications ----------------------------
(***************************************************************************)
(* The notification queue of sparkscope/notifications.py together with the *)
(* API calls that change what it reads (channels, maintenance windows and  *)
(* device groups in sparkscope/extensions.py and api.py) and the retention *)
(* of delivery rows (sparkscope/history.py).                               *)
(*                                                                         *)
(* Notifier.tick is one process.  Each of its transactions is a step, so   *)
(* that every API call, the clock, and a crash may come between two of     *)
(* them; the message itself is a step between two transactions.  A tick    *)
(* reads the clock once, at its start, and uses that value throughout.     *)
(*                                                                         *)
(* One unit of time stands for 30 seconds.  Time 0 is the service's start; *)
(* next_attempt = 0 in the code is 1970, here LongAgo.                     *)
(***************************************************************************)
EXTENDS Integers, FiniteSets

CONSTANTS
    Events,         \* identities of fleet events
    Devices,
    Channels,
    Windows,        \* identities of maintenance windows
    Tests,          \* identities of channel tests
    Groups,         \* device groups (strings)
    Scopes,         \* the window scopes an administrator may choose
    MaxAttempts,    \* 5 in the code
    EventLimit,     \* 200 in the code: events read by a tick
    DueLimit,       \* 10 in the code: deliveries handled by a tick
    Retention,      \* event_days
    CommitLag,      \* how long before its commit an event's ts may be taken
    StatementReads, \* FALSE: a transaction reads from one snapshot;
                    \* TRUE: each SELECT sees the latest commit
    Horizon         \* bound: the clock stops here and no time is later

ASSUME BoundsAssumption ==
    /\ MaxAttempts \in Nat \ {0}
    /\ EventLimit \in Nat \ {0}
    /\ DueLimit \in Nat \ {0}
    /\ Retention \in Nat
    /\ CommitLag \in Nat
    /\ StatementReads \in BOOLEAN
    /\ Horizon \in Nat

ASSUME ScopesAssumption == Scopes \subseteq [ids : SUBSET Devices, group : Groups \cup {""}]

(* An event's, a window's and a test's event_id never coincide. *)
ASSUME KeysAssumption ==
    /\ Events \cap Windows = {}
    /\ Events \cap Tests = {}
    /\ Windows \cap Tests = {}

VARIABLES
    clock,
    channel,    \* [Channels -> NotificationChannel rows]
    window,     \* [Windows -> MaintenanceWindow rows]
    group,      \* [Devices -> Groups], Device.group
    alarm,      \* [Devices -> the event that opened its unresolved alert]
    event,      \* [Events -> FleetEvent rows]
    delivery,   \* [Rows -> NotificationDelivery rows]
    archive,    \* history: the delivery rows that retention deleted
    posts,      \* history: messages each row's endpoint has received
    phase,      \* where tick is
    now,        \* tick's reading of the clock
    view,       \* the channels and windows tick has read
    due,        \* the deliveries tick has yet to handle
    current,    \* the delivery being sent
    accepted    \* whether the last send returned without an error

config   == <<channel, window, group>>
fleet    == <<alarm, event>>
outbox   == <<delivery, archive, posts>>
progress == <<phase, now, view, due, current, accepted>>
vars     == <<clock, config, fleet, outbox, progress>>

-----------------------------------------------------------------------------
Keys == Events \cup Windows \cup Tests     \* what event_id names
Rows == Keys \X Channels                   \* uq_notification_event_channel

None    == "none"
LongAgo == -(Retention + 1)
Times   == 0..Horizon

Earlier(s, t) == IF s <= t THEN s ELSE t
Later(t)      == Earlier(t, Horizon)
Claim         == 2                                   \* 60 s
Backoff(n)    == IF n \in 1..5 THEN <<1, 2, 4, 8, 16>>[n] ELSE 30
                                                     \* min(900, 30 * 2 ** (n - 1)) s

AlarmKinds == {"alarm.open", "alarm.escalate", "alarm.resolve"}
Kinds      == AlarmKinds \cup {"connection.changed"}

ChannelRow  == [state : {"none", "enabled", "disabled", "deleted"}, since : Times]
WindowRow   == [state : {"saved"}, start : Times, end : Times,
                scope : Scopes, summarized : BOOLEAN]
                  \cup [state : {"none", "deleted"}]
EventRow    == [kind : Kinds, device : Devices, ts : Times,
                processed : BOOLEAN, by : Times]     \* by: history, the tick that read it
DeliveryRow == [status : {"pending", "sent", "failed", "suppressed", "cancelled"},
                attempts : 0..MaxAttempts, next : LongAgo..Horizon, about : SUBSET Devices]
View        == [channel : [Channels -> ChannelRow], window : [Windows -> WindowRow]]

NoWindow   == [state |-> "none"]
NoEvent    == [kind |-> None]
NoDelivery == [status |-> None]

Phases == {"idle", "ingest", "select", "deliver", "send", "record"}

Matches(scope, d) ==
    /\ scope.ids = {} \/ d \in scope.ids
    /\ scope.group = "" \/ scope.group = group[d]

Saved(w)     == w.state = "saved"
Covers(w, t) == Saved(w) /\ w.start <= t /\ t < w.end
Exists(r)    == delivery[r] # NoDelivery
Raised(e)    == event[e] # NoEvent
Pending(r)   == delivery[r].status = "pending"

ConfigOK ==
    /\ clock \in Times
    /\ channel \in [Channels -> ChannelRow]
    /\ window \in [Windows -> WindowRow]
    /\ group \in [Devices -> Groups]

FleetOK ==
    /\ alarm \in [Devices -> Events \cup {None}]
    /\ event \in [Events -> EventRow \cup {NoEvent}]

OutboxOK ==
    /\ delivery \in [Rows -> DeliveryRow \cup {NoDelivery}]
    /\ archive \in [Rows -> DeliveryRow \cup {NoDelivery}]
    /\ posts \in [Rows -> Nat]

ProgressOK ==
    /\ phase \in Phases
    /\ now \in Times
    /\ view \in View
    /\ due \subseteq Rows
    /\ current \in Rows \cup {<<>>}
    /\ accepted \in BOOLEAN

TypeOK == ConfigOK /\ FleetOK /\ OutboxOK /\ ProgressOK

Unread == [channel |-> [c \in Channels |-> [state |-> "none", since |-> 0]],
           window  |-> [w \in Windows |-> NoWindow]]

Init ==
    /\ clock = 0
    /\ channel = Unread.channel
    /\ window = Unread.window
    /\ group \in [Devices -> Groups]
    /\ alarm = [d \in Devices |-> None]
    /\ event = [e \in Events |-> NoEvent]
    /\ delivery = [r \in Rows |-> NoDelivery]
    /\ archive = delivery
    /\ posts = [r \in Rows |-> 0]
    /\ phase = "idle"
    /\ now = 0
    /\ view = Unread
    /\ due = {}
    /\ current = <<>>
    /\ accepted = FALSE

-----------------------------------------------------------------------------
(* The rest of the program: time, the alarm engine, the administrator.      *)

Advance ==
    /\ clock < Horizon
    /\ clock' = clock + 1
    /\ UNCHANGED <<config, fleet, outbox, progress>>

(* The collector commits an event together with the alert row it is about;  *)
(* the event's ts is the poll's, taken before the commit.                   *)
RaiseEvent(e, d, kind) ==
    /\ ~Raised(e)
    /\ \E ts \in Times :
        /\ clock - CommitLag <= ts /\ ts <= clock
        /\ event' = [event EXCEPT ![e] = [kind |-> kind, device |-> d, ts |-> ts,
                                         processed |-> FALSE, by |-> 0]]
    /\ UNCHANGED <<clock, config, outbox, progress>>

OpenAlarm(e, d) ==
    /\ alarm[d] = None
    /\ RaiseEvent(e, d, "alarm.open")
    /\ alarm' = [alarm EXCEPT ![d] = e]

EscalateAlarm(e, d) ==
    /\ alarm[d] # None
    /\ RaiseEvent(e, d, "alarm.escalate")
    /\ UNCHANGED alarm

ResolveAlarm(e, d) ==
    /\ alarm[d] # None
    /\ RaiseEvent(e, d, "alarm.resolve")
    /\ alarm' = [alarm EXCEPT ![d] = None]

OtherEvent(e, d) ==
    /\ RaiseEvent(e, d, "connection.changed")
    /\ UNCHANGED alarm

(* add_channel and edit_channel.  A channel that stays enabled keeps the    *)
(* moment it was enabled; every other save starts from now.                 *)
SaveChannel(c, state) ==
    /\ channel[c].state # "deleted"
    /\ channel' = [channel EXCEPT ![c] =
          [state |-> state,
           since |-> IF @.state = "enabled" /\ state = "enabled" THEN @.since ELSE clock]]
    /\ UNCHANGED <<clock, window, group, fleet, outbox, progress>>

DeleteChannel(c) ==
    /\ channel[c].state \in {"enabled", "disabled"}
    /\ channel' = [channel EXCEPT ![c].state = "deleted"]
    /\ UNCHANGED <<clock, window, group, fleet, outbox, progress>>

AddWindow(w, start, end, scope) ==
    /\ window[w] = NoWindow
    /\ start < end
    /\ window' = [window EXCEPT ![w] = [state |-> "saved", start |-> start, end |-> end,
                                       scope |-> scope, summarized |-> FALSE]]
    /\ UNCHANGED <<clock, channel, group, fleet, outbox, progress>>

(* A future window is removed; a started one ends now at the latest. *)
EndWindow(w) ==
    /\ Saved(window[w])
    /\ window' = [window EXCEPT ![w] =
          IF window[w].start > clock
          THEN [state |-> "deleted"]
          ELSE [window[w] EXCEPT !.end = Earlier(window[w].end, clock)]]
    /\ UNCHANGED <<clock, channel, group, fleet, outbox, progress>>

(* edit_device *)
Regroup(d, g) ==
    /\ group' = [group EXCEPT ![d] = g]
    /\ UNCHANGED <<clock, channel, window, fleet, outbox, progress>>

NewRow(next, about) ==
    [status |-> "pending", attempts |-> 0, next |-> next, about |-> about]

TestChannel(t, c) ==
    /\ channel[c].state = "enabled"
    /\ \A k \in Channels : delivery[<<t, k>>] = NoDelivery /\ archive[<<t, k>>] = NoDelivery
    /\ delivery' = [delivery EXCEPT ![<<t, c>>] = NewRow(clock, {})]
    /\ UNCHANGED <<clock, config, fleet, archive, posts, progress>>

(* maintain: decided rows older than event_days go. *)
Purge ==
    LET old == {r \in Rows : Exists(r) /\ ~Pending(r) /\ delivery[r].next < clock - Retention}
    IN  /\ old # {}
        /\ delivery' = [r \in Rows |-> IF r \in old THEN NoDelivery ELSE delivery[r]]
        /\ archive' = [r \in Rows |-> IF r \in old THEN delivery[r] ELSE archive[r]]
        /\ UNCHANGED <<clock, config, fleet, posts, progress>>

-----------------------------------------------------------------------------
(* Notifier.tick                                                            *)

BeginTick ==
    /\ phase = "idle"
    /\ now' = clock
    /\ view' = IF StatementReads THEN [channel |-> channel, window |-> window] ELSE Unread
    /\ phase' = "ingest"
    /\ UNCHANGED <<clock, config, fleet, outbox, due, current, accepted>>

(* What the first transaction sees of the channels and windows. *)
Seen == IF StatementReads THEN view ELSE [channel |-> channel, window |-> window]

Unprocessed == {e \in Events : Raised(e) /\ ~event[e].processed}

(* E is a choice of the first `limit' members of S in the order of key. *)
FirstOf(E, S, limit, key(_)) ==
    /\ Cardinality(E) = Earlier(limit, Cardinality(S))
    /\ \A x \in E, y \in S \ E : key(x) <= key(y)

EventTime(e)   == event[e].ts
NextAttempt(r) == delivery[r].next

Enabled(c, since) == Seen.channel[c].state = "enabled" /\ Seen.channel[c].since <= since

Quiet_closed(e) ==       \* mutant: the window's end counts as inside
    \E w \in Windows :
        /\ Saved(Seen.window[w])
        /\ Seen.window[w].start <= event[e].ts /\ event[e].ts <= Seen.window[w].end
        /\ Matches(Seen.window[w].scope, event[e].device)

Quiet(e) ==
    \E w \in Windows :
        /\ Covers(Seen.window[w], event[e].ts)
        /\ Matches(Seen.window[w].scope, event[e].device)

Announced_opened(E) ==   \* mutant: only opened alarms are announced
    {<<e, c>> : e \in {x \in E : event[x].kind = "alarm.open" /\ ~Quiet(x)}, c \in Channels}

(* The deliveries of a batch of events: one per channel enabled by then.    *)
Announced(E) ==
    {<<e, c>> : e \in {x \in E : event[x].kind \in AlarmKinds /\ ~Quiet(x)}, c \in Channels}

(* The devices whose incident a window that ends leaves open. *)
Outstanding(w) ==
    {d \in Devices :
        /\ alarm[d] # None
        /\ Matches(Seen.window[w].scope, d)
        /\ ~ \E v \in Windows : Covers(Seen.window[v], now) /\ Matches(Seen.window[v].scope, d)}

Ending_reported(w) ==    \* mutant: a window with nothing to report stays open
    /\ Saved(Seen.window[w]) /\ Seen.window[w].end <= now /\ ~Seen.window[w].summarized
    /\ Outstanding(w) # {}

Ending(w) == Saved(Seen.window[w]) /\ Seen.window[w].end <= now /\ ~Seen.window[w].summarized

Ingested(E) ==
    [r \in Rows |->
        IF Exists(r) THEN delivery[r]
        ELSE IF r \in Announced(E) /\ Enabled(r[2], event[r[1]].ts)
             THEN NewRow(LongAgo, {event[r[1]].device})
        ELSE IF r[1] \in Windows /\ Ending(r[1]) /\ Outstanding(r[1]) # {}
                /\ Seen.channel[r[2]].state = "enabled"
             THEN NewRow(LongAgo, Outstanding(r[1]))
        ELSE NoDelivery]

Ingest ==
    /\ phase = "ingest"
    /\ \E E \in SUBSET Unprocessed :
        /\ FirstOf(E, Unprocessed, EventLimit, EventTime)
        /\ event' = [e \in Events |->
              IF e \in E THEN [event[e] EXCEPT !.processed = TRUE, !.by = now] ELSE event[e]]
        /\ delivery' = Ingested(E)
    /\ window' = [w \in Windows |->
          IF Ending(w) THEN [window[w] EXCEPT !.summarized = TRUE] ELSE window[w]]
    /\ view' = Unread
    /\ phase' = "select"
    /\ UNCHANGED <<clock, channel, group, alarm, archive, posts, now, due, current, accepted>>

Due_any == {r \in Rows : Exists(r) /\ delivery[r].next <= now}   \* mutant: decided rows too

Due == {r \in Rows : Exists(r) /\ Pending(r) /\ delivery[r].next <= now}

SelectDue ==
    /\ phase = "select"
    /\ \E D \in SUBSET Due :
        /\ FirstOf(D, Due, DueLimit, NextAttempt)
        /\ due' = D
    /\ phase' = "deliver"
    /\ UNCHANGED <<clock, config, fleet, outbox, now, view, current, accepted>>

(* The next delivery to handle, in the order of next_attempt. *)
Head(r) ==
    /\ phase = "deliver"
    /\ r \in due
    /\ \A q \in due : delivery[r].next <= delivery[q].next

Live(r)      == channel[r[2]].state = "enabled"
Exhausted(r) == delivery[r].attempts >= MaxAttempts

(* A summary and a test name no device, so no window suppresses them. *)
Suppressed(r) ==
    /\ r[1] \in Events
    /\ \E w \in Windows :
        Covers(window[w], now) /\ Matches(window[w].scope, event[r[1]].device)

Drop_unrecorded(r, status) ==   \* mutant: skipped without a decision
    /\ due' = due \ {r}
    /\ UNCHANGED <<clock, config, fleet, outbox, phase, now, view, current, accepted>>

Drop(r, status) ==
    /\ delivery' = [delivery EXCEPT ![r].status = status]
    /\ due' = due \ {r}
    /\ UNCHANGED <<clock, config, fleet, archive, posts, phase, now, view, current, accepted>>

CancelDelivery(r)   == Head(r) /\ ~Live(r) /\ Drop(r, "cancelled")
ExhaustDelivery(r)  == Head(r) /\ Live(r) /\ Exhausted(r) /\ Drop(r, "failed")
SuppressDelivery(r) ==
    Head(r) /\ Live(r) /\ ~Exhausted(r) /\ Suppressed(r) /\ Drop(r, "suppressed")

Claimed_uncounted(r) ==         \* mutant: the attempt is not counted before the I/O
    [delivery EXCEPT ![r].next = Later(now + Claim)]

Claimed(r) ==
    [delivery EXCEPT ![r].attempts = @ + 1, ![r].next = Later(now + Claim)]

(* The attempt is committed before the I/O. *)
ClaimDelivery(r) ==
    /\ Head(r) /\ Live(r) /\ ~Exhausted(r) /\ ~Suppressed(r)
    /\ delivery' = Claimed(r)
    /\ current' = r
    /\ phase' = "send"
    /\ UNCHANGED <<clock, config, fleet, archive, posts, now, view, due, accepted>>

(* An accepted message has arrived; one that ends in an error may have. *)
Send ==
    /\ phase = "send"
    /\ \E arrived, ok \in BOOLEAN :
        /\ ok => arrived
        /\ accepted' = ok
        /\ posts' = [posts EXCEPT ![current] = IF arrived THEN @ + 1 ELSE @]
    /\ phase' = "record"
    /\ UNCHANGED <<clock, config, fleet, delivery, archive, now, view, due, current>>

Outcome(r) ==
    IF accepted THEN "sent" ELSE IF Exhausted(r) THEN "failed" ELSE "pending"

Record ==
    /\ phase = "record"
    /\ delivery' = [delivery EXCEPT
          ![current].status = Outcome(current),
          ![current].next = Later(clock + Backoff(delivery[current].attempts))]
    /\ due' = due \ {current}
    /\ current' = <<>>
    /\ accepted' = FALSE
    /\ phase' = "deliver"
    /\ UNCHANGED <<clock, config, fleet, archive, posts, now, view>>

Rest ==
    /\ now' = 0
    /\ view' = Unread
    /\ due' = {}
    /\ current' = <<>>
    /\ accepted' = FALSE
    /\ phase' = "idle"
    /\ UNCHANGED <<clock, config, fleet, outbox>>

Done == phase = "deliver" /\ due = {}

EndTick == Done /\ Rest

(* The process stops, or a transaction fails and run() swallows the error:  *)
(* what is not committed is lost and the next tick starts afresh.           *)
Abort == phase # "idle" /\ ~Done /\ Rest

-----------------------------------------------------------------------------
Tick ==
    \/ BeginTick \/ Ingest \/ SelectDue \/ Send \/ Record \/ EndTick
    \/ \E r \in Rows :
        CancelDelivery(r) \/ ExhaustDelivery(r) \/ SuppressDelivery(r) \/ ClaimDelivery(r)

Alarms ==
    \E e \in Events, d \in Devices :
        OpenAlarm(e, d) \/ EscalateAlarm(e, d) \/ ResolveAlarm(e, d) \/ OtherEvent(e, d)

Administration ==
    \/ \E c \in Channels :
        \/ \E state \in {"enabled", "disabled"} : SaveChannel(c, state)
        \/ DeleteChannel(c)
        \/ \E t \in Tests : TestChannel(t, c)
    \/ \E w \in Windows :
        \/ \E start, end \in Times, scope \in Scopes : AddWindow(w, start, end, scope)
        \/ EndWindow(w)
    \/ \E d \in Devices, g \in Groups : Regroup(d, g)

Next == Tick \/ Abort \/ Advance \/ Alarms \/ Administration \/ Purge

Spec == Init /\ [][Next]_vars

(* run() loops for as long as the process lives, and it is interrupted (by  *)
(* a stop or a failed transaction) finitely often.                          *)
Fairness == WF_vars(Advance) /\ WF_vars(Tick) /\ <>[][~Abort]_vars

FairSpec == Spec /\ Fairness

-----------------------------------------------------------------------------
(* What the queue promises.                                                 *)

(* A delivery row, whether or not retention has deleted it.                 *)
Row(r) == IF Exists(r) THEN delivery[r] ELSE archive[r]

(* The life of one delivery is that of an Outbox row: attempts are counted  *)
(* before they are made and never exceed the cap whatever crashes come      *)
(* between, "sent" means it arrived, a decided row is never sent again and  *)
(* a deleted one never queued again.                                        *)
RowStatus == [r \in Rows |-> Row(r).status]
RowUsed   == [r \in Rows |-> IF Row(r) = NoDelivery THEN 0 ELSE Row(r).attempts]

Ob == INSTANCE Outbox WITH status <- RowStatus, used <- RowUsed, posts <- posts

ImplementsOutbox == Ob!Spec

(* The endpoint of a delivery hears at most as many messages as attempts    *)
(* were committed for it, crashes between commit and send included; a       *)
(* delivery reported as sent was received.                                  *)
AttemptsPaidFor ==
    \A r \in Rows : Exists(r) =>
        /\ posts[r] <= delivery[r].attempts
        /\ delivery[r].status = "sent" => posts[r] > 0

(* Between the SELECT of the windows and that of the events, a window that  *)
(* tick has read may be removed before it starts: it still hides an event   *)
(* that is younger than the tick.                                           *)
HiddenByRemoved(e) ==
    /\ StatementReads /\ event[e].by < event[e].ts
    /\ \E w \in Windows : window[w].state = "deleted"

(* An alarm event that a tick has taken off the queue has a delivery for    *)
(* every channel enabled since before the event and before that tick,       *)
(* unless a maintenance window covers it: nothing is lost to a crash        *)
(* between marking the event and queueing it, or to the batch limit.        *)
EveryEventQueued ==
    \A e \in Events, c \in Channels :
        (/\ Raised(e) /\ event[e].processed /\ event[e].kind \in AlarmKinds
         /\ channel[c].state = "enabled"
         /\ channel[c].since < event[e].ts /\ channel[c].since < event[e].by)
        => \/ Row(<<e, c>>) # NoDelivery
           \/ \E w \in Windows : Saved(window[w]) /\ window[w].start <= event[e].ts
           \/ HiddenByRemoved(e)

(* An incident that is still open is known to every channel enabled since   *)
(* before it opened: its own message was not suppressed, or the summary of  *)
(* a window names it, or a window that has yet to be summarised covers it.  *)
OpenIncidentReported ==
    \A d \in Devices, c \in Channels :
        LET e == alarm[d] IN
        (/\ e # None /\ event[e].processed
         /\ channel[c].state = "enabled"
         /\ channel[c].since < event[e].ts /\ channel[c].since < event[e].by)
        => \/ Row(<<e, c>>).status \in {"pending", "sent", "failed"}
           \/ \E w \in Windows :
                \/ Saved(window[w]) /\ ~window[w].summarized /\ Matches(window[w].scope, d)
                \/ Row(<<w, c>>) # NoDelivery /\ d \in Row(<<w, c>>).about
           \/ HiddenByRemoved(e)

(* Every queued delivery is decided, whatever the endpoint does and however *)
(* often the process is interrupted.                                        *)
DeliveriesDecided ==
    \A r \in Rows : Exists(r) ~> ~(Exists(r) /\ Pending(r))

(* Every window that ends is summarised. *)
WindowsSummarized ==
    \A w \in Windows :
        (Saved(window[w]) /\ window[w].end <= clock) ~> (Saved(window[w]) /\ window[w].summarized)
=============================================================================
