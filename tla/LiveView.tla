------------------------------- MODULE LiveView -------------------------------
(***************************************************************************)
(* The lists a browser page shows while somebody is signed in, and the     *)
(* server they come from: the live effect of App.tsx, the requests and the *)
(* WebSocket of api.ts, and the /live endpoint of api.py.  The page keeps  *)
(* the devices, alerts and services; it reloads all three every 8 s and,   *)
(* between reloads, follows a stream whose first message is a snapshot and *)
(* whose later ones carry only what changed on that connection.  Answers   *)
(* and messages travel on different connections, so they may be applied in *)
(* an order the server never had.                                          *)
(*                                                                         *)
(* A device's row is a content number, 0 standing for a device that is     *)
(* absent or archived; a service belongs to a device and has the content   *)
(* of its row; an alert is none, open or resolved.  The three requests of  *)
(* a reload are answered at one moment: no property relates two lists.     *)
(* Each sign-in starts the live effect once, with a session of its own, so *)
(* mounts numbers both.  How a page boots, signs in and signs out is in    *)
(* Accounts.                                                               *)
(***************************************************************************)
EXTENDS Naturals, Sequences, FiniteSets, SequencesExt

CONSTANTS
    Devices,        \* the devices of the fleet
    Alerts,         \* the alert rows there may be
    OpenAtFirst,    \* the alerts that are open when the page is loaded
    MaxContent,     \* contents a device row can have: 1..MaxContent
    MaxMounts,      \* times the page's live effect may start
    MaxReloads,     \* reloads that may be in flight together
    MaxMail,        \* stream messages that may be under way
    Waiting         \* no answer yet

ASSUME LiveViewAssumption ==
    /\ IsFiniteSet(Devices) /\ IsFiniteSet(Alerts) /\ OpenAtFirst \subseteq Alerts
    /\ {MaxContent, MaxMounts, MaxReloads, MaxMail} \subseteq Nat

VARIABLES
    table,          \* the device rows of the database
    incidents,      \* the alert rows of the database
    valid,          \* the session of the newest mount is accepted
    conns,          \* the server's side of the stream of each mount
    mounts,         \* how often the live effect has started
    user,           \* somebody is signed in: the newest effect runs
    devices, alerts, services,   \* what the page shows
    connected,      \* the stream indicator
    loads,          \* the reloads in flight
    sockets,        \* the page's side of the stream of each mount
    reloaded        \* a reload was applied since the stream's snapshot (for StreamFaithful)

server == <<table, incidents, valid>>
shown == <<devices, alerts, services>>
vars == <<server, conns, mounts, user, shown, connected, loads, sockets, reloaded>>

Contents == [Devices -> 0 .. MaxContent]
Nobody == [d \in Devices |-> 0]
Mount == 1 .. MaxMounts

\* What GET /alerts lists: every row there is; the stream lists the open ones.
Listed(rows) == {<<a, rows[a]>> : a \in {b \in Alerts : rows[b] # "none"}}
Opened(rows) == {r \in Listed(rows) : r[2] = "open"}
Idle == [first |-> TRUE, previous |-> Nobody, mail |-> <<>>]
Requested(m) == [mount |-> m, answer |-> Waiting]

Init ==
    /\ table = Nobody
    /\ incidents = [a \in Alerts |-> IF a \in OpenAtFirst THEN "open" ELSE "none"]
    /\ valid = FALSE /\ mounts = 0 /\ user = FALSE
    /\ conns = [m \in Mount |-> Idle]
    /\ devices = Nobody /\ alerts = {} /\ services = Nobody
    /\ connected = FALSE /\ loads = <<>>
    /\ sockets = [m \in Mount |-> "none"]
    /\ reloaded = FALSE

-----------------------------------------------------------------------------
(* The live effect: it runs while somebody is signed in.                   *)

\* The `active` flag of the effect started at mount m.
Active(m) == user /\ m = mounts

\* The server accepts requests that carry the session of mount m.
Accepted(m) == valid /\ m = mounts

\* Somebody signs in: the effect starts, with a first load and a socket.
SignIn ==
    /\ ~user
    /\ mounts < MaxMounts
    /\ user' = TRUE /\ valid' = TRUE
    /\ mounts' = mounts + 1
    /\ sockets' = [sockets EXCEPT ![mounts + 1] = "connecting"]
    /\ loads' = IF Len(loads) < MaxReloads THEN Append(loads, Requested(mounts + 1)) ELSE loads
    /\ UNCHANGED <<table, incidents, conns, shown, connected, reloaded>>

\* setUser(null) and the effect's cleanup: the socket is closed, the reconnect
\* timer cleared.
Leave ==
    /\ user' = FALSE
    /\ sockets' = [sockets EXCEPT ![mounts] =
                      IF @ \in {"connecting", "open"} THEN "closing" ELSE "none"]
    /\ conns' = [conns EXCEPT ![mounts] = Idle]

\* The sign-out button: the session is deleted, the lists are emptied.
SignOut ==
    /\ user
    /\ Leave
    /\ valid' = FALSE
    /\ devices' = Nobody /\ alerts' = {} /\ services' = Nobody
    /\ UNCHANGED <<table, incidents, mounts, connected, loads, reloaded>>

-----------------------------------------------------------------------------
(* Reloads.                                                                *)

\* The 8 s timer of the effect.
Tick ==
    /\ user
    /\ Len(loads) < MaxReloads
    /\ loads' = Append(loads, Requested(mounts))
    /\ UNCHANGED <<server, conns, mounts, user, shown, connected, sockets, reloaded>>

\* The server answers GET /devices, /alerts and /services.
Answered(i) ==
    /\ loads[i].answer = Waiting
    /\ Accepted(loads[i].mount)
    /\ loads' = [loads EXCEPT ![i].answer =
                    [devices |-> table, alerts |-> Listed(incidents), services |-> table]]
    /\ UNCHANGED <<server, conns, mounts, user, shown, connected, sockets, reloaded>>

\* Promise.all resolves: the lists are replaced, whoever is signed in by now.
Refreshed(i) ==
    /\ loads[i].answer # Waiting
    /\ devices' = loads[i].answer.devices
    /\ alerts' = loads[i].answer.alerts
    /\ services' = loads[i].answer.services
    /\ loads' = RemoveAt(loads, i)
    /\ reloaded' = TRUE
    /\ UNCHANGED <<server, conns, mounts, user, connected, sockets>>

\* A 401 is a notice like any other failure.
Refused_noticed(i) ==
    /\ loads[i].answer = Waiting
    /\ ~Accepted(loads[i].mount)
    /\ loads' = RemoveAt(loads, i)
    /\ UNCHANGED <<server, conns, mounts, user, sockets, shown, connected, reloaded>>

\* A request is refused with 401: the effect that asked signs out.
Refused(i) ==
    /\ loads[i].answer = Waiting
    /\ ~Accepted(loads[i].mount)
    /\ IF Active(loads[i].mount) THEN Leave ELSE UNCHANGED <<user, sockets, conns>>
    /\ loads' = RemoveAt(loads, i)
    /\ UNCHANGED <<server, mounts, shown, connected, reloaded>>

\* A request fails otherwise: a notice.
LoadFails(i) ==
    /\ loads[i].answer = Waiting
    /\ loads' = RemoveAt(loads, i)
    /\ UNCHANGED <<server, conns, mounts, user, shown, connected, sockets, reloaded>>

-----------------------------------------------------------------------------
(* The stream.                                                             *)

\* The server accepts the socket of mount m, if the session is good: onopen.
Open(m) ==
    /\ sockets[m] = "connecting"
    /\ Accepted(m)
    /\ sockets' = [sockets EXCEPT ![m] = "open"]
    /\ connected' = TRUE
    /\ UNCHANGED <<server, conns, mounts, user, shown, loads, reloaded>>

\* What the server sends: everything first, then what differs from last time.
Payload(c) ==
    [type |-> IF c.first THEN "snapshot" ELSE "patch",
     devices |-> [d \in Devices |-> IF c.first \/ c.previous[d] # table[d]
                                    THEN table[d] ELSE 0],
     removed |-> {d \in Devices : c.previous[d] # 0 /\ table[d] = 0},
     alerts |-> Opened(incidents)]

\* One pass of the live loop: the session is checked, then one message sent.
Push(m) ==
    /\ sockets[m] = "open" /\ Accepted(m)
    /\ Len(conns[m].mail) < MaxMail
    /\ conns' = [conns EXCEPT ![m] =
                    [first |-> FALSE, previous |-> table,
                     mail |-> Append(@.mail, Payload(@))]]
    /\ UNCHANGED <<server, mounts, user, shown, connected, loads, sockets, reloaded>>

\* Removed devices stay in the list.
Merged_kept(prev, message) ==
    IF message.type = "snapshot" THEN message.devices
    ELSE [d \in Devices |-> IF message.devices[d] # 0 THEN message.devices[d] ELSE prev[d]]

\* The list after a message: a snapshot replaces it, a patch is merged into it.
Merged(prev, message) ==
    IF message.type = "snapshot" THEN message.devices
    ELSE [d \in Devices |-> IF message.devices[d] # 0 THEN message.devices[d]
                            ELSE IF d \in message.removed THEN 0 ELSE prev[d]]

\* The alerts after a message: its open ones, and the resolved ones already there.
Realarmed(prev, message) == message.alerts \cup {r \in prev : r[2] = "resolved"}

\* onmessage, which a socket that was closed no longer gets.
Receive(m) ==
    /\ sockets[m] = "open"
    /\ conns[m].mail # <<>>
    /\ LET message == Head(conns[m].mail) IN
       /\ devices' = Merged(devices, message)
       /\ alerts' = Realarmed(alerts, message)
       /\ reloaded' = (reloaded /\ message.type = "patch")
    /\ conns' = [conns EXCEPT ![m].mail = Tail(@)]
    /\ UNCHANGED <<server, mounts, user, services, connected, loads, sockets>>

\* A stopped stream no longer reports that it closed.
Close_silent(m) ==
    /\ sockets[m] \in {"connecting", "open", "closing"}
    /\ connected' = (connected /\ ~Active(m))
    /\ sockets' = [sockets EXCEPT ![m] = IF Active(m) THEN "waiting" ELSE "none"]
    /\ conns' = [conns EXCEPT ![m] = Idle]
    /\ UNCHANGED <<server, mounts, user, shown, loads, reloaded>>

\* onclose, whatever closed the socket: the indicator goes off, and an effect
\* that still runs arms its reconnect timer.
Close(m) ==
    /\ sockets[m] \in {"connecting", "open", "closing"}
    /\ connected' = FALSE
    /\ sockets' = [sockets EXCEPT ![m] = IF Active(m) THEN "waiting" ELSE "none"]
    /\ conns' = [conns EXCEPT ![m] = Idle]
    /\ UNCHANGED <<server, mounts, user, shown, loads, reloaded>>

\* The server refuses or ends the socket (code 1008), or the closing handshake
\* of a socket the page closed is over.
Closed(m) == (~Accepted(m) \/ sockets[m] = "closing") /\ Close(m)

\* The connection is lost, or a send took more than 2 s.
Drop(m) == Accepted(m) /\ sockets[m] # "closing" /\ Close(m)

\* The reconnect timer (at most 30 s).
Reconnect(m) ==
    /\ sockets[m] = "waiting" /\ Active(m)
    /\ sockets' = [sockets EXCEPT ![m] = "connecting"]
    /\ UNCHANGED <<server, conns, mounts, user, shown, connected, loads, reloaded>>

-----------------------------------------------------------------------------
(* The rest of the system, as this page sees it.                           *)

DeviceChanges ==
    \E d \in Devices, v \in 0 .. MaxContent :
        /\ v # table[d]
        /\ table' = [table EXCEPT ![d] = v]
        /\ UNCHANGED incidents

AlertChanges ==
    \E a \in Alerts :
        /\ incidents[a] # "resolved"
        /\ incidents' = [incidents EXCEPT ![a] = IF @ = "none" THEN "open" ELSE "resolved"]
        /\ UNCHANGED table

Change ==
    /\ DeviceChanges \/ AlertChanges
    /\ UNCHANGED <<valid, conns, mounts, user, shown, connected, loads, sockets, reloaded>>

\* An administrator revokes the account, or the session's hours are over.
Revoke ==
    /\ valid
    /\ valid' = FALSE
    /\ UNCHANGED <<table, incidents, conns, mounts, user, shown, connected,
                   loads, sockets, reloaded>>

\* A reload in flight gets on: an answer, or its end.
LoadGoesOn(i) ==
    /\ i \in DOMAIN loads
    /\ Answered(i) \/ Refreshed(i) \/ Refused(i)

\* A socket gets on: neither Push nor Receive can keep the other waiting for
\* ever, because the mail under way is bounded.
StreamGoesOn(m) ==
    Open(m) \/ Push(m) \/ Receive(m) \/ Closed(m) \/ Reconnect(m)

Calm ==
    \/ SignIn \/ Tick
    \/ \E i \in DOMAIN loads : LoadGoesOn(i)
    \/ \E m \in Mount : StreamGoesOn(m)

Disturbed ==
    \/ SignOut \/ Change \/ Revoke
    \/ \E i \in DOMAIN loads : LoadFails(i)
    \/ \E m \in Mount : Drop(m)

Next == Calm \/ Disturbed

Spec == Init /\ [][Next]_vars

\* Requests are answered, timers fire and sockets report, as long as the page
\* runs; failures and changes of the fleet come to an end.
FairSpec ==
    /\ Spec
    /\ WF_vars(Tick)
    /\ WF_vars(\E i \in 1 .. MaxReloads : LoadGoesOn(i))
    /\ WF_vars(\E m \in Mount : StreamGoesOn(m))
    /\ <>[][Calm]_vars

-----------------------------------------------------------------------------
(* Properties.                                                             *)

\* Patches are relative to what the connection sent before (api.py:971): as
\* long as no reload intervened, the list shown and the messages under way add
\* up to what the server believes this page knows.  A patch applied twice, to
\* the list of another connection breaks it.
StreamFaithful ==
    \A m \in Mount :
        Active(m) /\ sockets[m] = "open" /\ ~conns[m].first /\ ~reloaded
        => FoldLeft(Merged, devices, conns[m].mail) = conns[m].previous

\* What the page shows is what the database holds.
InSync ==
    /\ devices = table
    /\ alerts = Listed(incidents)
    /\ services = table

\* Reloads overtake one another and overwrite newer patches, a patch never
\* repeats what it sent once, and sessions and connections are lost at any
\* moment; still, a page that stays signed in ends up with an accepted session
\* (a revoked one is shown the sign-in form, App.tsx:108), with an open stream
\* (the reconnect timer is never left unarmed, api.ts:91), and showing the
\* database for good.
StaysLive == <>[]user => <>[](valid /\ InSync /\ \E m \in Mount : Active(m) /\ sockets[m] = "open")

\* How far the indicator can be trusted.  "Live updates" always means a socket that
\* is open or that the page is closing: onclose of every socket, the page's own
\* closing included, takes it back (api.ts:90).  "Reconnecting" over an open socket
\* happens, since the late end of an earlier sign-in's socket is reported like the
\* end of the present one; but never on the first sign-in of a page.
IndicatorHonest ==
    /\ connected => \E m \in Mount : sockets[m] \in {"open", "closing"}
    /\ \A m \in Mount : sockets[m] = "open" /\ ~connected => m > 1
=============================================================================
