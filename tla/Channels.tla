------------------------------ MODULE Channels ------------------------------
(***************************************************************************)
(* The notification and maintenance panels (SettingsExtensions.tsx), the   *)
(* query hook that feeds them (useQuery, ui.tsx) and the requests they     *)
(* make (extensions.py): a list that is polled and reloaded after every    *)
(* action, a form that adds a channel or edits one, the buttons of a row,  *)
(* and one maintenance window.                                             *)
(* A secret is represented by the channel it was typed for; a window by    *)
(* where the clock stands relative to its start and end.                   *)
(***************************************************************************)
EXTENDS Integers, FiniteSets

CONSTANTS ChIds,      \* identities channels may be given
          MaxActions, \* bound: requests that change something
          MaxPolls    \* bound: unanswered requests for the list

ASSUME ChannelsAssumption == "" \notin ChIds /\ "new" \notin ChIds

VARIABLES chStored, \* the channels the server keeps, and those it could create
          chWindow, \* the maintenance window at the server
          chLists,  \* the channels displayed, or none while they load
          chWindowSeen, \* the window as displayed
          chPolls,  \* requests for the list not applied yet
          chForm,   \* the channel form
          chAct,    \* the request in flight (busy)
          chError,  \* the error box is shown
          chActs    \* requests made, for the bound

chVars == <<chStored, chWindow, chLists, chWindowSeen, chPolls, chForm, chAct, chError, chActs>>

Secrets == ChIds \cup {"", "new"}
Channel == [present : BOOLEAN, enabled : BOOLEAN, secret : Secrets]
Gone == [present |-> FALSE, enabled |-> FALSE, secret |-> ""]

NoList == [loaded |-> FALSE, rows |-> [c \in ChIds |-> Gone]]
\* Secrets are never sent to the page.
Public(stored) == [loaded |-> TRUE, rows |-> [c \in ChIds |-> [stored[c] EXCEPT !.secret = ""]]]

Blank == [editing |-> "", secret |-> "", enabled |-> FALSE]
ChIdle == [kind |-> "idle", id |-> "", secret |-> "", enabled |-> FALSE, phase |-> "idle"]

ChannelsInit ==
  /\ \E old \in {{CHOOSE c \in ChIds : TRUE}} : \* one channel exists, enabled
       chStored = [c \in ChIds |-> IF c \in old THEN [present |-> TRUE, enabled |-> TRUE, secret |-> c] ELSE Gone]
  /\ chWindow = "none"
  /\ chLists = NoList
  /\ chWindowSeen = "none"
  /\ chPolls = {[live |-> TRUE, answer |-> NoList]}
  /\ chForm = Blank
  /\ chAct = ChIdle
  /\ chError = FALSE
  /\ chActs = 0

-----------------------------------------------------------------------------
(* The query hook.  A reload runs its effect again: the requests of the    *)
(* effect before are disowned, what is displayed is cleared.               *)

ReloadLists ==
  /\ chLists' = NoList
  /\ chPolls' = {[p EXCEPT !.live = FALSE] : p \in chPolls} \cup {[live |-> TRUE, answer |-> NoList]}

\* The interval timer asks again without waiting for the answer before.
Poll ==
  /\ Cardinality(chPolls) < MaxPolls
  /\ chPolls' = chPolls \cup {[live |-> TRUE, answer |-> NoList]}
  /\ UNCHANGED <<chStored, chWindow, chLists, chWindowSeen, chForm, chAct, chError, chActs>>

AnswerPoll(p) ==
  /\ p \in chPolls /\ ~p.answer.loaded
  /\ chPolls' = (chPolls \ {p}) \cup {[p EXCEPT !.answer = Public(chStored)]}
  /\ UNCHANGED <<chStored, chWindow, chLists, chWindowSeen, chForm, chAct, chError, chActs>>

PollArrives(p) ==
  /\ p \in chPolls /\ p.answer.loaded
  /\ chPolls' = chPolls \ {p}
  /\ chLists' = IF p.live THEN p.answer ELSE chLists
  /\ UNCHANGED <<chStored, chWindow, chWindowSeen, chForm, chAct, chError, chActs>>

\* A failure leaves what is displayed; its message is the query's own.
PollFails(p) ==
  /\ p \in chPolls
  /\ chPolls' = chPolls \ {p}
  /\ UNCHANGED <<chStored, chWindow, chLists, chWindowSeen, chForm, chAct, chError, chActs>>

\* The windows are a query of their own; of it only the last answer matters.
WindowShown ==
  /\ chWindowSeen' = chWindow
  /\ UNCHANGED <<chStored, chWindow, chLists, chPolls, chForm, chAct, chError, chActs>>

-----------------------------------------------------------------------------
(* The form.  Only its buttons are disabled while a request is in flight.  *)

FormStep(form) ==
  /\ chForm' = form
  /\ UNCHANGED <<chStored, chWindow, chLists, chWindowSeen, chPolls, chAct, chError, chActs>>

\* A secret typed before the button was pressed stays in the form.
Edited_kept(c) == [chForm EXCEPT !.editing = c, !.enabled = chLists.rows[c].enabled]

Edited(c) == [editing |-> c, secret |-> "", enabled |-> chLists.rows[c].enabled]

Edit(c) == chAct.kind = "idle" /\ chLists.rows[c].present /\ FormStep(Edited(c))

TypeSecret == FormStep([chForm EXCEPT !.secret = IF chForm.editing = "" THEN "new" ELSE chForm.editing])

CheckEnabled == FormStep([chForm EXCEPT !.enabled = ~@])

CancelEdit == chForm.editing # "" /\ FormStep(Blank)

-----------------------------------------------------------------------------
(* The buttons.                                                            *)

Begin(kind, id, secret, enabled) ==
  /\ chAct.kind = "idle" /\ chActs < MaxActions
  /\ chAct' = [kind |-> kind, id |-> id, secret |-> secret, enabled |-> enabled, phase |-> "sent"]
  /\ chError' = FALSE
  /\ chActs' = chActs + 1
  /\ UNCHANGED <<chStored, chWindow, chLists, chWindowSeen, chPolls, chForm>>

\* A new webhook needs its address, which is a secret; an edited one keeps it.
SaveChannel ==
  /\ chForm.editing = "" => chForm.secret # "" /\ \E c \in ChIds : ~chStored[c].present \* bound: ChIds
  /\ Begin("save", chForm.editing, chForm.secret, chForm.enabled)

Toggle(c) == chLists.rows[c].present /\ Begin("toggle", c, "", ~chLists.rows[c].enabled)
SendTest(c) == chLists.rows[c].enabled /\ Begin("test", c, "", FALSE)
DeleteChannel(c) == chLists.rows[c].present /\ Begin("delete", c, "", FALSE)
AddWindow == chWindow = "none" /\ Begin("window", "", "", FALSE) \* bound: one window
EndWindow == chWindowSeen \in {"planned", "running"} /\ Begin("end", "", "", FALSE)

-----------------------------------------------------------------------------
(* The server.                                                             *)

\* save_channel: a blank secret keeps the one saved.
Kept(c) == IF chAct.secret = "" THEN chStored[c].secret ELSE chAct.secret

Stored(c) == [present |-> TRUE, enabled |-> chAct.enabled, secret |-> Kept(c)]

\* add_channel: what was typed for the channel to come is now its own.
AddChannel ==
  LET c == CHOOSE x \in ChIds : ~chStored[x].present
  IN /\ chAct.kind = "save" /\ chAct.id = ""
     /\ chStored' = [chStored EXCEPT ![c] = [present |-> TRUE, enabled |-> chAct.enabled,
                                             secret |-> IF chAct.secret = "new" THEN c ELSE chAct.secret]]
     /\ chAct' = [chAct EXCEPT !.phase = "done"]
     /\ UNCHANGED chWindow

EditChannel ==
  /\ chAct.kind \in {"save", "toggle"} /\ chAct.id # ""
  /\ IF chStored[chAct.id].present
     THEN /\ chStored' = [chStored EXCEPT ![chAct.id] = Stored(chAct.id)]
          /\ chAct' = [chAct EXCEPT !.phase = "done"]
     ELSE chStored' = chStored /\ chAct' = [chAct EXCEPT !.phase = "refused"]
  /\ UNCHANGED chWindow

TestChannel ==
  /\ chAct.kind = "test"
  /\ chAct' = [chAct EXCEPT !.phase = IF chStored[chAct.id].enabled THEN "done" ELSE "refused"]
  /\ UNCHANGED <<chStored, chWindow>>

RemoveChannel ==
  /\ chAct.kind = "delete"
  /\ chStored' = [chStored EXCEPT ![chAct.id] = Gone]
  /\ chAct' = [chAct EXCEPT !.phase = "done"]
  /\ UNCHANGED chWindow

PlanWindow ==
  /\ chAct.kind = "window"
  /\ chWindow' \in {"planned", "running"}
  /\ chAct' = [chAct EXCEPT !.phase = "done"]
  /\ UNCHANGED chStored

\* end_window reads the row and the clock ...
FinishWindow ==
  /\ chAct.kind = "end"
  /\ chAct' = [chAct EXCEPT !.phase = CASE chWindow = "none" -> "done"
                                      [] chWindow = "planned" -> "deleting"
                                      [] OTHER -> "ending"]
  /\ UNCHANGED <<chStored, chWindow>>

\* ... and commits what follows from them, wherever the clock is by then: a window
\* that had not begun is deleted, one in force ends.
CommitWindow ==
  /\ chAct.phase \in {"deleting", "ending"}
  /\ chWindow' = IF chAct.phase = "deleting" \/ chWindow = "none" THEN "none" ELSE "over"
  /\ chAct' = [chAct EXCEPT !.phase = "done"]
  /\ UNCHANGED chStored

Serve ==
  /\ \/ /\ chAct.phase = "sent"
        /\ AddChannel \/ EditChannel \/ TestChannel \/ RemoveChannel \/ PlanWindow \/ FinishWindow
     \/ CommitWindow
  /\ UNCHANGED <<chLists, chWindowSeen, chPolls, chForm, chError, chActs>>

\* action: on success the lists are reloaded, and a save clears the form.
ActDone ==
  /\ chAct.phase = "done" /\ Cardinality(chPolls) < MaxPolls
  /\ chForm' = IF chAct.kind = "save" THEN Blank ELSE chForm
  /\ chAct' = ChIdle
  /\ ReloadLists
  /\ UNCHANGED <<chStored, chWindow, chWindowSeen, chError, chActs>>

\* The request is refused, or it, or its answer, is lost: the form stays.
ActFails ==
  /\ chAct.kind # "idle"
  /\ chError' = TRUE
  /\ chAct' = ChIdle
  /\ UNCHANGED <<chStored, chWindow, chLists, chWindowSeen, chPolls, chForm, chActs>>

\* The clock passes the window's start, then its end; retention deletes an old one.
WindowTime ==
  /\ \/ chWindow = "planned" /\ chWindow' = "running"
     \/ chWindow = "running" /\ chWindow' = "over"
     \/ chWindow = "over" /\ chWindow' = "none"
  /\ UNCHANGED <<chStored, chLists, chWindowSeen, chPolls, chForm, chAct, chError, chActs>>

ChannelsNext ==
  \/ Poll \/ WindowShown
  \/ \E p \in chPolls : AnswerPoll(p) \/ PollArrives(p) \/ PollFails(p)
  \/ \E c \in ChIds : Edit(c) \/ Toggle(c) \/ SendTest(c) \/ DeleteChannel(c)
  \/ TypeSecret \/ CheckEnabled \/ CancelEdit \/ SaveChannel \/ AddWindow \/ EndWindow
  \/ Serve \/ ActDone \/ ActFails \/ WindowTime

-----------------------------------------------------------------------------
Windows == {"none", "planned", "running", "over"}
ChannelList == [loaded : BOOLEAN, rows : [ChIds -> Channel]]
ChannelPoll == [live : BOOLEAN, answer : ChannelList]
ChannelForm == [editing : ChIds \cup {""}, secret : Secrets, enabled : BOOLEAN]
ChannelAct == [kind : {"idle", "save", "toggle", "test", "delete", "window", "end"},
               id : ChIds \cup {""}, secret : Secrets, enabled : BOOLEAN,
               phase : {"idle", "sent", "deleting", "ending", "done", "refused"}]

\* The variables have the types the page and the server give them.
ChannelsTypeOK ==
  /\ chStored \in [ChIds -> Channel]
  /\ chWindow \in Windows /\ chWindowSeen \in Windows
  /\ chLists \in ChannelList
  /\ chPolls \subseteq ChannelPoll
  /\ chForm \in ChannelForm
  /\ chAct \in ChannelAct
  /\ chError \in BOOLEAN

(* A channel's secret is one that was typed for that channel, whatever was *)
(* typed, cancelled, edited, saved or left in flight before: no address or *)
(* token reaches another channel.                                          *)
SecretsStayHome == \A c \in ChIds : chStored[c].present => chStored[c].secret = c
=============================================================================
