------------------------------- MODULE Outbox -------------------------------
(***************************************************************************)
(* What the notification outbox promises about one delivery row, without   *)
(* the queue, the clock, the channels or the maintenance windows: an       *)
(* attempt is paid for before it is made, and a decided row stays decided. *)
(* sparkscope/notifications.py implements it (module Notifications).       *)
(***************************************************************************)
EXTENDS Naturals

CONSTANTS
    Rows,           \* one row per (event, channel)
    MaxAttempts     \* the retry cap

VARIABLES
    status,     \* [Rows -> Status]
    used,       \* [Rows -> Nat] attempts committed
    posts       \* [Rows -> Nat] messages the endpoint has received

vars == <<status, used, posts>>

Decided == {"sent", "failed", "suppressed", "cancelled"}
Status  == {"none", "pending"} \cup Decided

TypeOK ==
    /\ status \in [Rows -> Status]
    /\ used \in [Rows -> 0..MaxAttempts]
    /\ posts \in [Rows -> Nat]

Init ==
    /\ status = [r \in Rows |-> "none"]
    /\ used = [r \in Rows |-> 0]
    /\ posts = [r \in Rows |-> 0]

-----------------------------------------------------------------------------
(* Rows of one transaction are created together. *)
Enqueue(S) ==
    /\ \A r \in S : status[r] = "none"
    /\ status' = [r \in Rows |-> IF r \in S THEN "pending" ELSE status[r]]
    /\ UNCHANGED <<used, posts>>

(* An attempt is committed before any I/O. *)
Try(r) ==
    /\ status[r] = "pending"
    /\ used[r] < MaxAttempts
    /\ used' = [used EXCEPT ![r] = @ + 1]
    /\ UNCHANGED <<status, posts>>

(* The message reaches the endpoint: never more often than it was paid for. *)
Post(r) ==
    /\ status[r] = "pending"
    /\ posts[r] < used[r]
    /\ posts' = [posts EXCEPT ![r] = @ + 1]
    /\ UNCHANGED <<status, used>>

(* "sent" is only said of a message that arrived. *)
Decide(r, s) ==
    /\ status[r] = "pending"
    /\ s = "sent" => posts[r] > 0
    /\ status' = [status EXCEPT ![r] = s]
    /\ UNCHANGED <<used, posts>>

Next ==
    \/ \E S \in SUBSET Rows : Enqueue(S)
    \/ \E r \in Rows : Try(r) \/ Post(r) \/ \E s \in Decided : Decide(r, s)

Spec == Init /\ [][Next]_vars
=============================================================================
