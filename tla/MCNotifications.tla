--------------------------- MODULE MCNotifications ---------------------------
(* Instances of Notifications for TLC. *)
EXTENDS Notifications, TLC

CONSTANTS e1, e2, e3, d1, d2, c1, c2, w1, w2, t1

Symmetry == Permutations(Events) \cup Permutations(Windows)

(* Bound of the maintenance runs: channels are only configured at time 0. *)
EarlyChannels == \A c \in Channels : channel[c].since = 0

(* Bound of the maintenance run: a test is sent while there is nothing else. *)
TestsAlone ==
    (\E r \in Rows : r[1] \in Tests /\ delivery[r] # NoDelivery) =>
    /\ \A e \in Events : event[e] = NoEvent
    /\ \A w \in Windows : window[w] = NoWindow

(* Windows name a device. *)
DeviceScopes == {[ids |-> {d}, group |-> ""] : d \in Devices}
=============================================================================
