----------------------------- MODULE MCOperations -----------------------------
(* Operations on a small instance, followed in three directions.             *)
EXTENDS Operations

CONSTANTS a, b, show, reboot, here, there

Asked == ({posts[r].body : r \in Deliveries} \cup {jobs[j].body : j \in Job}) \ {NoBody}
AtHome(d) == fleet[d].revision = 1 /\ fleet[d].target = here

(* A request delivered twice, which may need a confirmation: to one device     *)
(* that stays where it is.                                                     *)
Confirming == page.selected \subseteq {a} /\ fleet[a].revision <= 2 /\ fleet[a].target = here

(* A command that needs none, delivered once ...                               *)
Showing == /\ page.command # reboot
           /\ \A r \in Deliveries \ {1} : posts[r] = NoPost
           /\ \A j \in Job \ {1} : jobs[j].status = "none"

(* ... to a device that is edited twice and moved, or to two devices, one of    *)
(* which is edited once.                                                       *)
Moving == Showing /\ page.selected \subseteq {a}
Several == Showing /\ fleet[a].revision <= 2 /\ fleet[a].target = here

(* Devices are alike, and what one undergoes does not concern another: only a  *)
(* is edited.                                                                  *)
OneEdited == AtHome(b)

(* One request is followed: once it is posted the page neither fills in another *)
(* nor hears of devices, and once it is stored a silent device is like a ready  *)
(* one.                                                                        *)
Settled ==
    /\ \A body \in Asked : page.command = body.command /\ page.selected = body.ids
    /\ Asked # {} => \A d \in Devices : known[d] = "ready"
    /\ (\E j \in Job : jobs[j].status # "none") => \A d \in Devices : fleet[d].state # "silent"

(* Only a confirmed request is delivered twice, and two jobs exist together     *)
(* only if one request made both.                                              *)
OneRequest ==
    /\ \A r \in Deliveries : posts[r].at = "sent" /\ posts[r].body.proof = 0 => r = 1
    /\ \A i, j \in Job :
          i # j /\ jobs[i].status # "none" /\ jobs[j].status # "none" =>
             jobs[i].body.proof = jobs[j].body.proof /\ jobs[i].body.proof # 0

Bounds == OneEdited /\ OneRequest /\ Settled /\ (Confirming \/ Moving \/ Several)
=============================================================================
