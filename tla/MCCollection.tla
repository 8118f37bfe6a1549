----------------------------- MODULE MCCollection -----------------------------
(* Collection on small instances.  Endpoints and requests are interchangeable. *)
EXTENDS Collection, TLC

Symmetry == Permutations(Targets) \cup Permutations(Editors)

(* Bound: a rediscovery runs while the SMART and the service poll rest and      *)
(* before the first SMART result; it shares no column with the one and no       *)
(* check with the other.                                                        *)
RediscoverAlone ==
    \/ loop["rediscover"].phase = "off"
    \/ row.latest.smart = None /\ \A k \in {"smart", "services"} : loop[k].phase \in {"off", "idle"}

(* What guards and properties read: not devices.info, and of the services only  *)
(* whether there are any.                                                       *)
Compared ==
    <<[row EXCEPT !.info = None], service = None, stored, lost, task, lock, conn, sup,
      [k \in Loops |-> [loop[k] EXCEPT !.info = None]],
      [e \in Editors |-> IF edit[e] = NoEdit THEN NoEdit ELSE [edit[e] EXCEPT !.base.info = None]]>>
=============================================================================
