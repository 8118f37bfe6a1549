---------------------------- MODULE MCAlertEngine ----------------------------
(* AlertEngine on small instances.                                          *)
EXTENDS AlertEngine

At(w, c) == [kind |-> "set", warning |-> w, critical |-> c]
Off      == [kind |-> "disabled"]
None     == [kind |-> "absent"]

(* Readings 0, 1, 2: good, warning, critical; warning only; either level;   *)
(* every reading critical.                                                  *)
AnyRules == {At(1, 2), At(1, 3), At(0, 0), Off, None}
=============================================================================
