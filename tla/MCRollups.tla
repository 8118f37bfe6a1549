------------------------------ MODULE MCRollups ------------------------------
(* Rollups on small instances.                                              *)
EXTENDS Rollups, TLC

Keep(raw, fine, coarse) == [raw |-> raw, fine |-> fine, coarse |-> coarse]

(* One that expires everything within the clock, and one that keeps longer. *)
ShortAndLong == {Keep(1, 3, 5), Keep(4, 4, 6)}
=============================================================================
