----------------------------- MODULE MCCanFlow -----------------------------
(* Instances of CanFlow for TLC.                                           *)
EXTENDS CanFlow

CONSTANTS e1, m1, s1

(* Shorter than a turn of can_time, and longer.                            *)
AllGaps == {3, 5}
=============================================================================
