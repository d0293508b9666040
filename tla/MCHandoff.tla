------------------------------ MODULE MCHandoff ------------------------------
(* Instances of Handoff for TLC.                                           *)
EXTENDS Handoff

CONSTANTS r1, r2, r3
TwoReplies == {r1, r2}
ThreeReplies == {r1, r2, r3}
=============================================================================
