----------------------------- MODULE MCRingGroup ----------------------------
(* Instances of RingGroup for TLC. *)
EXTENDS RingGroup

CONSTANTS l1, l2

TwoLegs == {l1, l2}
=============================================================================
