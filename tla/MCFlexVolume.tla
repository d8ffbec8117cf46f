---------------------------- MODULE MCFlexVolume ----------------------------
(* Values for TLC: two pods of one claim, or of a claim each. *)
EXTENDS FlexVolume

CONSTANTS c1

OneClaim == [p \in Pods |-> c1]

=============================================================================
