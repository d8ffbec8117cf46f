---------------------------- MODULE MCSnapshotter ----------------------------
(* Values for TLC: a folder with one file between two files, or with a     *)
(* link before the last one.                                               *)
EXTENDS Snapshotter

InFolder == [f \in Names |-> IF f = 3 THEN 2 ELSE 0]

=============================================================================
