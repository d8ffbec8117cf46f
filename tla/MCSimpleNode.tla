---------------------------- MODULE MCSimpleNode ----------------------------
(* Values for TLC: two volumes, with one pod each. *)
EXTENDS SimpleNode, TLC

CONSTANTS v1, v2, q1, q2

OnePodEach == [q \in Pods |-> IF q = q1 THEN v1 ELSE v2]

Symmetry == Permutations(Handlers)

=============================================================================
