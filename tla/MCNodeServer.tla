---------------------------- MODULE MCNodeServer ----------------------------
(* Values for TLC. *)
EXTENDS NodeServer, TLC

Symmetry == Permutations(Handlers) \union Permutations(Pods)

=============================================================================
