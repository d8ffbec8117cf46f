---------------------------- MODULE MCNodeHealth ----------------------------
(* Values for TLC. *)
EXTENDS NodeHealth, TLC

Counts(blocks, bavail) == [blocks |-> blocks, bavail |-> bavail, bsize |-> 2]

(* For Limit 16 and Capacity 8: just large enough, too small, full; sizes  *)
(* that turn negative, sizes that come round to fitting ones, and a count  *)
(* that turns negative itself.                                             *)
Answers == {Counts(4, 1), Counts(3, 3), Counts(4, 0),
            Counts(12, 10), Counts(21, 17), Counts(4, 31)}

Symmetry == Permutations(Handlers) \union Permutations(Pods)

=============================================================================
