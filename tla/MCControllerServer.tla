------------------------- MODULE MCControllerServer -------------------------
(* Values for TLC: v2 may be made from v1, by cloning it or from its       *)
(* snapshot, on the same share or on another one.                          *)
EXTENDS ControllerServer, TLC

CONSTANTS v1, v2, s1, n1, n2

OneShare  == [v \in Volumes |-> n1]
TwoShares == [v \in Volumes |-> IF v = v1 THEN n1 ELSE n2]

From(origin) == [v \in Volumes |-> IF v = v1 THEN None ELSE origin]

Scenario(where, from, stack, timeouts, crashes, errors) ==
  [home |-> where, source |-> From(from), stack |-> stack,
   timeouts |-> timeouts, crashes |-> crashes, errors |-> errors, all |-> 1]

(* A crash or an error; snapshots, but no volumes made from them. *)
Plain == {Scenario(OneShare, None, 1, 0, 1, 1)}

Impatient == {Scenario(OneShare, None, 1, 1, 0, 0)}

(* Restored and cloned, from another share and on one; clones on one share *)
(* on a kernel that stacks mounts.                                         *)
Derived == {Scenario(TwoShares, s1, 1, 1, 0, 1),
            Scenario(OneShare,  s1, 1, 0, 1, 0),
            Scenario(TwoShares, v1, 1, 0, 0, 0),
            Scenario(OneShare,  v1, 2, 0, 0, 0)}

OfFirst == [s \in Snaps |-> v1]

Symmetry == Permutations(Handlers)

=============================================================================
