---------------------------- MODULE VolumeAccess ----------------------------
(***************************************************************************)
(* What the node half of the driver promises to the pods of one volume:    *)
(* a pod is granted the volume, writes files into it, and loses the grant  *)
(* again; a file once stored is never lost, whatever happens to the grants,*)
(* unless the volume has been disturbed.                                   *)
(***************************************************************************)

CONSTANTS
  Pods,   \* pods of this node that use the volume
  Files   \* files a pod may write

VARIABLES
  users,     \* the pods that hold the volume
  stored,    \* the files the share keeps
  disturbed  \* the surroundings have not kept to the rules

vars == <<users, stored, disturbed>>

Init == users = {} /\ stored = {} /\ disturbed = FALSE

(* The volume becomes available to a pod. *)
Grant(q) == users' = users \union {q} /\ UNCHANGED <<stored, disturbed>>

(* A pod stores a file. *)
Store(q, f) == q \in users /\ stored' = stored \union {f} /\ UNCHANGED <<users, disturbed>>

(* The volume is taken away from a pod, or is not known to be with it. *)
Revoke(q) == users' = users \ {q} /\ UNCHANGED <<stored, disturbed>>

(* Pods lose the volume and files are lost; from the first time on nothing *)
(* but this is promised of the files.                                      *)
Disturb == disturbed' = TRUE /\ users' \subseteq users /\ stored' \subseteq stored

Next ==
  \/ \E q \in Pods : Grant(q) \/ Revoke(q) \/ \E f \in Files : Store(q, f)
  \/ Disturb

Spec == Init /\ [][Next]_vars

=============================================================================
