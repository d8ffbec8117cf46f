----------------------------- MODULE NodeHealth -----------------------------
(***************************************************************************)
(* NodeServer together with NodeGetVolumeStats and its health check. The   *)
(* kubelet's statistics collector asks for running pods, next to the       *)
(* operations of the volume and not in line with them, so paths change     *)
(* between the handler's three looks at them: the existence check, the     *)
(* capacity check, and the figures it reports. The model keeps which file  *)
(* system the verdict is of, and its statfs(2) counts, which the code      *)
(* multiplies in signed integers that wrap around (int64).                 *)
(***************************************************************************)
EXTENDS NodeServer

CONSTANTS
  Limit,     \* integers run from -Limit to Limit - 1, in the code from -2^63
  Capacity,  \* what the PersistentVolume says it holds
  Statfs     \* counts a file system may answer with

ASSUME HealthAssumption ==
  /\ Limit \in Nat \ {0}
  /\ Capacity \in 0 .. Limit - 1
  /\ Statfs \subseteq [blocks : 0 .. 2 * Limit - 1, bavail : 0 .. 2 * Limit - 1,
                        bsize : 1 .. Limit - 1]

VARIABLE probe  \* the call under way: its next step, its pod, what it has found

healthVars == <<vars, probe>>

Idle == [at |-> "idle", target |-> None, healthy |-> FALSE, of |-> None, statfs |-> None]

ProbeOK ==
  probe \in [at : {"idle", "stat", "statfs", "usage"}, target : Pods \union {None},
             healthy : BOOLEAN, of : Sources \union {None}, statfs : Statfs \union {None}]

(* Faulty variant: the path in the place of its file system. *)
FsInfoPath(q) == IF Visible(q) THEN q ELSE None

(* The file system whose figures statfs(2) gives at the moment. *)
FsInfo(q) == IF Visible(q) THEN Shows(q) ELSE None

(* The collector asks about a pod's target path. *)
NodeGetVolumeStats(q) ==
  /\ probe.at = "idle"
  /\ pod[q] = "wanted" /\ view[q] = "yes"
  /\ probe' = [Idle EXCEPT !.at = "stat", !.target = q]

(* A path that does not exist or does not answer is reported as abnormal.  *)
CheckPathExist ==
  /\ probe.at = "stat"
  /\ probe' = [probe EXCEPT !.at = IF Visible(probe.target) THEN "statfs" ELSE "usage"]

(* The conversion of an unsigned count, or of a product, to a signed       *)
(* integer.                                                                *)
Signed(n) ==
  LET low == n % (2 * Limit) IN IF low < Limit THEN low ELSE low - 2 * Limit

Bytes(count, bsize) == Signed(Signed(count) * bsize)

(* Faulty variant: a full file system passes. *)
CapacityAndUsageValidFull(st) ==
  Bytes(st.blocks, st.bsize) >= Capacity /\ Bytes(st.bavail, st.bsize) >= 0

CapacityAndUsageValid(st) ==
  Bytes(st.blocks, st.bsize) >= Capacity /\ Bytes(st.bavail, st.bsize) > 0

(* Faulty variant: an error of statfs(2) passes for a healthy volume. *)
CheckCapacityLenient ==
  /\ probe.at = "statfs"
  /\ \E st \in Statfs :
       probe' = [probe EXCEPT !.at = "usage", !.of = FsInfo(probe.target), !.statfs = st,
                              !.healthy = CapacityAndUsageValid(st)]

(* Abnormal if statfs(2) fails. *)
CheckCapacity ==
  LET of == FsInfo(probe.target) IN
  /\ probe.at = "statfs"
  /\ \/ of = None /\ probe' = [probe EXCEPT !.at = "usage"]
     \/ /\ of # None
        /\ \E st \in Statfs :
             probe' = [probe EXCEPT !.at = "usage", !.of = of, !.statfs = st,
                                    !.healthy = CapacityAndUsageValid(st)]

(* The figures are read once more for the reply. *)
ReplyUsage == probe.at = "usage" /\ probe' = Idle

HealthInit == Init /\ probe = Idle

Probe ==
  \/ \E q \in Pods : NodeGetVolumeStats(q)
  \/ CheckPathExist \/ CheckCapacity \/ ReplyUsage

(* A crash of the driver ends the call, too. *)
Operate == Next /\ probe' = IF faults'.crashes # faults.crashes THEN Idle ELSE probe

HealthNext == Operate \/ (Probe /\ UNCHANGED vars)

HealthSpec == HealthInit /\ [][HealthNext]_healthVars

-----------------------------------------------------------------------------
(* Properties. *)

(* A pod that still runs is reported healthy only by a look at the share,  *)
(* and with figures of the share or none, although the volume is mounted,  *)
(* unmounted and cut off between the looks: the health check asks for a    *)
(* directory of any file system and does not notice the node's own disk.   *)
HealthyMeansShare ==
  [][ReplyUsage /\ UNCHANGED vars /\ probe.healthy /\ pod[probe.target] = "wanted" /\ Serial
       => probe.of = "share" /\ FsInfo(probe.target) \in {"share", None}]_healthVars

(* Sizes that overflow never make a file system look better than it is: a  *)
(* healthy one is as large as the volume claims, and not full, for any     *)
(* counts. The other way round, one whose sizes fit into the integers is   *)
(* not reported abnormal without reason.                                   *)
VerdictRight ==
  LET st   == probe.statfs
      size == st.blocks * st.bsize
      room == st.bavail * st.bsize
      good == size >= Capacity /\ room > 0
  IN probe.of # None =>
       /\ probe.healthy => good
       /\ good /\ size < Limit /\ room < Limit => probe.healthy

=============================================================================
