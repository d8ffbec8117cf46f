-------------------------- MODULE NodeHealth_proofs --------------------------
(***************************************************************************)
(* Proofs about NodeHealth: the node server keeps its invariants next to   *)
(* the health check, the check's arithmetic is right for integers of any   *)
(* size, and a pod that runs is reported healthy for the share only.       *)
(***************************************************************************)
EXTENDS NodeHealth, NodeServer_proofs, Integers

-----------------------------------------------------------------------------
(* Integers that wrap around. *)

Int64 == -Limit .. Limit - 1

LEMMA SignedFacts ==
  /\ \A n \in Int : Signed(n) \in Int64
  /\ \A n \in Nat : Signed(n) <= n
  /\ \A n \in 0 .. Limit - 1 : Signed(n) = n
<1> USE HealthAssumption
<1> DEFINE M == 2 * Limit
<1>1. M \in Nat \ {0}
  OBVIOUS
<1>2. \A n \in Int : n % M \in 0 .. M - 1
  BY <1>1
<1>3. \A n \in Nat : n % M <= n
  BY <1>1
<1>4. \A n \in 0 .. Limit - 1 : n % M = n
  BY <1>1
<1>5. \A n : Signed(n) = IF n % M < Limit THEN n % M ELSE (n % M) - M
  BY DEF Signed
<1>6. M = 2 * Limit
  OBVIOUS
<1> HIDE DEF M
<1>7. ASSUME NEW n \in Int PROVE Signed(n) \in Int64
  <2>1. PICK low \in 0 .. M - 1 : low = n % M
    BY <1>2
  <2>2. Signed(n) = IF low < Limit THEN low ELSE low - M
    BY <1>5, <2>1
  <2> QED BY <1>6, <2>2 DEF Int64
<1>8. ASSUME NEW n \in Nat PROVE Signed(n) <= n
  <2>1. PICK low \in 0 .. M - 1 : low = n % M
    BY <1>2
  <2>2. Signed(n) = IF low < Limit THEN low ELSE low - M
    BY <1>5, <2>1
  <2> QED BY <1>1, <1>3, <2>1, <2>2
<1>9. \A n \in 0 .. Limit - 1 : Signed(n) = n
  BY <1>4, <1>5, <1>6
<1> QED BY <1>7, <1>8, <1>9

(* A count that does not fit turns negative, and then the size it stands   *)
(* for exceeds every integer.                                              *)
LEMMA BytesFacts ==
  ASSUME NEW count \in 0 .. 2 * Limit - 1, NEW bsize \in 1 .. Limit - 1
  PROVE  /\ count * bsize \in Nat /\ Bytes(count, bsize) \in Int
         /\ Bytes(count, bsize) <= count * bsize
         /\ count * bsize < Limit => Bytes(count, bsize) = count * bsize
<1> USE HealthAssumption
<1>1. count * bsize \in Nat /\ count <= count * bsize
  <2>1. bsize - 1 \in Nat /\ count \in Nat
    OBVIOUS
  <2>2. count * (bsize - 1) \in Nat
    BY <2>1
  <2>3. count * bsize = count * (bsize - 1) + count
    BY <2>1
  <2> QED BY <2>1, <2>2, <2>3
<1>2. Signed(count) \in Int
  BY SignedFacts DEF Int64
<1>3. Bytes(count, bsize) \in Int64
  <2>1. Signed(count) * bsize \in Int
    BY <1>2
  <2> QED BY <2>1, SignedFacts DEF Bytes
<1>4. CASE count < Limit
  <2>1. Signed(count) = count
    BY <1>4, SignedFacts
  <2>2. Bytes(count, bsize) = Signed(count * bsize)
    BY <2>1 DEF Bytes
  <2> QED BY <1>1, <1>3, <2>2, SignedFacts DEF Int64
<1>5. CASE count >= Limit
  BY <1>1, <1>3, <1>5 DEF Int64
<1> QED BY <1>4, <1>5

(* The verdict on any file system: never healthy when too small or full,   *)
(* and never unhealthy without reason, if the sizes fit.                   *)
LEMMA VerdictFacts ==
  ASSUME NEW st \in Statfs
  PROVE  LET size == st.blocks * st.bsize
             room == st.bavail * st.bsize
             good == size >= Capacity /\ room > 0
         IN  /\ CapacityAndUsageValid(st) => good
             /\ good /\ size < Limit /\ room < Limit => CapacityAndUsageValid(st)
<1>1. /\ st.blocks \in 0 .. 2 * Limit - 1 /\ st.bavail \in 0 .. 2 * Limit - 1
      /\ st.bsize \in 1 .. Limit - 1
  BY HealthAssumption
<1>2. Capacity \in Int
  BY HealthAssumption
<1> DEFINE size == st.blocks * st.bsize
           room == st.bavail * st.bsize
<1>3. /\ size \in Nat /\ Bytes(st.blocks, st.bsize) \in Int
      /\ Bytes(st.blocks, st.bsize) <= size
      /\ size < Limit => Bytes(st.blocks, st.bsize) = size
  BY <1>1, BytesFacts
<1>4. /\ room \in Nat /\ Bytes(st.bavail, st.bsize) \in Int
      /\ Bytes(st.bavail, st.bsize) <= room
      /\ room < Limit => Bytes(st.bavail, st.bsize) = room
  BY <1>1, BytesFacts
<1> HIDE DEF size, room
<1>5. /\ CapacityAndUsageValid(st) => size >= Capacity /\ room > 0
      /\ size >= Capacity /\ room > 0 /\ size < Limit /\ room < Limit => CapacityAndUsageValid(st)
  BY <1>2, <1>3, <1>4 DEF CapacityAndUsageValid
<1> QED BY <1>5 DEF size, room

-----------------------------------------------------------------------------
(* The node server keeps its inductive invariant next to the health check, *)
(* which only looks.                                                       *)

LEMMA HealthSteps == [HealthNext]_healthVars => [Next]_vars
  BY DEF HealthNext, Operate, healthVars

LEMMA InductiveHealth == HealthSpec => []IInv
<1>1. HealthInit => IInv
  BY InvInit DEF HealthInit
<1>2. IInv /\ [HealthNext]_healthVars => IInv'
  BY HealthSteps, InvStep
<1> QED BY <1>1, <1>2, PTL DEF HealthSpec

(* What the call under way has found fits together: a file system comes    *)
(* with its figures, and the verdict is the one on these figures.          *)
ProbeInv ==
  /\ ProbeOK
  /\ probe.at # "idle" => probe.target \in Pods /\ pod[probe.target] # "new"
  /\ probe.of # None =>
       /\ probe.statfs \in Statfs
       /\ probe.healthy = CapacityAndUsageValid(probe.statfs)
  /\ probe.healthy => probe.of # None

LEMMA ProbeInit == HealthInit => ProbeInv
  BY DEF HealthInit, Idle, ProbeInv, ProbeOK

LEMMA ProbeStep == TypeOK /\ TypeOK' /\ ProbeInv /\ [HealthNext]_healthVars => ProbeInv'
<1> SUFFICES ASSUME TypeOK, TypeOK', ProbeInv, [HealthNext]_healthVars PROVE ProbeInv'
  OBVIOUS
<1>0. /\ probe \in [at : {"idle", "stat", "statfs", "usage"}, target : Pods \union {None},
                    healthy : BOOLEAN, of : Sources \union {None}, statfs : Statfs \union {None}]
      /\ Idle \in [at : {"idle"}, target : {None}, healthy : {FALSE}, of : {None}, statfs : {None}]
  BY DEF ProbeInv, ProbeOK, Idle
<1>v. CapacityAndUsageValid(probe.statfs)' = CapacityAndUsageValid(probe'.statfs)
  BY DEF CapacityAndUsageValid, Bytes, Signed
<1>1. CASE Operate
  <2>1. \A q \in Pods : pod[q] # "new" => pod'[q] # "new"
    BY <1>1 DEF Operate, Next, Handler, NodeStageVolume, StageMkdir, StageMount, NodePublishVolume,
      BindStat, BindMkdir, BindMount, NodeUnpublishVolume, NodeUnstageVolume, Unmounting,
      UnmountStat, UnmountDone, UnmountFails, DeleteDir, Kubelet, CallMount, CallUnmount,
      Call, Adopt, PodAdded, PodDeleted, PodWrites, Timeout, Crash, ServerFails, ServerReturns,
      others, TypeOK
  <2>2. probe' = probe \/ probe' = Idle
    BY <1>1 DEF Operate
  <2>3. CASE probe' = probe
    BY <1>v, <2>1, <2>3 DEF ProbeInv, ProbeOK
  <2>4. CASE probe' = Idle
    BY <1>0, <2>4 DEF ProbeInv, ProbeOK, Idle
  <2> QED BY <2>2, <2>3, <2>4
<1>2. CASE Probe /\ UNCHANGED vars
  <2>1. pod' = pod
    BY <1>2 DEF vars
  <2>2. ASSUME NEW q \in Pods, NodeGetVolumeStats(q) PROVE ProbeInv'
    BY <1>0, <2>1, <2>2 DEF NodeGetVolumeStats, Idle, ProbeInv, ProbeOK
  <2>3. CASE CheckPathExist
    BY <1>0, <1>v, <2>1, <2>3 DEF CheckPathExist, ProbeInv, ProbeOK
  <2>4. CASE CheckCapacity
    <3>1. probe.target \in Pods /\ FsInfo(probe.target) \in Sources \union {None}
      <4>1. probe.target \in Pods /\ probe.target \in Paths
        BY <2>4 DEF CheckCapacity, ProbeInv, Paths
      <4>2. mounts[probe.target] \in Seq(Sources)
        BY <4>1 DEF TypeOK
      <4> QED BY <4>1, <4>2 DEF FsInfo, Shows, Sources
    <3>2. CASE probe' = [probe EXCEPT !.at = "usage"]
      BY <1>0, <1>v, <2>1, <2>4, <3>1, <3>2 DEF CheckCapacity, ProbeInv, ProbeOK
    <3>3. ASSUME NEW st \in Statfs, FsInfo(probe.target) # None,
                 probe' = [probe EXCEPT !.at = "usage", !.of = FsInfo(probe.target), !.statfs = st,
                                        !.healthy = CapacityAndUsageValid(st)]
          PROVE  ProbeInv'
      <4>1. CapacityAndUsageValid(st) \in BOOLEAN
        BY DEF CapacityAndUsageValid
      <4>2. /\ probe'.at = "usage" /\ probe'.target = probe.target /\ probe'.statfs = st
            /\ probe'.healthy = CapacityAndUsageValid(st) /\ probe'.of = FsInfo(probe.target)
        BY <1>0, <3>3
      <4>3. ProbeOK'
        BY <1>0, <3>1, <3>3, <4>1 DEF ProbeOK
      <4> QED BY <1>v, <2>1, <2>4, <3>1, <3>3, <4>2, <4>3 DEF ProbeInv, CheckCapacity
    <3> QED BY <2>4, <3>2, <3>3 DEF CheckCapacity
  <2>5. CASE ReplyUsage
    BY <1>0, <2>5 DEF ReplyUsage, ProbeInv, ProbeOK, Idle
  <2> QED BY <1>2, <2>2, <2>3, <2>4, <2>5 DEF Probe
<1>3. CASE UNCHANGED healthVars
  BY <1>v, <1>3 DEF healthVars, vars, ProbeInv, ProbeOK
<1> QED BY <1>1, <1>2, <1>3 DEF HealthNext

LEMMA InductiveProbe == HealthSpec => []ProbeInv
<1>1. IInv => TypeOK
  BY DEF IInv
<1> QED BY <1>1, ProbeInit, ProbeStep, InductiveHealth, PTL DEF HealthSpec

(* The call under way never holds anything but figures of a file system    *)
(* and the pod it was asked about.                                         *)
THEOREM ProbeCorrect == HealthSpec => []ProbeOK
<1>1. ProbeInv => ProbeOK
  BY DEF ProbeInv
<1> QED BY <1>1, InductiveProbe, PTL

(* For every width of the integers, every capacity and all counts a file   *)
(* system may answer with, no overflow makes the check call a file system  *)
(* healthy that is too small or full, and one whose sizes fit is not       *)
(* called abnormal without reason.                                         *)
THEOREM VerdictCorrect == HealthSpec => []VerdictRight
<1>1. ProbeInv => VerdictRight
  BY VerdictFacts DEF ProbeInv, VerdictRight
<1> QED BY <1>1, InductiveProbe, PTL

-----------------------------------------------------------------------------

(* A pod that runs keeps its volume while the driver lives and no call     *)
(* overlaps another one.                                                   *)
LEMMA ViewKept ==
  ASSUME IInv, Next, Serial', faults'.crashes = faults.crashes,
         NEW q \in Pods, pod[q] # "new", pod'[q] = "wanted", view[q] = "yes"
  PROVE  pod[q] = "wanted" /\ view'[q] = "yes"
<1> USE NodeAssumption
<1>t. TypeOK /\ SerialInv /\ ~Timeout
  BY SerialBackwards DEF IInv
<1>p. q \in Paths /\ q # Staging /\ view \in [Paths -> {"no", "maybe", "yes"}]
  BY <1>t DEF TypeOK, Paths
<1>w. \A h \in Handlers : pc[h] # "idle" => h = waiting /\ waiting # None /\ Purpose(h)
  BY <1>t DEF SerialInv
<1>1. pod[q] = "wanted"
  BY <1>t DEF Next, Handler, NodeStageVolume, StageMkdir, StageMount, NodePublishVolume,
    BindStat, BindMkdir, BindMount, NodeUnpublishVolume, NodeUnstageVolume, Unmounting,
    UnmountStat, UnmountDone, UnmountFails, DeleteDir, Kubelet, CallMount, CallUnmount,
    Call, Adopt, PodAdded, PodDeleted, PodWrites, Crash, ServerFails, ServerReturns,
    others, TypeOK
<1>2. ASSUME NEW h \in Handlers, NEW seen, Reply(h, seen), arg[h] # q \/ seen = "yes"
      PROVE  view'[q] = "yes"
  BY <1>2, <1>p, <1>t DEF Reply, TypeOK
<1>3. ASSUME NEW h \in Handlers, NodeStageVolume(h) PROVE view'[q] = "yes"
  <2>1. arg[h] # q
    BY <1>3, <1>p, <1>w DEF NodeStageVolume, StageMkdir, StageMount, Purpose
  <2> QED BY <1>2, <1>3, <2>1 DEF NodeStageVolume, StageMkdir, StageMount, GoTo, MountError
<1>4. ASSUME NEW h \in Handlers, NodePublishVolume(h) PROVE view'[q] = "yes"
  <2>1. MountError(h) => view'[q] = "yes"
    BY <1>2 DEF MountError
  <2> QED BY <1>2, <1>4, <2>1 DEF NodePublishVolume, BindStat, BindMkdir, BindMount, GoTo
<1>5. ASSUME NEW h \in Handlers, Unmounting(h) PROVE view'[q] = "yes"
  <2>1. arg[h] # q
    BY <1>1, <1>5, <1>w
    DEF Unmounting, UnmountStat, UnmountDone, UnmountFails, DeleteDir, Purpose
  <2> QED BY <1>2, <1>5, <2>1
          DEF Unmounting, UnmountStat, UnmountDone, UnmountFails, DeleteDir, GoTo, UnmountError
<1>6. ASSUME NEW p \in Paths, Kubelet(p) PROVE view'[q] = "yes"
  BY <1>6, <1>p DEF Kubelet, CallMount, CallUnmount, Call, Adopt
<1>7. ~Crash
  <2>1. faults \in [timeouts : Nat, outages : Nat, crashes : Nat]
    BY <1>t DEF TypeOK
  <2> QED BY <2>1 DEF Crash
<1>8. ASSUME NEW r \in Pods, PodAdded(r) \/ PodDeleted(r) \/ \E f \in Files : PodWrites(r, f)
      PROVE  view'[q] = "yes"
  BY <1>8 DEF PodAdded, PodDeleted, PodWrites
<1>9. ServerFails \/ ServerReturns => view'[q] = "yes"
  BY DEF ServerFails, ServerReturns
<1> QED
  BY <1>1, <1>3, <1>4, <1>5, <1>6, <1>7, <1>8, <1>9, <1>t
  DEF Next, Handler, NodeUnpublishVolume, NodeUnstageVolume

(* The pod a call is about still has its volume, and what the call has     *)
(* found healthy is the share, as long as the pod is wanted.               *)
WatchInv ==
  probe.at # "idle" /\ pod[probe.target] = "wanted" /\ Serial =>
    view[probe.target] = "yes" /\ (probe.healthy => probe.of = "share")

LEMMA WatchStep ==
  IInv /\ ProbeInv /\ WatchInv /\ [HealthNext]_healthVars => WatchInv'
<1> SUFFICES ASSUME IInv, ProbeInv, WatchInv, [HealthNext]_healthVars,
                    probe'.at # "idle", pod'[probe'.target] = "wanted", Serial'
             PROVE  view'[probe'.target] = "yes" /\ (probe'.healthy => probe'.of = "share")
  BY DEF WatchInv
<1>0. /\ probe \in [at : {"idle", "stat", "statfs", "usage"}, target : Pods \union {None},
                    healthy : BOOLEAN, of : Sources \union {None}, statfs : Statfs \union {None}]
      /\ Idle \in [at : {"idle"}, target : {None}, healthy : {FALSE}, of : {None}, statfs : {None}]
  BY DEF ProbeInv, ProbeOK, Idle
<1>s. Serial
  BY SerialBackwards, HealthSteps DEF IInv
<1>1. CASE Operate
  <2>1. probe' = probe /\ faults'.crashes = faults.crashes /\ Next
    BY <1>0, <1>1 DEF Operate
  <2>2. probe.target \in Pods /\ pod[probe.target] # "new"
    BY <2>1 DEF ProbeInv
  <2>3. pod[probe.target] = "wanted"
    BY <2>1, <2>2 DEF Next, Handler, NodeStageVolume, StageMkdir, StageMount, NodePublishVolume,
      BindStat, BindMkdir, BindMount, NodeUnpublishVolume, NodeUnstageVolume, Unmounting,
      UnmountStat, UnmountDone, UnmountFails, DeleteDir, Kubelet, CallMount, CallUnmount,
      Call, Adopt, PodAdded, PodDeleted, PodWrites, Timeout, Crash, ServerFails, ServerReturns,
      others, IInv, TypeOK
  <2>4. view[probe.target] = "yes" /\ (probe.healthy => probe.of = "share")
    BY <1>s, <2>1, <2>3 DEF WatchInv
  <2> QED BY <2>1, <2>2, <2>4, ViewKept
<1>2. CASE Probe /\ UNCHANGED vars
  <2>1. view' = view /\ pod' = pod
    BY <1>2 DEF vars
  <2>2. ASSUME NEW q \in Pods, NodeGetVolumeStats(q)
        PROVE  view'[probe'.target] = "yes" /\ ~probe'.healthy
    BY <2>1, <2>2 DEF NodeGetVolumeStats, Idle
  <2>3. CASE CheckPathExist
    BY <1>0, <1>s, <2>1, <2>3 DEF CheckPathExist, WatchInv
  <2>4. CASE CheckCapacity
    <3>1. /\ probe'.target = probe.target /\ probe.target \in Pods
          /\ pod[probe.target] = "wanted" /\ view[probe.target] = "yes"
      BY <1>0, <1>s, <2>1, <2>4 DEF CheckCapacity, WatchInv, ProbeInv
    <3>2. Shows(probe.target) = "share"
      BY <1>s, <3>1, PodsShowShare DEF PublishedShowsShare, Wanted
    <3>3. FsInfo(probe.target) # None => FsInfo(probe.target) = "share"
      BY <3>2 DEF FsInfo
    <3>4. probe'.healthy => probe'.of = "share"
      BY <1>0, <1>s, <2>1, <2>4, <3>1, <3>3 DEF CheckCapacity, WatchInv
    <3> QED BY <2>1, <3>1, <3>4
  <2>5. ~ReplyUsage
    BY DEF ReplyUsage, Idle
  <2> QED BY <1>2, <2>2, <2>3, <2>4, <2>5 DEF Probe
<1>3. CASE UNCHANGED healthVars
  BY <1>s, <1>3 DEF healthVars, vars, WatchInv
<1> QED BY <1>1, <1>2, <1>3 DEF HealthNext

LEMMA InductiveWatch == HealthSpec => []WatchInv
<1>1. HealthInit => WatchInv
  BY DEF HealthInit, Idle, WatchInv
<1> QED BY <1>1, WatchStep, InductiveHealth, InductiveProbe, PTL DEF HealthSpec

(* A pod that still runs is reported healthy only by a look at the share,  *)
(* and with figures of the share or none, in every interleaving with the   *)
(* operations of the volume, until a call overlaps another one.            *)
THEOREM HealthyIsShare == HealthSpec => HealthyMeansShare
<1>1. IInv /\ ProbeInv /\ WatchInv =>
        (ReplyUsage /\ UNCHANGED vars /\ probe.healthy /\ pod[probe.target] = "wanted" /\ Serial
           => probe.of = "share" /\ FsInfo(probe.target) \in {"share", None})
  <2> SUFFICES ASSUME IInv, ProbeInv, WatchInv, ReplyUsage, probe.healthy,
                      pod[probe.target] = "wanted", Serial
               PROVE  probe.of = "share" /\ FsInfo(probe.target) \in {"share", None}
    OBVIOUS
  <2>1. probe.target \in Pods /\ view[probe.target] = "yes" /\ probe.of = "share"
    BY DEF ReplyUsage, WatchInv, ProbeInv
  <2>2. Shows(probe.target) = "share"
    BY <2>1, PodsShowShare DEF PublishedShowsShare, Wanted
  <2> QED BY <2>1, <2>2 DEF FsInfo
<1> QED BY <1>1, InductiveHealth, InductiveProbe, InductiveWatch, PTL DEF HealthyMeansShare

=============================================================================
