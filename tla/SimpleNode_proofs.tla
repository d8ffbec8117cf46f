-------------------------- MODULE SimpleNode_proofs --------------------------
(***************************************************************************)
(* Proofs about SimpleNode: its type invariant, and the three safety       *)
(* invariants its run checks, from one inductive invariant.                *)
(***************************************************************************)
EXTENDS SimpleNode, TLAPS

Staging    == {"mkdir", "mount", "subdir"}
Binding    == {"bindstat", "bindmkdir", "bind"}
Removal    == {"stat", "umount", "remove"}

(* A handler works on a path that fits its call, and a kubelet that waits  *)
(* for a handler waits for one that runs and works on its volume.          *)
Dispatched ==
  /\ \A h \in Handlers :
       /\ pc[h] # "idle"  => arg[h] \in Paths
       /\ pc[h] \in Staging => arg[h] \in Volumes
       /\ pc[h] \in Binding => arg[h] \in Pods
  /\ \A v \in Volumes :
       waiting[v] # None => pc[waiting[v]] # "idle" /\ Vol(arg[waiting[v]]) = v

(* A directory with something mounted on it cannot be removed. *)
MountedDirs == \A p \in Paths : mounts[p] # <<>> => p \in dirs

(* What belongs on a path. *)
Proper(p) == IF p \in Volumes THEN <<"root">> ELSE <<"volume">>

(* What a handler relies on, once the kubelet has called it for a reason   *)
(* and nobody else works on its volume.                                    *)
Purpose(h) ==
  /\ pc[h] \in {"mkdir", "mount"} \union Binding => mounts[arg[h]] = <<>>
  /\ pc[h] = "subdir" => mounts[arg[h]] = <<"root">>
  /\ pc[h] \in Binding => view[VolOf[arg[h]]] = "yes"
  /\ pc[h] \in Removal /\ arg[h] \in Pods => pod[arg[h]] = "deleted"

(* The handler of the path has unmounted it and is about to delete it. *)
Removing(p) == Busy(p) /\ pc[waiting[Vol(p)]] = "remove"

(* Only handlers the kubelet waits for run, one for each volume, mounts do *)
(* not stack, and what the kubelet takes for mounted is.                   *)
SerialInv ==
  /\ \A h \in Handlers : pc[h] # "idle" => waiting[Vol(arg[h])] = h /\ Purpose(h)
  /\ \A p \in Paths : mounts[p] \in {<<>>, Proper(p)}
  /\ \A p \in Paths : view[p] = "yes" /\ ~Removing(p) => mounts[p] = Proper(p)

(* What is deleted is an empty directory, and a volume bound to a pod has  *)
(* its directory on the share, so that the pod's target answers.           *)
UndisturbedInv ==
  /\ online
  /\ \A p \in Paths : Removing(p) => mounts[p] = <<>>
  /\ \A p \in Paths : view[p] = "no" /\ ~Busy(p) => mounts[p] = <<>>
  /\ \A q \in Pods : mounts[q] # <<>> => VolOf[q] \in made
  /\ written \subseteq data

IInv ==
  /\ TypeOK
  /\ Dispatched
  /\ MountedDirs
  /\ Serial => SerialInv
  /\ Undisturbed => UndisturbedInv

-----------------------------------------------------------------------------
(* Types. *)

LEMMA PathFacts ==
  /\ Volumes \subseteq Paths /\ Pods \subseteq Paths
  /\ \A p \in Paths : Vol(p) \in Volumes /\ (p \in Pods => Vol(p) = VolOf[p] /\ p \notin Volumes)
  /\ \A v \in Volumes : Vol(v) = v /\ v \notin Pods
  /\ \A q \in Pods : VolOf[q] \in Volumes
  BY SimpleAssumption DEF Paths, Vol

LEMMA StackTypes ==
  ASSUME NEW p \in Paths, NEW s \in Sources, mounts \in [Paths -> Seq(Sources)]
  PROVE  /\ Push(p, s) => mounts' \in [Paths -> Seq(Sources)]
         /\ mounts[p] # <<>> /\ Pop(p) => mounts' \in [Paths -> Seq(Sources)]
<1>1. mounts[p] \in Seq(Sources) /\ <<s>> \in Seq(Sources)
  OBVIOUS
<1>2. <<s>> \o mounts[p] \in Seq(Sources)
  BY <1>1
<1>3. mounts[p] # <<>> => Tail(mounts[p]) \in Seq(Sources)
  BY <1>1
<1> QED BY <1>2, <1>3 DEF Push, Pop

RpcTypes ==
  /\ pc \in [Handlers -> Calls \union {"idle"}]
  /\ arg \in [Handlers -> Paths \union {None}]
  /\ waiting \in [Volumes -> Handlers \union {None}]
  /\ view \in [Paths -> {"no", "maybe", "yes"}]
  /\ Dispatched

(* The next calls a handler may go on to from where it is. *)
Follows(h, call) ==
  /\ call \in Calls
  /\ call \in Staging => arg[h] \in Volumes
  /\ call \in Binding => arg[h] \in Pods

LEMMA ControlTypes ==
  ASSUME RpcTypes, NEW h \in Handlers, pc[h] # "idle"
  PROVE  /\ \A call : Follows(h, call) /\ GoTo(h, call) => RpcTypes'
         /\ \A seen \in {"no", "maybe", "yes"} : Reply(h, seen) => RpcTypes'
         /\ MountError(h) => RpcTypes'
         /\ UnmountError(h) => RpcTypes'
<1> USE SimpleAssumption
<1>a. arg[h] \in Paths /\ Vol(arg[h]) \in Volumes
  BY PathFacts DEF RpcTypes, Dispatched
<1>1. ASSUME NEW call, Follows(h, call), GoTo(h, call) PROVE RpcTypes'
  <2>1. call # "idle"
    BY <1>1 DEF Follows, Calls
  <2>2. Dispatched'
    BY <1>1, <2>1, <1>a DEF Follows, GoTo, RpcTypes, Dispatched, Vol
  <2> QED BY <1>1, <2>2 DEF Follows, GoTo, RpcTypes
<1>2. ASSUME NEW seen \in {"no", "maybe", "yes"}, Reply(h, seen) PROVE RpcTypes'
  <2>1. pc' \in [Handlers -> Calls \union {"idle"}] /\ arg' \in [Handlers -> Paths \union {None}]
    BY <1>2 DEF Reply, RpcTypes
  <2>2. view' \in [Paths -> {"no", "maybe", "yes"}]
    BY <1>2, <1>a DEF Reply, RpcTypes
  <2>3. waiting' \in [Volumes -> Handlers \union {None}]
    BY <1>2, <1>a DEF Reply, RpcTypes
  <2>4. ASSUME NEW v \in Volumes, waiting'[v] # None
        PROVE  waiting'[v] # h /\ waiting'[v] = waiting[v]
    BY <1>2, <1>a, <2>4 DEF Reply, RpcTypes, Dispatched
  <2>5. Dispatched'
    <3>1. \A v \in Volumes : waiting[v] \in Handlers \union {None}
      BY DEF RpcTypes
    <3> QED BY <1>2, <2>4, <3>1 DEF Reply, RpcTypes, Dispatched, Vol, Staging, Binding
  <2> QED BY <2>1, <2>2, <2>3, <2>5 DEF RpcTypes
<1>3. view[arg[h]] \in {"no", "maybe", "yes"}
  BY <1>a DEF RpcTypes
<1> QED BY <1>1, <1>2, <1>3 DEF MountError, UnmountError

LEMMA RemovalTypes ==
  ASSUME TypeOK, NEW p \in Paths, RemoveAll(p)
  PROVE  /\ dirs' \subseteq dirs /\ sub' \subseteq sub
         /\ made' \subseteq made /\ data' \subseteq data
<1>1. dirs' \subseteq dirs /\ sub' \subseteq sub /\ made' \subseteq made
  BY DEF RemoveAll
<1>2. data' \subseteq data
  <2>1. CASE ~online                          BY <2>1 DEF RemoveAll
  <2>2. CASE online /\ Shows(p) = "root"      BY <2>2 DEF RemoveAll
  <2>3. CASE online /\ Shows(p) = "volume"    BY <2>3 DEF RemoveAll
  <2>4. CASE online /\ Shows(p) = "disk"      BY <2>4 DEF RemoveAll
  <2>5. mounts[p] \in Seq(Sources)
    BY DEF TypeOK
  <2>6. Shows(p) \in Sources
    BY <2>5 DEF Shows, Sources
  <2> QED BY <2>1, <2>2, <2>3, <2>4, <2>6 DEF Sources
<1> QED BY <1>1, <1>2

LEMMA TypeInit == Init => TypeOK /\ Dispatched
  BY SimpleAssumption DEF Init, TypeOK, Paths, Dispatched, Staging, Binding

LEMMA TypeStep == TypeOK /\ Dispatched /\ [Next]_vars => TypeOK' /\ Dispatched'
<1> SUFFICES ASSUME TypeOK, Dispatched, [Next]_vars PROVE TypeOK' /\ Dispatched'
  OBVIOUS
<1> USE SimpleAssumption
<1>r. RpcTypes
  BY DEF TypeOK, RpcTypes
<1>0. ASSUME RpcTypes', UNCHANGED others, dirs' \subseteq Paths, sub' \subseteq Volumes,
             made' \subseteq Volumes, data' \subseteq Volumes,
             mounts' \in [Paths -> Seq(Sources)]
      PROVE  TypeOK' /\ Dispatched'
  BY <1>0 DEF TypeOK, RpcTypes, others
<1>a. \A h \in Handlers : pc[h] # "idle" => arg[h] \in Paths /\ Vol(arg[h]) \in Volumes
  BY PathFacts DEF Dispatched
<1>1. ASSUME NEW h \in Handlers, NodeStageVolume(h) PROVE TypeOK' /\ Dispatched'
  <2>1. arg[h] \in Volumes /\ arg[h] \in Paths /\ pc[h] # "idle"
    BY <1>1, PathFacts DEF NodeStageVolume, StageMkdir, StageMount, StageSubdir, Dispatched, Staging
  <2>2. Follows(h, "mount") /\ Follows(h, "subdir")
    BY <2>1 DEF Follows, Calls, Staging, Binding
  <2>3. RpcTypes'
    BY <1>1, <1>r, <2>1, <2>2, ControlTypes
    DEF NodeStageVolume, StageMkdir, StageMount, StageSubdir
  <2>4. mounts' \in [Paths -> Seq(Sources)]
    BY <1>1, <2>1, StackTypes
    DEF NodeStageVolume, StageMkdir, StageMount, StageSubdir, TypeOK, Sources
  <2>5. dirs' \subseteq Paths /\ sub' \subseteq Volumes /\ made' \subseteq Volumes
    BY <1>1, <2>1
    DEF NodeStageVolume, StageMkdir, StageMount, StageSubdir, MkdirAll, disk, share, TypeOK
  <2>6. UNCHANGED others /\ data' \subseteq Volumes
    BY <1>1 DEF NodeStageVolume, StageMkdir, StageMount, StageSubdir, share, TypeOK
  <2> QED BY <1>0, <2>3, <2>4, <2>5, <2>6
<1>2. ASSUME NEW h \in Handlers, NodePublishVolume(h) PROVE TypeOK' /\ Dispatched'
  <2>1. arg[h] \in Pods /\ arg[h] \in Paths /\ pc[h] # "idle"
    BY <1>2, PathFacts DEF NodePublishVolume, BindStat, BindMkdir, BindMount, Dispatched, Binding
  <2>2. Follows(h, "bindmkdir") /\ Follows(h, "bind")
    BY <2>1 DEF Follows, Calls, Staging, Binding
  <2>3. RpcTypes'
    BY <1>2, <1>r, <2>1, <2>2, ControlTypes
    DEF NodePublishVolume, BindStat, BindMkdir, BindMount
  <2>4. mounts' \in [Paths -> Seq(Sources)]
    BY <1>2, <2>1, StackTypes
    DEF NodePublishVolume, BindStat, BindMkdir, BindMount, TypeOK, Sources
  <2>5. /\ dirs' \subseteq Paths /\ sub' \subseteq Volumes
        /\ made' \subseteq Volumes /\ data' \subseteq Volumes
    BY <1>2, <2>1, RemovalTypes
    DEF NodePublishVolume, BindStat, BindMkdir, BindMount, MkdirAll, disk, share, TypeOK
  <2>6. UNCHANGED others
    BY <1>2 DEF NodePublishVolume, BindStat, BindMkdir, BindMount
  <2> QED BY <1>0, <2>3, <2>4, <2>5, <2>6
<1>3. ASSUME NEW h \in Handlers, Unmounting(h) PROVE TypeOK' /\ Dispatched'
  <2>1. arg[h] \in Paths /\ pc[h] # "idle"
    BY <1>3, <1>a DEF Unmounting, UnmountStat, UnmountDone, UnmountFails, DeleteDir
  <2>2. Follows(h, "umount") /\ Follows(h, "remove")
    BY DEF Follows, Calls, Staging, Binding
  <2>3. RpcTypes'
    BY <1>3, <1>r, <2>1, <2>2, ControlTypes
    DEF Unmounting, UnmountStat, UnmountDone, UnmountFails, DeleteDir
  <2>4. mounts' \in [Paths -> Seq(Sources)]
    BY <1>3, <2>1, StackTypes
    DEF Unmounting, UnmountStat, UnmountDone, UnmountFails, DeleteDir, TypeOK, Sources
  <2>5. /\ dirs' \subseteq Paths /\ sub' \subseteq Volumes
        /\ made' \subseteq Volumes /\ data' \subseteq Volumes
    BY <1>3, <2>1, RemovalTypes
    DEF Unmounting, UnmountStat, UnmountDone, UnmountFails, DeleteDir, disk, share, TypeOK
  <2>6. UNCHANGED others
    BY <1>3 DEF Unmounting, UnmountStat, UnmountDone, UnmountFails, DeleteDir
  <2> QED BY <1>0, <2>3, <2>4, <2>5, <2>6
<1>4. ASSUME NEW p \in Paths, Kubelet(p) PROVE TypeOK' /\ Dispatched'
  <2>1. ASSUME NEW first \in {"mkdir", "bindstat", "stat"}, Call(p, first),
               first = "mkdir" => p \in Volumes, first = "bindstat" => p \in Pods
        PROVE  TypeOK' /\ Dispatched'
    <3>1. PICK h \in Handlers : /\ pc[h] = "idle"
                                /\ pc' = [pc EXCEPT ![h] = first]
                                /\ arg' = [arg EXCEPT ![h] = p]
                                /\ waiting' = [waiting EXCEPT ![Vol(p)] = h]
      BY <2>1 DEF Call
    <3>2. UNCHANGED <<disk, mounts, view, share, others>>
      BY <2>1 DEF Call
    <3>3. Vol(p) \in Volumes /\ first \in Calls
      BY PathFacts DEF Calls
    <3>4. TypeOK'
      BY <3>1, <3>2, <3>3 DEF TypeOK, disk, share, others
    <3>5. \A g \in Handlers : pc'[g] # "idle" =>
            IF g = h THEN arg'[g] = p /\ pc'[g] = first ELSE pc'[g] = pc[g] /\ arg'[g] = arg[g]
      BY <3>1 DEF TypeOK
    <3>6. \A v \in Volumes : waiting'[v] # None =>
            IF v = Vol(p) THEN waiting'[v] = h ELSE waiting'[v] = waiting[v] /\ waiting[v] # h
      BY <3>1, <3>3 DEF TypeOK, Dispatched
    <3>7. pc'[h] = first /\ arg'[h] = p /\ first # "idle"
      BY <3>1, <3>3 DEF TypeOK
    <3>8. ASSUME NEW v \in Volumes, waiting'[v] # None
          PROVE  pc'[waiting'[v]] # "idle" /\ Vol(arg'[waiting'[v]]) = v
      <4>1. CASE v = Vol(p)
        BY <3>6, <3>7, <3>8, <4>1
      <4>2. CASE v # Vol(p)
        <5>1. waiting[v] \in Handlers /\ waiting[v] # h /\ waiting'[v] = waiting[v]
          BY <3>6, <3>8, <4>2 DEF TypeOK
        <5>2. pc'[waiting[v]] = pc[waiting[v]] /\ arg'[waiting[v]] = arg[waiting[v]]
          BY <3>1, <5>1 DEF TypeOK
        <5> QED BY <3>8, <5>1, <5>2 DEF Dispatched
      <4> QED BY <4>1, <4>2
    <3>9. Dispatched'
      <4>1. \A g \in Handlers :
              /\ pc'[g] # "idle"  => arg'[g] \in Paths
              /\ pc'[g] \in Staging => arg'[g] \in Volumes
              /\ pc'[g] \in Binding => arg'[g] \in Pods
        BY <2>1, <3>5 DEF Dispatched, Staging, Binding
      <4> QED BY <3>8, <4>1 DEF Dispatched, Vol
    <3> QED BY <3>4, <3>9
  <2>2. CASE Adopt(p)
    BY <2>2 DEF Adopt, disk, rpc, share, others, TypeOK, Dispatched, Vol
  <2>3. p \notin Volumes => p \in Pods
    BY DEF Paths
  <2> QED BY <1>4, <2>1, <2>2, <2>3 DEF Kubelet, CallMount, CallUnmount
<1>5. ASSUME NEW q \in Pods, PodAdded(q) \/ PodDeleted(q) \/ PodWrites(q)
      PROVE  TypeOK' /\ Dispatched'
  <2>1. VolOf[q] \in Volumes
    OBVIOUS
  <2>2. TypeOK'
    BY <1>5, <2>1 DEF PodAdded, PodDeleted, PodWrites, disk, rpc, share, TypeOK
  <2>3. Dispatched'
    BY <1>5 DEF PodAdded, PodDeleted, PodWrites, rpc, Dispatched, Vol
  <2> QED BY <2>2, <2>3
<1>6. ASSUME NEW lost \in SUBSET Volumes, view' = Uncertain(lost)
      PROVE  view' \in [Paths -> {"no", "maybe", "yes"}]
  BY <1>6 DEF Uncertain, TypeOK
<1>7. ASSUME NEW v \in Volumes, Timeout(v) PROVE TypeOK' /\ Dispatched'
  <2>1. faults' \in [timeouts : Nat, outages : Nat, crashes : Nat]
    <3>1. faults \in [timeouts : Nat, outages : Nat, crashes : Nat]
      BY DEF TypeOK
    <3> QED BY <1>7, <3>1 DEF Timeout
  <2>2. waiting' \in [Volumes -> Handlers \union {None}]
    BY <1>7 DEF Timeout, TypeOK
  <2>3. Dispatched'
    BY <1>7 DEF Timeout, TypeOK, Dispatched, Vol
  <2> QED BY <1>6, <1>7, <2>1, <2>2, <2>3 DEF Timeout, disk, share, TypeOK
<1>8. CASE Crash
  <2>1. faults' \in [timeouts : Nat, outages : Nat, crashes : Nat]
    <3>1. faults \in [timeouts : Nat, outages : Nat, crashes : Nat]
      BY DEF TypeOK
    <3> QED BY <1>8, <3>1 DEF Crash
  <2>2. Dispatched'
    BY <1>8 DEF Crash, Dispatched, Staging, Binding
  <2>3. view' \in [Paths -> {"no", "maybe", "yes"}]
    BY <1>6, <1>8 DEF Crash
  <2> QED BY <1>8, <2>1, <2>2, <2>3 DEF Crash, disk, share, TypeOK
<1>9. CASE ServerFails \/ ServerReturns
  <2>1. faults' \in [timeouts : Nat, outages : Nat, crashes : Nat]
    <3>1. faults \in [timeouts : Nat, outages : Nat, crashes : Nat]
      BY DEF TypeOK
    <3>2. CASE ServerFails    BY <3>1, <3>2 DEF ServerFails
    <3>3. CASE ServerReturns  BY <3>1, <3>3 DEF ServerReturns
    <3> QED BY <1>9, <3>2, <3>3
  <2>2. TypeOK'
    BY <1>9, <2>1 DEF ServerFails, ServerReturns, disk, rpc, share, TypeOK
  <2>3. Dispatched'
    BY <1>9 DEF ServerFails, ServerReturns, rpc, Dispatched, Vol
  <2> QED BY <2>2, <2>3
<1>10. CASE UNCHANGED vars
  <2>1. TypeOK'
    BY <1>10 DEF vars, disk, rpc, share, others, TypeOK
  <2>2. Dispatched'
    BY <1>10 DEF vars, rpc, Dispatched, Vol
  <2> QED BY <2>1, <2>2
<1> QED
  BY <1>1, <1>2, <1>3, <1>4, <1>5, <1>7, <1>8, <1>9, <1>10
  DEF Next, Handler, NodeUnpublishVolume, NodeUnstageVolume

(* Every behaviour keeps the types of the simple driver's node server; a   *)
(* handler is never left without the path it works on.                     *)
THEOREM TypeCorrect == Spec => []TypeOK
  BY TypeInit, TypeStep, PTL DEF Spec

-----------------------------------------------------------------------------
(* Safety. *)

LEMMA InvInit == Init => IInv
<1> SUFFICES ASSUME Init PROVE IInv
  OBVIOUS
<1> USE SimpleAssumption
<1>1. TypeOK /\ Dispatched /\ MountedDirs
  BY TypeInit DEF Init, MountedDirs
<1>2. SerialInv
  BY DEF Init, SerialInv, Purpose, Staging, Binding, Removal
<1>3. UndisturbedInv
  BY PathFacts DEF Init, UndisturbedInv, Removing, Busy
<1> QED BY <1>1, <1>2, <1>3 DEF IInv

(* A mount stays above a directory, because a busy directory is not removed. *)
LEMMA MountedDirsStep == TypeOK /\ MountedDirs /\ [Next]_vars => MountedDirs'
<1> SUFFICES ASSUME TypeOK, MountedDirs, [Next]_vars, NEW p \in Paths, mounts'[p] # <<>>
             PROVE  p \in dirs'
  BY DEF MountedDirs
<1>1. mounts[p] # <<>> => p \in dirs
  BY DEF MountedDirs
<1>2. mounts \in [Paths -> Seq(Sources)]
  BY DEF TypeOK
<1>3. ASSUME NEW h \in Handlers, NodeStageVolume(h) PROVE p \in dirs'
  BY <1>1, <1>2, <1>3 DEF NodeStageVolume, StageMkdir, StageMount, StageSubdir, MkdirAll, Push, disk
<1>4. ASSUME NEW h \in Handlers, NodePublishVolume(h) PROVE p \in dirs'
  BY <1>1, <1>2, <1>4
  DEF NodePublishVolume, BindStat, BindMkdir, BindMount, MkdirAll, Push, RemoveAll, disk
<1>5. ASSUME NEW h \in Handlers, Unmounting(h) PROVE p \in dirs'
  BY <1>1, <1>2, <1>5
  DEF Unmounting, UnmountStat, UnmountDone, UnmountFails, DeleteDir, Pop, RemoveAll, disk
<1>6. ASSUME UNCHANGED <<disk, mounts>> PROVE p \in dirs'
  BY <1>1, <1>6 DEF disk
<1>7. ASSUME NEW q \in Paths, Kubelet(q) PROVE UNCHANGED <<disk, mounts>>
  BY <1>7 DEF Kubelet, CallMount, CallUnmount, Call, Adopt
<1>8. ASSUME NEW q \in Pods, PodAdded(q) \/ PodDeleted(q) \/ PodWrites(q)
      PROVE  UNCHANGED <<disk, mounts>>
  BY <1>8 DEF PodAdded, PodDeleted, PodWrites
<1>9. CASE (\E v \in Volumes : Timeout(v)) \/ Crash \/ ServerFails \/ ServerReturns
  BY <1>6, <1>9 DEF Timeout, Crash, ServerFails, ServerReturns
<1>10. CASE UNCHANGED vars
  BY <1>6, <1>10 DEF vars
<1> QED
  BY <1>3, <1>4, <1>5, <1>6, <1>7, <1>8, <1>9, <1>10
  DEF Next, Handler, NodeUnpublishVolume, NodeUnstageVolume

(* What the kubelet and the faults do to the counters of faults. *)
LEMMA FaultsGrow ==
  TypeOK /\ [Next]_vars =>
    \/ faults' = faults /\ ~ServerFails /\ \A v \in Volumes : ~Timeout(v)
    \/ Crash /\ faults'.timeouts = faults.timeouts /\ faults'.outages = faults.outages
    \/ ServerFails /\ faults'.timeouts = faults.timeouts /\ faults'.outages > 0
    \/ (\E v \in Volumes : Timeout(v)) /\ faults'.timeouts > 0
<1> SUFFICES ASSUME TypeOK, [Next]_vars
             PROVE  \/ faults' = faults /\ ~ServerFails /\ \A v \in Volumes : ~Timeout(v)
                    \/ Crash /\ faults'.timeouts = faults.timeouts /\ faults'.outages = faults.outages
                    \/ ServerFails /\ faults'.timeouts = faults.timeouts /\ faults'.outages > 0
                    \/ (\E v \in Volumes : Timeout(v)) /\ faults'.timeouts > 0
  OBVIOUS
<1>f. faults \in [timeouts : Nat, outages : Nat, crashes : Nat]
  BY DEF TypeOK
<1>1. ASSUME NEW v \in Volumes, Timeout(v) PROVE faults'.timeouts > 0
  BY <1>1, <1>f DEF Timeout
<1>2. ServerFails => faults'.timeouts = faults.timeouts /\ faults'.outages > 0
  BY <1>f DEF ServerFails
<1>3. Crash => faults'.timeouts = faults.timeouts /\ faults'.outages = faults.outages
  BY <1>f DEF Crash
<1>4. Crash \/ ServerFails \/ (\E v \in Volumes : Timeout(v)) \/ faults' = faults
  BY DEF Next, Handler, NodeStageVolume, StageMkdir, StageMount, StageSubdir,
     NodePublishVolume, BindStat, BindMkdir, BindMount, NodeUnpublishVolume, NodeUnstageVolume,
     Unmounting, UnmountStat, UnmountDone, UnmountFails, DeleteDir, Kubelet, CallMount,
     CallUnmount, Call, Adopt, PodAdded, PodDeleted, PodWrites, ServerReturns, others, vars
<1> QED BY <1>1, <1>2, <1>3, <1>4

LEMMA SerialBackwards ==
  TypeOK /\ [Next]_vars /\ Serial' => Serial /\ \A v \in Volumes : ~Timeout(v)
<1> SUFFICES ASSUME TypeOK, [Next]_vars, Serial' PROVE Serial /\ \A v \in Volumes : ~Timeout(v)
  OBVIOUS
<1>f. faults \in [timeouts : Nat, outages : Nat, crashes : Nat]
  BY DEF TypeOK
<1>1. ASSUME NEW v \in Volumes, Timeout(v) PROVE FALSE
  BY <1>1, <1>f DEF Timeout, Serial
<1> QED BY <1>1, FaultsGrow DEF Serial

LEMMA UndisturbedBackwards ==
  TypeOK /\ [Next]_vars /\ Undisturbed'
    => Undisturbed /\ Serial' /\ ~ServerFails /\ \A v \in Volumes : ~Timeout(v)
<1> SUFFICES ASSUME TypeOK, [Next]_vars, Undisturbed'
             PROVE  Undisturbed /\ Serial' /\ ~ServerFails /\ \A v \in Volumes : ~Timeout(v)
  OBVIOUS
<1>f. faults \in [timeouts : Nat, outages : Nat, crashes : Nat]
  BY DEF TypeOK
<1>1. Serial /\ Serial' /\ \A v \in Volumes : ~Timeout(v)
  BY SerialBackwards DEF Undisturbed
<1>2. ~ServerFails
  BY <1>f DEF ServerFails, Undisturbed
<1> QED BY <1>1, <1>2, FaultsGrow DEF Undisturbed

(* A handler that runs alone on its volume: what its step leaves alone. *)
LEMMA Alone ==
  ASSUME TypeOK, Dispatched, SerialInv, NEW h \in Handlers, pc[h] # "idle"
  PROVE  /\ arg[h] \in Paths /\ Vol(arg[h]) \in Volumes
         /\ waiting[Vol(arg[h])] = h /\ Purpose(h) /\ Busy(arg[h])
         /\ \A g \in Handlers : pc[g] # "idle" /\ g # h =>
              arg[g] # arg[h] /\ Vol(arg[g]) # Vol(arg[h])
         /\ \A p \in Paths : Busy(p) /\ p # arg[h] =>
              waiting[Vol(p)] \in Handlers /\ waiting[Vol(p)] # h /\ Vol(p) # Vol(arg[h])
<1> USE SimpleAssumption
<1>1. arg[h] \in Paths /\ Vol(arg[h]) \in Volumes /\ waiting[Vol(arg[h])] = h /\ Purpose(h)
  BY PathFacts DEF Dispatched, SerialInv
<1>2. \A v \in Volumes : waiting[v] \in Handlers \union {None}
  BY DEF TypeOK
<1>3. \A g \in Handlers : pc[g] # "idle" /\ g # h =>
        arg[g] # arg[h] /\ Vol(arg[g]) # Vol(arg[h])
  BY <1>1 DEF SerialInv
<1>4. \A p \in Paths : Busy(p) /\ p # arg[h] =>
        waiting[Vol(p)] \in Handlers /\ waiting[Vol(p)] # h /\ Vol(p) # Vol(arg[h])
  BY <1>1, <1>2, PathFacts DEF Busy
<1> QED BY <1>1, <1>3, <1>4 DEF Busy

(* The step of a handler that goes on, or returns, having changed at most  *)
(* what is mounted on its own path.                                        *)
LEMMA GoToSerial ==
  ASSUME TypeOK, Dispatched, SerialInv, NEW h \in Handlers, pc[h] # "idle",
         NEW call \in Calls, GoTo(h, call), pod' = pod, Purpose(h)',
         NEW m \in {<<>>, Proper(arg[h])}, mounts' = [mounts EXCEPT ![arg[h]] = m],
         view[arg[h]] = "yes" /\ call # "remove" => m = Proper(arg[h])
  PROVE  SerialInv'
<1> USE SimpleAssumption
<1>1. /\ arg[h] \in Paths /\ Vol(arg[h]) \in Volumes /\ waiting[Vol(arg[h])] = h /\ Busy(arg[h])
      /\ \A g \in Handlers : pc[g] # "idle" /\ g # h => arg[g] # arg[h]
      /\ \A p \in Paths : Busy(p) /\ p # arg[h] => waiting[Vol(p)] \in Handlers \ {h}
  BY Alone
<1>2. /\ arg' = arg /\ waiting' = waiting /\ view' = view
      /\ pc'[h] = call /\ \A g \in Handlers \ {h} : pc'[g] = pc[g]
  BY DEF GoTo, TypeOK
<1>3. mounts'[arg[h]] = m /\ \A p \in Paths \ {arg[h]} : mounts'[p] = mounts[p]
  BY <1>1 DEF TypeOK
<1>4. ASSUME NEW g \in Handlers, pc'[g] # "idle" PROVE waiting'[Vol(arg'[g])] = g /\ Purpose(g)'
  <2>1. CASE g = h
    BY <1>1, <1>2, <2>1
  <2>2. CASE g # h
    <3>1. pc'[g] = pc[g] /\ pc[g] # "idle" /\ arg[g] \in Paths \ {arg[h]}
      BY <1>1, <1>2, <1>4, <2>2 DEF Dispatched
    <3>2. waiting[Vol(arg[g])] = g /\ Purpose(g)
      BY <3>1 DEF SerialInv
    <3> QED BY <1>2, <1>3, <3>1, <3>2 DEF Purpose
  <2> QED BY <2>1, <2>2
<1>5. \A p \in Paths : mounts'[p] \in {<<>>, Proper(p)}
  BY <1>3 DEF SerialInv
<1>6. ASSUME NEW p \in Paths, view'[p] = "yes", ~Removing(p)' PROVE mounts'[p] = Proper(p)
  <2>1. CASE p = arg[h]
    <3>1. call = "remove" => Removing(p)'
      BY <1>1, <1>2, <2>1 DEF Removing, Busy, Vol
    <3> QED BY <1>2, <1>3, <1>6, <2>1, <3>1
  <2>2. CASE p # arg[h]
    <3>1. Removing(p) => Removing(p)'
      BY <1>1, <1>2, <2>2 DEF Removing, Busy, Vol
    <3> QED BY <1>2, <1>3, <1>6, <2>2, <3>1 DEF SerialInv
  <2> QED BY <2>1, <2>2
<1>7. \A g \in Handlers : pc'[g] # "idle" => waiting'[Vol(arg[g])'] = g /\ Purpose(g)'
  BY <1>2, <1>4 DEF Vol
<1> QED BY <1>5, <1>6, <1>7 DEF SerialInv, Vol, Proper

LEMMA ReplySerial ==
  ASSUME TypeOK, Dispatched, SerialInv, NEW h \in Handlers, pc[h] # "idle",
         NEW seen \in {"no", "maybe", "yes"}, Reply(h, seen), pod' = pod,
         NEW m \in {<<>>, Proper(arg[h])}, mounts' = [mounts EXCEPT ![arg[h]] = m],
         seen = "yes" => m = Proper(arg[h])
  PROVE  SerialInv'
<1> USE SimpleAssumption
<1>1. /\ arg[h] \in Paths /\ Vol(arg[h]) \in Volumes /\ waiting[Vol(arg[h])] = h
      /\ \A g \in Handlers : pc[g] # "idle" /\ g # h =>
           arg[g] # arg[h] /\ Vol(arg[g]) # Vol(arg[h])
      /\ \A p \in Paths : Busy(p) /\ p # arg[h] =>
           waiting[Vol(p)] \in Handlers \ {h} /\ Vol(p) # Vol(arg[h])
  BY Alone
<1>2. /\ pc'[h] = "idle" /\ view'[arg[h]] = seen
      /\ \A g \in Handlers \ {h} : pc'[g] = pc[g] /\ arg'[g] = arg[g]
      /\ \A v \in Volumes \ {Vol(arg[h])} : waiting'[v] = waiting[v]
      /\ \A p \in Paths \ {arg[h]} : view'[p] = view[p]
  BY <1>1 DEF Reply, TypeOK
<1>3. mounts'[arg[h]] = m /\ \A p \in Paths \ {arg[h]} : mounts'[p] = mounts[p]
  BY <1>1 DEF TypeOK
<1>4. ASSUME NEW g \in Handlers, pc'[g] # "idle" PROVE waiting'[Vol(arg'[g])] = g /\ Purpose(g)'
  <2>1. pc[g] # "idle" /\ pc'[g] = pc[g] /\ g # h /\ arg'[g] = arg[g]
    BY <1>2, <1>4
  <2>2. /\ arg[g] \in Paths \ {arg[h]} /\ Vol(arg[g]) \in Volumes \ {Vol(arg[h])}
        /\ pc[g] \in Binding => arg[g] \in Pods
    BY <1>1, <2>1, PathFacts DEF Dispatched
  <2>3. waiting[Vol(arg[g])] = g /\ Purpose(g)
    BY <2>1 DEF SerialInv
  <2>4. arg[g] \in Pods => VolOf[arg[g]] \in Paths \ {arg[h]}
    BY <2>2, PathFacts
  <2> QED BY <1>2, <1>3, <2>1, <2>2, <2>3, <2>4 DEF Purpose
<1>5. \A p \in Paths : mounts'[p] \in {<<>>, Proper(p)}
  BY <1>3 DEF SerialInv
<1>6. ASSUME NEW p \in Paths, view'[p] = "yes", ~Removing(p)' PROVE mounts'[p] = Proper(p)
  <2>1. CASE p = arg[h]
    BY <1>2, <1>3, <1>6, <2>1
  <2>2. CASE p # arg[h]
    <3>1. Removing(p) => Removing(p)'
      BY <1>1, <1>2, <2>2, PathFacts DEF Removing, Busy, Vol
    <3> QED BY <1>2, <1>3, <1>6, <2>2, <3>1 DEF SerialInv
  <2> QED BY <2>1, <2>2
<1>7. \A g \in Handlers : pc'[g] # "idle" => waiting'[Vol(arg[g])'] = g /\ Purpose(g)'
  BY <1>4 DEF Vol
<1> QED BY <1>5, <1>6, <1>7 DEF SerialInv, Vol, Proper

(* While no call of a volume overlaps another one of it, a handler finds   *)
(* the paths of its volume as the kubelet left them.                       *)
LEMMA SerialStep ==
  TypeOK /\ Dispatched /\ SerialInv /\ Serial' /\ [Next]_vars => SerialInv'
<1> SUFFICES ASSUME TypeOK, Dispatched, SerialInv, Serial', [Next]_vars PROVE SerialInv'
  OBVIOUS
<1> USE SimpleAssumption
<1>0. \A v \in Volumes : ~Timeout(v)
  BY SerialBackwards
<1>t. /\ mounts \in [Paths -> Seq(Sources)]
      /\ \A p \in Paths : view[p] \in {"no", "maybe", "yes"}
  BY DEF TypeOK
<1>1. ASSUME NEW h \in Handlers, NodeStageVolume(h) PROVE SerialInv'
  <2>1. /\ pc[h] # "idle" /\ arg[h] \in Volumes /\ arg[h] \in Paths /\ Purpose(h)
        /\ pod' = pod
    BY <1>1, Alone
    DEF NodeStageVolume, StageMkdir, StageMount, StageSubdir, Dispatched, Staging, others
  <2>2. Proper(arg[h]) = <<"root">> /\ mounts[arg[h]] \in {<<>>, Proper(arg[h])}
    BY <2>1 DEF Proper, SerialInv
  <2>3. mounts = [mounts EXCEPT ![arg[h]] = mounts[arg[h]]]
    BY <1>t
  <2>4. view[arg[h]] = "yes" => mounts[arg[h]] # <<>>
    BY <1>1, <2>1, <2>2, Alone DEF NodeStageVolume, StageMkdir, StageMount, StageSubdir,
      SerialInv, Removing
  <2>5. CASE pc[h] = "mkdir" /\ GoTo(h, "mount")
    <3>1. mounts' = mounts
      BY <1>1, <2>5 DEF NodeStageVolume, StageMkdir, StageMount, StageSubdir
    <3>2. mounts[arg[h]] = <<>>
      BY <2>1, <2>5 DEF Purpose
    <3>3. Purpose(h)'
      BY <2>1, <2>5, <3>1, <3>2 DEF GoTo, Purpose, Binding, Removal, TypeOK
    <3> QED BY <2>1, <2>2, <2>3, <2>4, <2>5, <3>1, <3>2, <3>3, GoToSerial DEF Calls
  <2>6. CASE MountError(h) /\ UNCHANGED mounts
    <3>1. mounts[arg[h]] = <<>> \/ view[arg[h]] # "yes" \/ mounts[arg[h]] = Proper(arg[h])
      BY <2>2
    <3> QED BY <1>t, <2>1, <2>2, <2>3, <2>4, <2>6, <3>1, ReplySerial DEF MountError
  <2>7. CASE pc[h] = "mount" /\ Push(arg[h], "root") /\ GoTo(h, "subdir")
    <3>1. mounts[arg[h]] = <<>>
      BY <2>1, <2>7 DEF Purpose
    <3>2. mounts' = [mounts EXCEPT ![arg[h]] = <<"root">>]
      BY <2>7, <3>1 DEF Push
    <3>3. Purpose(h)'
      BY <1>t, <2>1, <2>7, <3>2 DEF GoTo, Purpose, Binding, Removal, TypeOK
    <3> QED BY <2>1, <2>2, <2>7, <3>2, <3>3, GoToSerial DEF Calls
  <2>8. CASE pc[h] = "subdir" /\ Reply(h, "yes") /\ UNCHANGED mounts
    <3>1. mounts[arg[h]] = Proper(arg[h])
      BY <2>1, <2>2, <2>8 DEF Purpose
    <3> QED BY <2>1, <2>2, <2>3, <2>8, <3>1, ReplySerial
  <2> QED BY <1>1, <2>5, <2>6, <2>7, <2>8 DEF NodeStageVolume, StageMkdir, StageMount, StageSubdir
<1>2. ASSUME NEW h \in Handlers, NodePublishVolume(h) PROVE SerialInv'
  <2>1. /\ pc[h] # "idle" /\ arg[h] \in Pods /\ arg[h] \in Paths /\ Purpose(h)
        /\ pod' = pod /\ mounts[arg[h]] = <<>> /\ view[VolOf[arg[h]]] = "yes"
    BY <1>2, Alone
    DEF NodePublishVolume, BindStat, BindMkdir, BindMount, Dispatched, Binding, Purpose, others
  <2>2. Proper(arg[h]) = <<"volume">> /\ Vol(arg[h]) = VolOf[arg[h]]
    BY <2>1, PathFacts DEF Proper
  <2>3. mounts = [mounts EXCEPT ![arg[h]] = <<>>]
    BY <1>t, <2>1
  <2>4. view[arg[h]] # "yes"
    BY <1>2, <2>1, <2>2, Alone DEF NodePublishVolume, BindStat, BindMkdir, BindMount, SerialInv,
       Removing
  <2>5. Shows(Vol(arg[h])) = "root"
    <3>1. VolOf[arg[h]] \in Volumes /\ VolOf[arg[h]] \in Paths /\ VolOf[arg[h]] # arg[h]
      BY <2>1, PathFacts
    <3>2. ~Removing(VolOf[arg[h]])
      BY <2>1, <2>2, <3>1, Alone, PathFacts DEF Removing, Busy
    <3>3. mounts[VolOf[arg[h]]] = <<"root">>
      BY <2>1, <3>1, <3>2 DEF SerialInv, Proper
    <3> QED BY <2>2, <3>3 DEF Shows
  <2>6. ASSUME NEW call \in Binding, GoTo(h, call), UNCHANGED mounts PROVE SerialInv'
    <3>1. Purpose(h)' /\ call \in Calls
      BY <2>1, <2>6 DEF GoTo, Purpose, Binding, Removal, TypeOK, Calls
    <3> QED BY <2>1, <2>3, <2>4, <2>6, <3>1, GoToSerial
  <2>7. CASE MountError(h) /\ UNCHANGED mounts
    BY <1>t, <2>1, <2>3, <2>4, <2>7, ReplySerial DEF MountError
  <2>8. CASE Push(arg[h], IF Shows(Vol(arg[h])) = "root" THEN "volume" ELSE "disk") /\ Reply(h, "yes")
    <3>1. mounts' = [mounts EXCEPT ![arg[h]] = <<"volume">>]
      BY <2>1, <2>5, <2>8 DEF Push
    <3> QED BY <2>1, <2>2, <2>8, <3>1, ReplySerial
  <2> QED BY <1>2, <2>6, <2>7, <2>8
          DEF NodePublishVolume, BindStat, BindMkdir, BindMount, Binding
<1>3. ASSUME NEW h \in Handlers, Unmounting(h) PROVE SerialInv'
  <2>1. /\ pc[h] # "idle" /\ arg[h] \in Paths /\ pod' = pod
        /\ arg[h] \in Pods => pod[arg[h]] = "deleted"
    BY <1>3, Alone
    DEF Unmounting, UnmountStat, UnmountDone, UnmountFails, DeleteDir, Purpose, Removal, others
  <2>2. mounts[arg[h]] \in {<<>>, Proper(arg[h])}
    BY <2>1 DEF SerialInv
  <2>3. mounts = [mounts EXCEPT ![arg[h]] = mounts[arg[h]]]
    BY <1>t
  <2>4. ASSUME NEW call \in Removal, GoTo(h, call) PROVE Purpose(h)' /\ call \in Calls
    BY <2>1, <2>4 DEF GoTo, Purpose, Binding, Removal, Calls, TypeOK
  <2>5. CASE UnmountStat(h)
    <3>1. view[arg[h]] = "yes" => mounts[arg[h]] = Proper(arg[h])
      BY <2>1, <2>5, Alone DEF UnmountStat, SerialInv, Removing
    <3> QED BY <2>1, <2>2, <2>3, <2>4, <2>5, <3>1, GoToSerial DEF UnmountStat, Removal
  <2>6. CASE UnmountDone(h)
    <3>1. mounts' = [mounts EXCEPT ![arg[h]] = <<>>]
      <4>1. Tail(<<"root">>) = <<>> /\ Tail(<<"volume">>) = <<>>
        OBVIOUS
      <4>2. Tail(mounts[arg[h]]) = <<>>
        BY <2>2, <2>6, <4>1 DEF UnmountDone, Proper
      <4> QED BY <2>6, <4>2 DEF UnmountDone, Pop
    <3> QED BY <2>1, <2>4, <2>6, <3>1, GoToSerial DEF UnmountDone, Removal
  <2>7. CASE UnmountFails(h)
    BY <2>1, <2>2, <2>3, <2>7, ReplySerial DEF UnmountFails, UnmountError
  <2>8. CASE DeleteDir(h)
    BY <2>1, <2>2, <2>3, <2>8, ReplySerial DEF DeleteDir
  <2> QED BY <1>3, <2>5, <2>6, <2>7, <2>8 DEF Unmounting
<1>4. ASSUME NEW p \in Paths, Kubelet(p) PROVE SerialInv'
  <2>1. ASSUME NEW first \in {"mkdir", "bindstat", "stat"}, Call(p, first),
               first # "stat" => mounts[p] = <<>>,
               first = "bindstat" => p \in Pods /\ view[VolOf[p]] = "yes",
               first = "stat" /\ p \in Pods => pod[p] = "deleted"
        PROVE  SerialInv'
    <3>1. PICK h \in Handlers : /\ pc[h] = "idle"
                                /\ pc' = [pc EXCEPT ![h] = first]
                                /\ arg' = [arg EXCEPT ![h] = p]
                                /\ waiting' = [waiting EXCEPT ![Vol(p)] = h]
      BY <2>1 DEF Call
    <3>2. /\ UNCHANGED <<mounts, view, pod>>
          /\ waiting[Vol(p)] = None /\ Vol(p) \in Volumes
      BY <2>1, PathFacts DEF Call, others
    <3>3. /\ pc'[h] = first /\ arg'[h] = p /\ waiting'[Vol(p)] = h
          /\ \A g \in Handlers \ {h} : pc'[g] = pc[g] /\ arg'[g] = arg[g]
          /\ \A v \in Volumes \ {Vol(p)} : waiting'[v] = waiting[v]
      BY <3>1, <3>2 DEF TypeOK
    <3>4. ASSUME NEW g \in Handlers, pc'[g] # "idle"
          PROVE  waiting'[Vol(arg'[g])] = g /\ Purpose(g)'
      <4>1. CASE g = h
        BY <2>1, <3>2, <3>3, <4>1 DEF Purpose, Binding, Removal
      <4>2. CASE g # h
        <5>1. pc[g] # "idle" /\ arg[g] \in Paths /\ waiting[Vol(arg[g])] = g /\ Purpose(g)
          BY <3>3, <3>4, <4>2 DEF SerialInv, Dispatched
        <5>2. Vol(arg[g]) # Vol(p) /\ Vol(arg[g]) \in Volumes
          BY <3>2, <5>1, PathFacts
        <5> QED BY <3>2, <3>3, <4>2, <5>1, <5>2 DEF Purpose
      <4> QED BY <4>1, <4>2
    <3>5. ASSUME NEW q \in Paths, Removing(q) PROVE Removing(q)'
      <4>1. Vol(q) # Vol(p) /\ Vol(q) \in Volumes
        BY <3>2, <3>5, PathFacts DEF Removing, Busy
      <4>2. waiting[Vol(q)] \in Handlers /\ waiting[Vol(q)] # h
        BY <3>1, <3>5, <4>1 DEF Removing, Busy, Dispatched, TypeOK
      <4> QED BY <3>3, <3>5, <4>1, <4>2 DEF Removing, Busy, Vol
    <3> QED BY <3>2, <3>4, <3>5 DEF SerialInv, Vol, Proper
  <2>2. CASE CallMount(p)
    BY <2>1, <2>2 DEF CallMount, Missing, Paths
  <2>3. CASE CallUnmount(p)
    BY <2>1, <2>3 DEF CallUnmount, Unneeded
  <2>4. CASE Adopt(p)
    <3>1. UNCHANGED <<mounts, rpc, pod>> /\ mounts[p] # <<>> /\ view' = [view EXCEPT ![p] = "yes"]
      BY <2>4 DEF Adopt, others
    <3>2. \A q \in Paths : view'[q] = IF q = p THEN "yes" ELSE view[q]
      BY <3>1 DEF TypeOK
    <3>3. \A h \in Handlers : Purpose(h) /\ pc[h] # "idle" => Purpose(h)'
      BY <3>1, <3>2, PathFacts DEF Purpose, rpc, Dispatched
    <3>4. \A q \in Paths : Removing(q)' <=> Removing(q)
      BY <3>1 DEF Removing, Busy, rpc, Vol
    <3> QED BY <3>1, <3>2, <3>3, <3>4 DEF SerialInv, rpc, Vol, Proper
  <2> QED BY <1>4, <2>2, <2>3, <2>4 DEF Kubelet
<1>5. ASSUME NEW q \in Pods, PodAdded(q) \/ PodDeleted(q) PROVE SerialInv'
  <2>1. UNCHANGED <<mounts, rpc, view>> /\ \A r \in Pods : pod[r] = "deleted" => pod'[r] = "deleted"
    BY <1>5 DEF PodAdded, PodDeleted, TypeOK
  <2>2. \A h \in Handlers : Purpose(h) => Purpose(h)'
    BY <2>1 DEF Purpose, rpc
  <2>3. \A p \in Paths : Removing(p)' <=> Removing(p)
    BY <2>1 DEF Removing, Busy, rpc, Vol
  <2> QED BY <2>1, <2>2, <2>3 DEF SerialInv, rpc, Vol, Proper
<1>6. ASSUME UNCHANGED <<mounts, rpc, view, pod>> PROVE SerialInv'
  BY <1>6 DEF SerialInv, Purpose, Removing, Busy, rpc, Vol, Proper
<1>7. CASE Crash
  <2>1. \A p \in Paths : view'[p] = "yes" => view[p] = "yes" /\ ~Busy(p)
    <3>1. \A p \in Paths : Vol(p) \in Volumes
      BY PathFacts
    <3> QED BY <1>7, <3>1 DEF Crash, Uncertain, Busy
  <2> QED BY <1>7, <2>1 DEF Crash, SerialInv, Removing, Proper
<1>8. CASE (\E q \in Pods : PodWrites(q)) \/ ServerFails \/ ServerReturns \/ UNCHANGED vars
  BY <1>6, <1>8 DEF PodWrites, ServerFails, ServerReturns, vars, others
<1> QED
  BY <1>0, <1>1, <1>2, <1>3, <1>4, <1>5, <1>7, <1>8
  DEF Next, Handler, NodeUnpublishVolume, NodeUnstageVolume

(* What a handler that runs alone on its volume may change, so that nothing *)
(* is lost: the figures of the share only grow, and a path the kubelet is   *)
(* told is free, or whose directory is about to be deleted, has no mount.   *)
Harmless(p, m) ==
  /\ online' = online /\ written' = written
  /\ made \subseteq made' /\ data \subseteq data'
  /\ mounts' = [mounts EXCEPT ![p] = m]
  /\ p \in Pods /\ m # <<>> => VolOf[p] \in made'

LEMMA GoToUndisturbed ==
  ASSUME TypeOK, Dispatched, SerialInv, UndisturbedInv, NEW h \in Handlers, pc[h] # "idle",
         NEW call \in Calls, GoTo(h, call), NEW m, Harmless(arg[h], m),
         call = "remove" => m = <<>>
  PROVE  UndisturbedInv'
<1> USE SimpleAssumption
<1>1. /\ arg[h] \in Paths /\ Vol(arg[h]) \in Volumes /\ waiting[Vol(arg[h])] = h /\ Busy(arg[h])
      /\ \A p \in Paths : Busy(p) /\ p # arg[h] => waiting[Vol(p)] \in Handlers \ {h}
  BY Alone
<1>2. /\ arg' = arg /\ waiting' = waiting /\ view' = view
      /\ pc'[h] = call /\ \A g \in Handlers \ {h} : pc'[g] = pc[g]
  BY DEF GoTo, TypeOK
<1>3. mounts'[arg[h]] = m /\ \A p \in Paths \ {arg[h]} : mounts'[p] = mounts[p]
  BY <1>1 DEF Harmless, TypeOK
<1>4. \A p \in Paths : Busy(p)' <=> Busy(p)
  BY <1>2 DEF Busy, Vol
<1>5. ASSUME NEW p \in Paths, Removing(p)' PROVE mounts'[p] = <<>>
  <2>1. CASE p = arg[h]
    BY <1>1, <1>2, <1>3, <1>5, <2>1 DEF Removing, Vol
  <2>2. CASE p # arg[h]
    <3>1. Busy(p) /\ pc'[waiting[Vol(p)]] = "remove"
      BY <1>2, <1>4, <1>5 DEF Removing, Vol
    <3>2. Removing(p)
      BY <1>1, <1>2, <2>2, <3>1 DEF Removing
    <3> QED BY <1>3, <2>2, <3>2 DEF UndisturbedInv
  <2> QED BY <2>1, <2>2
<1>6. ASSUME NEW p \in Paths, view'[p] = "no", ~Busy(p)' PROVE mounts'[p] = <<>>
  BY <1>1, <1>2, <1>3, <1>4, <1>6 DEF UndisturbedInv
<1>7. \A q \in Pods : mounts'[q] # <<>> => VolOf[q] \in made'
  BY <1>3, PathFacts DEF Harmless, UndisturbedInv
<1> QED BY <1>5, <1>6, <1>7 DEF Harmless, UndisturbedInv

LEMMA ReplyUndisturbed ==
  ASSUME TypeOK, Dispatched, SerialInv, UndisturbedInv, NEW h \in Handlers, pc[h] # "idle",
         NEW seen \in {"no", "maybe", "yes"}, Reply(h, seen), NEW m, Harmless(arg[h], m),
         seen = "no" => m = <<>>
  PROVE  UndisturbedInv'
<1> USE SimpleAssumption
<1>1. /\ arg[h] \in Paths /\ Vol(arg[h]) \in Volumes /\ waiting[Vol(arg[h])] = h
      /\ \A p \in Paths : Busy(p) /\ p # arg[h] =>
           waiting[Vol(p)] \in Handlers \ {h} /\ Vol(p) # Vol(arg[h])
  BY Alone
<1>2. /\ pc'[h] = "idle" /\ view'[arg[h]] = seen
      /\ \A g \in Handlers \ {h} : pc'[g] = pc[g] /\ arg'[g] = arg[g]
      /\ waiting'[Vol(arg[h])] = None
      /\ \A v \in Volumes \ {Vol(arg[h])} : waiting'[v] = waiting[v]
      /\ \A p \in Paths \ {arg[h]} : view'[p] = view[p]
  BY <1>1 DEF Reply, TypeOK
<1>3. mounts'[arg[h]] = m /\ \A p \in Paths \ {arg[h]} : mounts'[p] = mounts[p]
  BY <1>1 DEF Harmless, TypeOK
<1>4. ASSUME NEW p \in Paths, p # arg[h] PROVE Busy(p)' <=> Busy(p)
  <2>1. CASE Vol(p) = Vol(arg[h])
    BY <1>1, <1>2, <1>4, <2>1 DEF Busy, Vol
  <2>2. CASE Vol(p) # Vol(arg[h])
    <3>1. waiting'[Vol(p)] = waiting[Vol(p)] /\ waiting[Vol(p)] \in Handlers \union {None}
      BY <1>2, <2>2, PathFacts DEF TypeOK
    <3>2. waiting[Vol(p)] # h
      BY <1>1, <2>2, <3>1, PathFacts DEF Dispatched
    <3> QED BY <1>2, <3>1, <3>2 DEF Busy, Vol
  <2> QED BY <2>1, <2>2
<1>5. ASSUME NEW p \in Paths, Removing(p)' PROVE mounts'[p] = <<>>
  <2>1. p # arg[h]
    BY <1>1, <1>2, <1>5 DEF Removing, Busy, Vol
  <2>2. Busy(p) /\ Vol(p) \in Volumes \ {Vol(arg[h])} /\ waiting[Vol(p)] \in Handlers \ {h}
    BY <1>1, <1>4, <1>5, <2>1, PathFacts DEF Removing
  <2>3. Removing(p)
    BY <1>2, <1>5, <2>2 DEF Removing, Vol
  <2> QED BY <1>3, <2>1, <2>3 DEF UndisturbedInv
<1>6. ASSUME NEW p \in Paths, view'[p] = "no", ~Busy(p)' PROVE mounts'[p] = <<>>
  BY <1>1, <1>2, <1>3, <1>4, <1>6 DEF UndisturbedInv
<1>7. \A q \in Pods : mounts'[q] # <<>> => VolOf[q] \in made'
  BY <1>3, PathFacts DEF Harmless, UndisturbedInv
<1> QED BY <1>5, <1>6, <1>7 DEF Harmless, UndisturbedInv

(* While the server answers, too, only empty directories are deleted. *)
LEMMA UndisturbedStep ==
  TypeOK /\ Dispatched /\ MountedDirs /\ SerialInv /\ UndisturbedInv /\ Undisturbed' /\ [Next]_vars
    => UndisturbedInv'
<1> SUFFICES ASSUME TypeOK, Dispatched, MountedDirs, SerialInv, UndisturbedInv, Undisturbed',
                    [Next]_vars
             PROVE  UndisturbedInv'
  OBVIOUS
<1> USE SimpleAssumption
<1>0. ~ServerFails /\ \A v \in Volumes : ~Timeout(v)
  BY UndisturbedBackwards
<1>t. /\ mounts \in [Paths -> Seq(Sources)]
      /\ \A p \in Paths : view[p] \in {"no", "maybe", "yes"}
  BY DEF TypeOK
<1>e. \A p : mounts = [mounts EXCEPT ![p] = mounts[p]]
  BY <1>t
<1>m. \A q \in Pods : mounts[q] # <<>> => VolOf[q] \in made
  BY DEF UndisturbedInv
<1>1. ASSUME NEW h \in Handlers, NodeStageVolume(h) PROVE UndisturbedInv'
  <2>1. /\ pc[h] # "idle" /\ arg[h] \in Volumes /\ arg[h] \in Paths /\ arg[h] \notin Pods /\ Purpose(h)
    BY <1>1, Alone, PathFacts
    DEF NodeStageVolume, StageMkdir, StageMount, StageSubdir, Dispatched, Staging
  <2>2. /\ online' = online /\ written' = written
        /\ made \subseteq made' /\ data \subseteq data'
    BY <1>1 DEF NodeStageVolume, StageMkdir, StageMount, StageSubdir, share, others
  <2>3. mounts' = mounts => Harmless(arg[h], mounts[arg[h]])
    BY <1>e, <2>1, <2>2 DEF Harmless
  <2>4. CASE pc[h] = "mkdir" /\ GoTo(h, "mount") /\ UNCHANGED mounts
    BY <2>1, <2>3, <2>4, GoToUndisturbed DEF Calls
  <2>5. CASE pc[h] \in {"mkdir", "mount"} /\ MountError(h) /\ UNCHANGED mounts
    BY <1>t, <2>1, <2>3, <2>5, ReplyUndisturbed DEF MountError, Purpose
  <2>6. CASE pc[h] = "mount" /\ Push(arg[h], "root") /\ GoTo(h, "subdir")
    <3>1. mounts[arg[h]] = <<>>
      BY <2>1, <2>6 DEF Purpose
    <3>2. mounts' = [mounts EXCEPT ![arg[h]] = <<"root">>]
      BY <2>6, <3>1 DEF Push
    <3>3. Harmless(arg[h], <<"root">>)
      BY <2>1, <2>2, <3>2 DEF Harmless
    <3> QED BY <2>1, <2>6, <3>3, GoToUndisturbed DEF Calls
  <2>7. CASE pc[h] = "subdir" /\ Reply(h, "yes") /\ UNCHANGED mounts
    BY <2>1, <2>3, <2>7, ReplyUndisturbed
  <2> QED BY <1>1, <2>4, <2>5, <2>6, <2>7
          DEF NodeStageVolume, StageMkdir, StageMount, StageSubdir
<1>2. ASSUME NEW h \in Handlers, NodePublishVolume(h) PROVE UndisturbedInv'
  <2>1. /\ pc[h] # "idle" /\ arg[h] \in Pods /\ arg[h] \in Paths
        /\ mounts[arg[h]] = <<>> /\ view[VolOf[arg[h]]] = "yes"
    BY <1>2, Alone DEF NodePublishVolume, BindStat, BindMkdir, BindMount, Dispatched, Binding, Purpose
  <2>2. /\ online' = online /\ written' = written
        /\ made \subseteq made' /\ data \subseteq data'
    BY <1>2, <2>1
    DEF NodePublishVolume, BindStat, BindMkdir, BindMount, RemoveAll, Shows, share, others
  <2>3. mounts' = mounts => Harmless(arg[h], <<>>)
    BY <1>e, <2>1, <2>2 DEF Harmless
  <2>4. ASSUME NEW call \in Binding, GoTo(h, call), UNCHANGED mounts PROVE UndisturbedInv'
    BY <2>1, <2>3, <2>4, GoToUndisturbed DEF Binding, Calls
  <2>5. CASE MountError(h) /\ UNCHANGED mounts
    BY <1>t, <2>1, <2>3, <2>5, ReplyUndisturbed DEF MountError
  <2>6. CASE BindMount(h) /\ Push(arg[h], IF Shows(Vol(arg[h])) = "root" THEN "volume" ELSE "disk")
             /\ SourceVisible(Vol(arg[h])) /\ Reply(h, "yes")
    <3>1. Vol(arg[h]) = VolOf[arg[h]] /\ VolOf[arg[h]] \in Volumes /\ VolOf[arg[h]] \in Paths
      BY <2>1, PathFacts
    <3>2. ~Removing(VolOf[arg[h]])
      BY <2>1, <2>6, <3>1, Alone, PathFacts DEF Removing, Busy, BindMount
    <3>3. Shows(VolOf[arg[h]]) = "root"
      BY <2>1, <3>1, <3>2 DEF SerialInv, Proper, Shows
    <3>4. VolOf[arg[h]] \in made
      BY <2>6, <3>1, <3>3 DEF SourceVisible
    <3>5. mounts' = [mounts EXCEPT ![arg[h]] = <<"volume">>]
      BY <2>1, <2>6, <3>1, <3>3 DEF Push
    <3>6. Harmless(arg[h], <<"volume">>)
      BY <2>2, <3>4, <3>5 DEF Harmless
    <3> QED BY <2>1, <2>6, <3>6, ReplyUndisturbed
  <2> QED BY <1>2, <2>4, <2>5, <2>6 DEF NodePublishVolume, BindStat, BindMkdir, BindMount, Binding
<1>3. ASSUME NEW h \in Handlers, Unmounting(h) PROVE UndisturbedInv'
  <2>1. pc[h] # "idle" /\ arg[h] \in Paths /\ Busy(arg[h]) /\ waiting[Vol(arg[h])] = h
    BY <1>3, Alone DEF Unmounting, UnmountStat, UnmountDone, UnmountFails, DeleteDir
  <2>2. mounts[arg[h]] \in {<<>>, Proper(arg[h])}
    BY <2>1 DEF SerialInv
  <2>3. UNCHANGED <<online, written, share, mounts>> => Harmless(arg[h], mounts[arg[h]])
    BY <1>e, <1>m DEF Harmless, share
  <2>4. CASE UnmountStat(h)
    <3>1. ~Visible(arg[h]) => mounts[arg[h]] = <<>>
      <4>1. mounts[arg[h]] # <<>> => arg[h] \in dirs /\ online
        BY <2>1 DEF MountedDirs, UndisturbedInv
      <4>2. mounts[arg[h]] # <<>> /\ arg[h] \in Pods => Vol(arg[h]) \in made
        BY <1>m, PathFacts
      <4>3. arg[h] \in Volumes => Shows(arg[h]) # "volume"
        BY <2>2 DEF Proper, Shows
      <4> QED BY <2>1, <4>1, <4>2, <4>3 DEF Visible, Paths
    <3>2. UNCHANGED <<online, written, share, mounts>>
      BY <2>4 DEF UnmountStat, share, others
    <3> QED BY <2>1, <2>3, <2>4, <3>1, <3>2, GoToUndisturbed DEF UnmountStat, Calls
  <2>5. CASE UnmountDone(h)
    <3>1. Tail(<<"root">>) = <<>> /\ Tail(<<"volume">>) = <<>>
      OBVIOUS
    <3>2. Tail(mounts[arg[h]]) = <<>>
      BY <2>2, <2>5, <3>1 DEF UnmountDone, Proper
    <3>3. Harmless(arg[h], <<>>)
      BY <2>5, <3>2 DEF UnmountDone, Pop, Harmless, share, others
    <3> QED BY <2>1, <2>5, <3>3, GoToUndisturbed DEF UnmountDone, Calls
  <2>6. CASE UnmountFails(h)
    <3>1. UNCHANGED <<online, written, share, mounts>>
      BY <2>6 DEF UnmountFails, share, others
    <3> QED BY <2>1, <2>3, <2>6, <3>1, ReplyUndisturbed DEF UnmountFails, UnmountError
  <2>7. CASE DeleteDir(h)
    <3>1. mounts[arg[h]] = <<>>
      BY <2>1, <2>7 DEF DeleteDir, UndisturbedInv, Removing
    <3>2. Harmless(arg[h], <<>>)
      BY <1>e, <2>7, <3>1 DEF DeleteDir, RemoveAll, Shows, Harmless, others
    <3> QED BY <2>1, <2>7, <3>2, ReplyUndisturbed DEF DeleteDir
  <2> QED BY <1>3, <2>4, <2>5, <2>6, <2>7 DEF Unmounting
<1>4. ASSUME NEW p \in Paths, Kubelet(p) PROVE UndisturbedInv'
  <2>1. ASSUME NEW first \in {"mkdir", "bindstat", "stat"}, Call(p, first),
               view[p] = "no" => mounts[p] = <<>>
        PROVE  UndisturbedInv'
    <3>1. PICK h \in Handlers : /\ pc[h] = "idle"
                                /\ pc' = [pc EXCEPT ![h] = first]
                                /\ arg' = [arg EXCEPT ![h] = p]
                                /\ waiting' = [waiting EXCEPT ![Vol(p)] = h]
      BY <2>1 DEF Call
    <3>2. /\ UNCHANGED <<mounts, view, made, data, written, online>>
          /\ waiting[Vol(p)] = None /\ Vol(p) \in Volumes
      BY <2>1, PathFacts DEF Call, others, share
    <3>3. /\ pc'[h] = first /\ arg'[h] = p /\ waiting'[Vol(p)] = h
          /\ \A g \in Handlers \ {h} : pc'[g] = pc[g] /\ arg'[g] = arg[g]
          /\ \A v \in Volumes \ {Vol(p)} : waiting'[v] = waiting[v]
      BY <3>1, <3>2 DEF TypeOK
    <3>4. ASSUME NEW q \in Paths PROVE (Busy(q) => Busy(q)') /\ (Removing(q)' => Removing(q))
      <4>1. CASE Vol(q) = Vol(p)
        BY <3>2, <3>3, <4>1 DEF Busy, Removing, Vol
      <4>2. CASE Vol(q) # Vol(p)
        <5>1. Vol(q) \in Volumes
          BY PathFacts
        <5>2. /\ waiting'[Vol(q)] = waiting[Vol(q)] /\ waiting[Vol(q)] # h
              /\ waiting[Vol(q)] # None => waiting[Vol(q)] \in Handlers \ {h}
          BY <3>1, <3>3, <4>2, <5>1 DEF Dispatched, TypeOK
        <5> QED BY <3>3, <5>2 DEF Busy, Removing, Vol
      <4> QED BY <4>1, <4>2
    <3> QED BY <3>2, <3>4 DEF UndisturbedInv
  <2>2. CASE CallMount(p)
    BY <2>1, <2>2 DEF CallMount
  <2>3. CASE CallUnmount(p)
    BY <2>1, <2>3 DEF CallUnmount, Unneeded
  <2>4. CASE Adopt(p)
    <3>1. /\ UNCHANGED <<mounts, rpc, made, data, written, online>>
          /\ \A q \in Paths : view'[q] = "no" => view[q] = "no"
      BY <2>4 DEF Adopt, others, share, TypeOK
    <3> QED BY <3>1 DEF UndisturbedInv, Removing, Busy, rpc, Vol
  <2> QED BY <1>4, <2>2, <2>3, <2>4 DEF Kubelet
<1>5. ASSUME NEW q \in Pods, PodAdded(q) \/ PodDeleted(q) PROVE UndisturbedInv'
  BY <1>5 DEF PodAdded, PodDeleted, rpc, share, UndisturbedInv, Removing, Busy, Vol
<1>6. ASSUME NEW q \in Pods, PodWrites(q) PROVE UndisturbedInv'
  <2>1. q \in Paths /\ q \notin Volumes
    BY PathFacts
  <2>2. ~Removing(q)
    <3>1. SUFFICES ASSUME Removing(q) PROVE FALSE
      OBVIOUS
    <3>2. waiting[Vol(q)] \in Handlers /\ arg[waiting[Vol(q)]] = q /\ pc[waiting[Vol(q)]] = "remove"
      BY <2>1, <3>1, PathFacts DEF Removing, Busy, TypeOK
    <3> QED BY <1>6, <3>2 DEF SerialInv, Purpose, Removal, PodWrites
  <2>3. Shows(q) = "volume"
    BY <1>6, <2>1, <2>2 DEF PodWrites, SerialInv, Proper, Shows
  <2>4. written' \subseteq data'
    BY <1>6, <2>3 DEF PodWrites, UndisturbedInv
  <2> QED BY <1>6, <2>4 DEF PodWrites, rpc, UndisturbedInv, Removing, Busy, Vol
<1>7. CASE Crash
  <2>1. \A p \in Paths : view'[p] = "no" => view[p] = "no" /\ ~Busy(p)
    <3>1. \A p \in Paths : Vol(p) \in Volumes
      BY PathFacts
    <3> QED BY <1>7, <3>1 DEF Crash, Uncertain, Busy
  <2>2. \A p \in Paths : ~Removing(p)'
    <3>1. \A p \in Paths : Vol(p)' \in Volumes
      BY PathFacts DEF Vol
    <3> QED BY <1>7, <3>1 DEF Crash, Removing, Busy
  <2> QED BY <1>7, <2>1, <2>2 DEF Crash, share, UndisturbedInv
<1>8. CASE ServerReturns
  BY <1>8 DEF ServerReturns, UndisturbedInv
<1>9. CASE UNCHANGED vars
  BY <1>9 DEF vars, rpc, share, others, UndisturbedInv, Removing, Busy, Vol
<1> QED
  BY <1>0, <1>1, <1>2, <1>3, <1>4, <1>5, <1>6, <1>7, <1>8, <1>9
  DEF Next, Handler, NodeUnpublishVolume, NodeUnstageVolume

LEMMA InvStep == IInv /\ [Next]_vars => IInv'
<1> SUFFICES ASSUME IInv, [Next]_vars PROVE IInv'
  OBVIOUS
<1>1. TypeOK /\ Dispatched /\ TypeOK' /\ Dispatched'
  BY TypeStep DEF IInv
<1>2. MountedDirs'
  BY MountedDirsStep DEF IInv
<1>3. Serial' => SerialInv'
  BY <1>1, SerialBackwards, SerialStep DEF IInv
<1>4. Undisturbed' => UndisturbedInv'
  BY <1>1, UndisturbedBackwards, UndisturbedStep DEF IInv, Undisturbed
<1> QED BY <1>1, <1>2, <1>3, <1>4 DEF IInv

LEMMA Inductive == Spec => []IInv
  BY InvInit, InvStep, PTL DEF Spec

(* Although each staging path leads to the files of every volume, no file  *)
(* that a pod has written is removed by what the handlers delete, with any *)
(* number of volumes, pods and handlers and whatever crashes, until a call *)
(* overlaps another one of its volume or the server is unreachable.        *)
THEOREM NoFileLost == Spec => []Durable
<1>1. IInv => Durable
  BY DEF IInv, Durable, UndisturbedInv
<1> QED BY <1>1, Inductive, PTL

(* Under the same condition the kubelet never forgets a mount, of a volume *)
(* or of a pod, after any sequence of failed calls and crashes.            *)
THEOREM NoMountForgotten == Spec => []ReleasedClean
<1>1. IInv => ReleasedClean
  BY DEF IInv, ReleasedClean, UndisturbedInv
<1> QED BY <1>1, Inductive, PTL

(* Even with outages, a pod that runs sees the directory of its own volume *)
(* and never the root of the share, as long as no call overlaps another    *)
(* one of the same volume.                                                 *)
THEOREM PodsSeeTheirVolume == Spec => []PublishedShowsVolume
<1>1. IInv => PublishedShowsVolume
  <2> SUFFICES ASSUME TypeOK, Dispatched, SerialInv, NEW q \in Pods, pod[q] = "wanted",
                      view[q] = "yes"
               PROVE  Shows(q) = "volume"
    BY DEF IInv, PublishedShowsVolume
  <2>1. q \in Paths /\ q \notin Volumes /\ Vol(q) \in Volumes
    BY PathFacts
  <2>2. ~Removing(q)
    <3>1. SUFFICES ASSUME Removing(q) PROVE FALSE
      OBVIOUS
    <3>2. waiting[Vol(q)] \in Handlers /\ arg[waiting[Vol(q)]] = q /\ pc[waiting[Vol(q)]] = "remove"
      BY <2>1, <3>1 DEF Removing, Busy, TypeOK
    <3> QED BY <3>2 DEF SerialInv, Purpose, Removal
  <2>3. mounts[q] = <<"volume">>
    BY <2>1, <2>2 DEF SerialInv, Proper
  <2> QED BY <2>3 DEF Shows
<1> QED BY <1>1, Inductive, PTL

=============================================================================
