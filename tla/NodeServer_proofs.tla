-------------------------- MODULE NodeServer_proofs --------------------------
(***************************************************************************)
(* Proofs about NodeServer: its type invariant, and the three safety       *)
(* invariants the runs check, from one inductive invariant.                *)
(***************************************************************************)
EXTENDS NodeServer, TLAPS

(* The types of NodeServer hold in every behaviour of the specification,   *)
(* with every interleaving of handlers, timeouts, outages and crashes.     *)
LEMMA TypeInit == Init => TypeOK
  BY NodeAssumption DEF Init, TypeOK, Paths

LEMMA StackTypes ==
  ASSUME NEW p \in Paths, NEW s \in Sources, mounts \in [Paths -> Seq(Sources)]
  PROVE  /\ Push(p, s) => mounts' \in [Paths -> Seq(Sources)]
         /\ mounts[p] # <<>> /\ Pop(p) => mounts' \in [Paths -> Seq(Sources)]
         /\ Shows(p) \in Sources
<1>1. mounts[p] \in Seq(Sources) /\ <<s>> \in Seq(Sources)
  OBVIOUS
<1>2. <<s>> \o mounts[p] \in Seq(Sources)
  BY <1>1
<1>3. mounts[p] # <<>> => Tail(mounts[p]) \in Seq(Sources) /\ Head(mounts[p]) \in Sources
  BY <1>1
<1> QED BY <1>2, <1>3 DEF Push, Pop, Shows, Sources

RpcTypes ==
  /\ pc \in [Handlers -> Calls \union {"idle"}]
  /\ arg \in [Handlers -> Paths]
  /\ waiting \in Handlers \union {None}
  /\ view \in [Paths -> {"no", "maybe", "yes"}]

LEMMA ControlTypes ==
  ASSUME RpcTypes, NEW h \in Handlers
  PROVE  /\ \A call \in Calls : GoTo(h, call) => RpcTypes'
         /\ \A seen \in {"no", "maybe", "yes"} : Reply(h, seen) => RpcTypes'
         /\ MountError(h) => RpcTypes'
         /\ UnmountError(h) => RpcTypes'
<1>1. ASSUME NEW call \in Calls, GoTo(h, call) PROVE RpcTypes'
  BY <1>1 DEF GoTo, RpcTypes
<1>2. ASSUME NEW seen \in {"no", "maybe", "yes"}, Reply(h, seen) PROVE RpcTypes'
  <2>1. arg[h] \in Paths
    BY DEF RpcTypes
  <2>2. pc' \in [Handlers -> Calls \union {"idle"}]
    BY <1>2 DEF Reply, RpcTypes
  <2>3. view' \in [Paths -> {"no", "maybe", "yes"}]
    BY <1>2, <2>1 DEF Reply, RpcTypes
  <2> QED BY <1>2, <2>2, <2>3 DEF Reply, RpcTypes
<1>3. view[arg[h]] \in {"no", "maybe", "yes"}
  BY DEF RpcTypes
<1> QED BY <1>1, <1>2, <1>3 DEF MountError, UnmountError

LEMMA UncertainTypes == TypeOK => Uncertain \in [Paths -> {"no", "maybe", "yes"}]
  BY DEF Uncertain, TypeOK

LEMMA TypeStep == TypeOK /\ [Next]_vars => TypeOK'
<1> SUFFICES ASSUME TypeOK, [Next]_vars PROVE TypeOK'
  OBVIOUS
<1> USE NodeAssumption
<1> RpcTypes /\ Staging \in Paths
  BY DEF TypeOK, RpcTypes, Paths
<1>0. ASSUME RpcTypes', UNCHANGED others, dirs' \subseteq Paths, data' \subseteq Files,
             mounts' \in [Paths -> Seq(Sources)]
      PROVE  TypeOK'
  BY <1>0 DEF TypeOK, RpcTypes, others
<1>1. ASSUME NEW h \in Handlers, NodeStageVolume(h) PROVE TypeOK'
  <2>1. RpcTypes'
    BY <1>1, ControlTypes DEF NodeStageVolume, StageMkdir, StageMount, Reply, Calls
  <2>2. mounts' \in [Paths -> Seq(Sources)]
    BY <1>1, StackTypes DEF NodeStageVolume, StageMkdir, StageMount, TypeOK, Sources
  <2> QED BY <1>0, <1>1, <2>1, <2>2
          DEF NodeStageVolume, StageMkdir, StageMount, MkdirAll, others, TypeOK
<1>2. ASSUME NEW h \in Handlers, NodePublishVolume(h) PROVE TypeOK'
  <2>1. RpcTypes'
    BY <1>2, ControlTypes DEF NodePublishVolume, BindStat, BindMkdir, BindMount, Calls
  <2>2. arg[h] \in Paths
    BY DEF RpcTypes
  <2>3. mounts' \in [Paths -> Seq(Sources)]
    <3>1. Shows(Staging) \in Sources
      BY StackTypes DEF TypeOK, Sources
    <3>2. Push(arg[h], Shows(Staging)) => mounts' \in [Paths -> Seq(Sources)]
      BY <2>2, <3>1, StackTypes DEF TypeOK
    <3> QED BY <1>2, <3>2 DEF NodePublishVolume, BindStat, BindMkdir, BindMount, kernel, TypeOK
  <2> QED BY <1>0, <1>2, <2>1, <2>2, <2>3
          DEF NodePublishVolume, BindStat, BindMkdir, BindMount, MkdirAll, RemoveAll,
              kernel, others, TypeOK
<1>3. ASSUME NEW h \in Handlers, Unmounting(h) PROVE TypeOK'
  <2>1. RpcTypes'
    BY <1>3, ControlTypes
    DEF Unmounting, UnmountStat, UnmountDone, UnmountFails, DeleteDir, Calls
  <2>2. arg[h] \in Paths
    BY DEF RpcTypes
  <2>3. mounts' \in [Paths -> Seq(Sources)]
    BY <1>3, <2>2, StackTypes
    DEF Unmounting, UnmountStat, UnmountDone, UnmountFails, DeleteDir, kernel, TypeOK, Sources
  <2> QED BY <1>0, <1>3, <2>1, <2>3
          DEF Unmounting, UnmountStat, UnmountDone, UnmountFails, DeleteDir, RemoveAll,
              kernel, others, TypeOK
<1>4. ASSUME NEW p \in Paths, Kubelet(p) PROVE TypeOK'
  <2>1. ASSUME NEW first \in Calls, Call(p, first) PROVE TypeOK'
    BY <2>1 DEF Call, kernel, storage, TypeOK
  <2>2. CASE Adopt(p)
    BY <2>2 DEF Adopt, kernel, rpc, storage, TypeOK
  <2> QED BY <1>4, <2>1, <2>2 DEF Kubelet, CallMount, CallUnmount, Calls
<1>5. ASSUME NEW q \in Pods, PodAdded(q) \/ PodDeleted(q) PROVE TypeOK'
  BY <1>5 DEF PodAdded, PodDeleted, kernel, rpc, storage, TypeOK
<1>6. ASSUME NEW q \in Pods, NEW f \in Files, PodWrites(q, f) PROVE TypeOK'
  BY <1>6 DEF PodWrites, kernel, rpc, TypeOK
<1>7. CASE Timeout \/ Crash
  <2>1. faults' \in [timeouts : Nat, outages : Nat, crashes : Nat]
    <3>1. faults \in [timeouts : Nat, outages : Nat, crashes : Nat]
      BY DEF TypeOK
    <3>2. CASE Timeout  BY <3>1, <3>2 DEF Timeout
    <3>3. CASE Crash    BY <3>1, <3>3 DEF Crash
    <3> QED BY <1>7, <3>2, <3>3
  <2> QED BY <1>7, <2>1, UncertainTypes DEF Timeout, Crash, kernel, storage, TypeOK
<1>8. CASE ServerFails \/ ServerReturns
  <2>1. faults' \in [timeouts : Nat, outages : Nat, crashes : Nat]
    BY <1>8 DEF ServerFails, ServerReturns, TypeOK
  <2> QED BY <1>8, <2>1 DEF ServerFails, ServerReturns, kernel, rpc, TypeOK
<1>9. CASE UNCHANGED vars
  BY <1>9 DEF vars, TypeOK
<1> QED
  BY <1>1, <1>2, <1>3, <1>4, <1>5, <1>6, <1>7, <1>8, <1>9
  DEF Next, Handler, NodeUnpublishVolume, NodeUnstageVolume

(* Every behaviour keeps the type invariant of the node server. *)
THEOREM TypeCorrect == Spec => []TypeOK
  BY TypeInit, TypeStep, PTL DEF Spec

-----------------------------------------------------------------------------

LEMMA InvInit == Init => IInv
<1> SUFFICES ASSUME Init PROVE IInv
  OBVIOUS
<1>1. TypeOK /\ MountedDirs
  BY TypeInit DEF Init, MountedDirs
<1>2. SerialInv
  BY NodeAssumption DEF Init, SerialInv, Removing, Busy
<1>3. UndisturbedInv
  BY NodeAssumption DEF Init, UndisturbedInv, Removing, Busy
<1> QED BY <1>1, <1>2, <1>3 DEF IInv

(* A mount stays above a directory, because a busy directory is not removed. *)
LEMMA MountedDirsStep == TypeOK /\ MountedDirs /\ [Next]_vars => MountedDirs'
<1> SUFFICES ASSUME TypeOK, MountedDirs, [Next]_vars, NEW p \in Paths, mounts'[p] # <<>>
             PROVE  p \in dirs'
  BY DEF MountedDirs
<1>1. mounts[p] # <<>> => p \in dirs
  BY DEF MountedDirs
<1>2. mounts \in [Paths -> Seq(Sources)] /\ arg \in [Handlers -> Paths] /\ Staging \in Paths
  BY DEF TypeOK, Paths
<1>3. ASSUME NEW h \in Handlers, NodeStageVolume(h) PROVE p \in dirs'
  BY <1>1, <1>2, <1>3 DEF NodeStageVolume, StageMkdir, StageMount, MkdirAll, Push
<1>4. ASSUME NEW h \in Handlers, NodePublishVolume(h) PROVE p \in dirs'
  BY <1>1, <1>2, <1>4
  DEF NodePublishVolume, BindStat, BindMkdir, BindMount, MkdirAll, Push, RemoveAll, kernel
<1>5. ASSUME NEW h \in Handlers, Unmounting(h) PROVE p \in dirs'
  BY <1>1, <1>2, <1>5
  DEF Unmounting, UnmountStat, UnmountDone, UnmountFails, DeleteDir, Pop, RemoveAll, kernel
<1>6. ASSUME UNCHANGED kernel PROVE p \in dirs'
  BY <1>1, <1>6 DEF kernel
<1>7. ASSUME NEW q \in Paths, Kubelet(q) PROVE UNCHANGED kernel
  BY <1>7 DEF Kubelet, CallMount, CallUnmount, Call, Adopt
<1>8. ASSUME NEW q \in Pods, PodAdded(q) \/ PodDeleted(q) \/ \E f \in Files : PodWrites(q, f)
      PROVE  UNCHANGED kernel
  BY <1>8 DEF PodAdded, PodDeleted, PodWrites
<1>9. CASE Timeout \/ Crash \/ ServerFails \/ ServerReturns
  BY <1>6, <1>9 DEF Timeout, Crash, ServerFails, ServerReturns
<1>10. CASE UNCHANGED vars
  BY <1>6, <1>10 DEF vars, kernel
<1> QED
  BY <1>3, <1>4, <1>5, <1>6, <1>7, <1>8, <1>9, <1>10
  DEF Next, Handler, NodeUnpublishVolume, NodeUnstageVolume

LEMMA SerialBackwards == TypeOK /\ [Next]_vars /\ Serial' => Serial /\ ~Timeout
<1> SUFFICES ASSUME TypeOK, [Next]_vars, Serial' PROVE Serial /\ ~Timeout
  OBVIOUS
<1>1. ~Timeout
  BY DEF Timeout, Serial, TypeOK
<1>2. faults'.timeouts = faults.timeouts
  BY <1>1 DEF Next, Handler, NodeStageVolume, StageMkdir, StageMount, NodePublishVolume,
    BindStat, BindMkdir, BindMount, NodeUnpublishVolume, NodeUnstageVolume, Unmounting,
    UnmountStat, UnmountDone, UnmountFails, DeleteDir, Kubelet, CallMount, CallUnmount,
    Call, Adopt, PodAdded, PodDeleted, PodWrites, Crash, ServerFails, ServerReturns,
    others, storage, vars, TypeOK
<1> QED BY <1>1, <1>2 DEF Serial

(* While no call overlaps another one, only the awaited handler runs, it   *)
(* finds the paths as its caller left them, and mounts do not stack.       *)
LEMMA SerialStep ==
  TypeOK /\ SerialInv /\ Serial' /\ [Next]_vars => SerialInv'
<1> SUFFICES ASSUME TypeOK, SerialInv, Serial', [Next]_vars PROVE SerialInv'
  OBVIOUS
<1> USE NodeAssumption
<1>0. ~Timeout
  BY SerialBackwards
<1>t. /\ pc \in [Handlers -> Calls \union {"idle"}]
      /\ arg \in [Handlers -> Paths]
      /\ waiting \in Handlers \union {None}
      /\ view \in [Paths -> {"no", "maybe", "yes"}]
      /\ mounts \in [Paths -> Seq(Sources)]
      /\ pod \in [Pods -> {"new", "wanted", "deleted"}]
      /\ Staging \in Paths
      /\ Pods \subseteq Paths
  BY DEF TypeOK, Paths
<1>w. \A h \in Handlers : pc[h] # "idle" => h = waiting /\ waiting # None /\ Purpose(h)
  BY DEF SerialInv
<1>1. ASSUME NEW h \in Handlers, NodeStageVolume(h) PROVE SerialInv'
  <2>1. h = waiting /\ Purpose(h) /\ arg[h] = Staging /\ mounts[Staging] = <<>>
    BY <1>1, <1>w DEF NodeStageVolume, StageMkdir, StageMount, Purpose
  <2>2. CASE StageMkdir(h) /\ GoTo(h, "mount")
    BY <2>1, <2>2, <1>t DEF StageMkdir, GoTo, others, SerialInv, Purpose, Removing, Busy
  <2>3. CASE MountError(h) /\ UNCHANGED mounts
    BY <2>1, <2>3, <1>t, <1>1 DEF MountError, Reply, others, SerialInv, Removing, Busy,
       NodeStageVolume, StageMkdir, StageMount
  <2>4. CASE StageMount(h) /\ Push(Staging, "share") /\ Reply(h, "yes")
    BY <2>1, <2>4, <1>t DEF StageMount, Push, Reply, others, SerialInv, Removing, Busy
  <2> QED BY <1>1, <2>2, <2>3, <2>4 DEF NodeStageVolume, StageMkdir, StageMount
<1>2. ASSUME NEW h \in Handlers, NodePublishVolume(h) PROVE SerialInv'
  <2>1. /\ h = waiting /\ Purpose(h) /\ arg[h] \in Pods /\ mounts[arg[h]] = <<>>
        /\ view[Staging] = "yes"
    BY <1>2, <1>w DEF NodePublishVolume, BindStat, BindMkdir, BindMount, Purpose
  <2>2. Shows(Staging) = "share"
    <3>1. mounts[Staging] = <<"share">>
      BY <1>t, <2>1 DEF SerialInv, Removing, Busy
    <3> QED BY <3>1 DEF Shows
  <2>3. CASE BindStat(h) /\ GoTo(h, "bindmkdir")
    BY <2>1, <2>3, <1>t DEF BindStat, GoTo, kernel, others, SerialInv, Purpose, Removing, Busy
  <2>4. CASE BindMkdir(h) /\ GoTo(h, "bind")
    BY <2>1, <2>4, <1>t DEF BindMkdir, GoTo, others, SerialInv, Purpose, Removing, Busy
  <2>5. CASE MountError(h) /\ UNCHANGED mounts
    BY <2>1, <2>5, <1>t, <1>2 DEF MountError, Reply, others, SerialInv, Removing, Busy,
       NodePublishVolume, BindStat, BindMkdir, BindMount
  <2>6. CASE BindMount(h) /\ Push(arg[h], Shows(Staging)) /\ Reply(h, "yes")
    BY <2>1, <2>2, <2>6, <1>t DEF BindMount, Push, Reply, others, SerialInv, Removing, Busy
  <2> QED BY <1>2, <2>3, <2>4, <2>5, <2>6
          DEF NodePublishVolume, BindStat, BindMkdir, BindMount, kernel
<1>3. ASSUME NEW h \in Handlers, Unmounting(h) PROVE SerialInv'
  <2>1. h = waiting /\ Purpose(h) /\ (arg[h] \in Pods => pod[arg[h]] = "deleted")
    BY <1>3, <1>w DEF Unmounting, UnmountStat, UnmountDone, UnmountFails, DeleteDir, Purpose
  <2>2. CASE UnmountStat(h)
    BY <2>1, <2>2, <1>t
    DEF UnmountStat, GoTo, kernel, others, SerialInv, Purpose, Removing, Busy
  <2>3. CASE UnmountDone(h)
    <3>1. mounts[arg[h]] = <<"share">>
      BY <2>3, <1>t DEF UnmountDone, SerialInv
    <3>2. mounts' = [mounts EXCEPT ![arg[h]] = <<>>]
      BY <2>3, <3>1 DEF UnmountDone, Pop
    <3> QED BY <2>1, <2>3, <3>2, <1>t
            DEF UnmountDone, GoTo, others, SerialInv, Purpose, Removing, Busy
  <2>4. CASE UnmountFails(h)
    BY <2>1, <2>4, <1>t
    DEF UnmountFails, UnmountError, Reply, kernel, others, SerialInv, Removing, Busy
  <2>5. CASE DeleteDir(h)
    BY <2>1, <2>5, <1>t DEF DeleteDir, Reply, others, SerialInv, Removing, Busy
  <2> QED BY <1>3, <2>2, <2>3, <2>4, <2>5 DEF Unmounting
<1>4. ASSUME NEW p \in Paths, Kubelet(p) PROVE SerialInv'
  <2>1. CASE CallMount(p)
    BY <2>1, <1>t DEF CallMount, Call, Missing, Wanted, kernel, storage, SerialInv, Purpose,
       Removing, Busy, Paths
  <2>2. CASE CallUnmount(p)
    BY <2>2, <1>t DEF CallUnmount, Call, Unneeded, kernel, storage, SerialInv, Purpose,
       Removing, Busy
  <2>3. CASE Adopt(p)
    BY <2>3, <1>t DEF Adopt, kernel, rpc, storage, SerialInv, Purpose, Removing, Busy
  <2> QED BY <1>4, <2>1, <2>2, <2>3 DEF Kubelet
<1>5. ASSUME NEW q \in Pods, PodAdded(q) \/ PodDeleted(q) PROVE SerialInv'
  BY <1>5, <1>t
  DEF PodAdded, PodDeleted, kernel, rpc, storage, SerialInv, Purpose, Removing, Busy
<1>6. ASSUME NEW q \in Pods, NEW f \in Files, PodWrites(q, f) PROVE SerialInv'
  BY <1>6 DEF PodWrites, kernel, rpc, SerialInv, Purpose, Removing, Busy
<1>7. CASE Crash
  BY <1>7, <1>t DEF Crash, Uncertain, kernel, storage, SerialInv, Removing, Busy
<1>8. CASE ServerFails \/ ServerReturns
  BY <1>8 DEF ServerFails, ServerReturns, kernel, rpc, SerialInv, Purpose, Removing, Busy
<1>9. CASE UNCHANGED vars
  BY <1>9 DEF vars, SerialInv, Purpose, Removing, Busy
<1> QED
  BY <1>0, <1>1, <1>2, <1>3, <1>4, <1>5, <1>6, <1>7, <1>8, <1>9
  DEF Next, Handler, NodeUnpublishVolume, NodeUnstageVolume

LEMMA UndisturbedBackwards ==
  TypeOK /\ [Next]_vars /\ Undisturbed' =>
    Undisturbed /\ Serial' /\ ~Timeout /\ ~ServerFails
<1> SUFFICES ASSUME TypeOK, [Next]_vars, Undisturbed'
             PROVE  Undisturbed /\ Serial' /\ ~Timeout /\ ~ServerFails
  OBVIOUS
<1>1. Serial' /\ Serial /\ ~Timeout
  BY SerialBackwards DEF Undisturbed
<1>2. ~ServerFails
  BY DEF ServerFails, Undisturbed, TypeOK
<1>3. faults'.outages = faults.outages
  BY <1>1, <1>2 DEF Next, Handler, NodeStageVolume, StageMkdir, StageMount,
    NodePublishVolume, BindStat, BindMkdir, BindMount, NodeUnpublishVolume,
    NodeUnstageVolume, Unmounting, UnmountStat, UnmountDone, UnmountFails, DeleteDir,
    Kubelet, CallMount, CallUnmount, Call, Adopt, PodAdded, PodDeleted, PodWrites, Crash,
    ServerReturns, others, storage, vars, TypeOK
<1> QED BY <1>1, <1>2, <1>3 DEF Undisturbed

(* With the server reachable as well, a path is removed only when nothing  *)
(* is mounted on it any more, so no file goes and no mount is forgotten.   *)
LEMMA UndisturbedStep ==
  TypeOK /\ MountedDirs /\ SerialInv /\ UndisturbedInv /\ Undisturbed' /\ [Next]_vars
    => UndisturbedInv'
<1> SUFFICES ASSUME TypeOK, MountedDirs, SerialInv, UndisturbedInv, Undisturbed', [Next]_vars
             PROVE  UndisturbedInv'
  OBVIOUS
<1> USE NodeAssumption
<1>0. ~Timeout /\ ~ServerFails
  BY UndisturbedBackwards
<1>t. /\ pc \in [Handlers -> Calls \union {"idle"}]
      /\ arg \in [Handlers -> Paths]
      /\ waiting \in Handlers \union {None}
      /\ view \in [Paths -> {"no", "maybe", "yes"}]
      /\ mounts \in [Paths -> Seq(Sources)]
      /\ Staging \in Paths
      /\ Pods \subseteq Paths
  BY DEF TypeOK, Paths
<1>w. \A h \in Handlers : pc[h] # "idle" => h = waiting /\ waiting # None /\ Purpose(h)
  BY DEF SerialInv
<1>1. ASSUME NEW h \in Handlers, NodeStageVolume(h) PROVE UndisturbedInv'
  <2>1. h = waiting /\ arg[h] = Staging /\ mounts[Staging] = <<>>
    BY <1>1, <1>w DEF NodeStageVolume, StageMkdir, StageMount, Purpose
  <2>2. CASE StageMkdir(h) /\ GoTo(h, "mount")
    BY <2>1, <2>2, <1>t DEF StageMkdir, GoTo, others, UndisturbedInv, Removing, Busy
  <2>3. CASE MountError(h) /\ UNCHANGED mounts
    BY <2>1, <2>3, <1>t, <1>1 DEF MountError, Reply, others, UndisturbedInv, Removing, Busy,
       NodeStageVolume, StageMkdir, StageMount
  <2>4. CASE StageMount(h) /\ Push(Staging, "share") /\ Reply(h, "yes")
    BY <2>1, <2>4, <1>t DEF StageMount, Push, Reply, others, UndisturbedInv, Removing, Busy
  <2> QED BY <1>1, <2>2, <2>3, <2>4 DEF NodeStageVolume, StageMkdir, StageMount
<1>2. ASSUME NEW h \in Handlers, NodePublishVolume(h) PROVE UndisturbedInv'
  <2>1. h = waiting /\ arg[h] \in Pods /\ mounts[arg[h]] = <<>>
    BY <1>2, <1>w DEF NodePublishVolume, BindStat, BindMkdir, BindMount, Purpose
  <2>2. data' = data
    BY <1>2, <2>1 DEF NodePublishVolume, BindStat, BindMkdir, BindMount, RemoveAll, Shows
  <2>3. CASE (BindStat(h) \/ BindMkdir(h)) /\ \E call \in {"bindmkdir", "bind"} : GoTo(h, call)
    BY <2>1, <2>3, <1>t
    DEF BindStat, BindMkdir, GoTo, kernel, others, UndisturbedInv, Removing, Busy
  <2>4. CASE MountError(h) /\ UNCHANGED mounts
    BY <2>1, <2>2, <2>4, <1>t, <1>2 DEF MountError, Reply, others, UndisturbedInv, Removing,
       Busy, NodePublishVolume, BindStat, BindMkdir, BindMount
  <2>5. CASE BindMount(h) /\ Push(arg[h], Shows(Staging)) /\ Reply(h, "yes")
    BY <2>1, <2>2, <2>5, <1>t DEF BindMount, Push, Reply, others, UndisturbedInv, Removing, Busy
  <2> QED BY <1>2, <2>3, <2>4, <2>5
          DEF NodePublishVolume, BindStat, BindMkdir, BindMount, kernel
<1>3. ASSUME NEW h \in Handlers, Unmounting(h) PROVE UndisturbedInv'
  <2>1. h = waiting
    BY <1>3, <1>w DEF Unmounting, UnmountStat, UnmountDone, UnmountFails, DeleteDir
  <2>2. CASE UnmountStat(h)
    <3>1. ~Visible(arg[h]) => mounts[arg[h]] = <<>>
      BY <1>t DEF Visible, MountedDirs, UndisturbedInv
    <3> QED BY <2>1, <2>2, <3>1, <1>t
            DEF UnmountStat, GoTo, kernel, others, UndisturbedInv, Removing, Busy
  <2>3. CASE UnmountDone(h)
    <3>1. mounts[arg[h]] = <<"share">>
      BY <2>3, <1>t DEF UnmountDone, SerialInv
    <3>2. mounts' = [mounts EXCEPT ![arg[h]] = <<>>]
      BY <2>3, <3>1 DEF UnmountDone, Pop
    <3> QED BY <2>1, <2>3, <3>2, <1>t
            DEF UnmountDone, GoTo, others, UndisturbedInv, Removing, Busy
  <2>4. CASE UnmountFails(h)
    BY <2>1, <2>4, <1>t
    DEF UnmountFails, UnmountError, Reply, kernel, others, UndisturbedInv, Removing, Busy
  <2>5. CASE DeleteDir(h)
    <3>1. mounts[arg[h]] = <<>>
      BY <2>1, <2>5, <1>t, <1>w DEF DeleteDir, UndisturbedInv, Removing, Busy
    <3>2. data' = data
      BY <2>5, <3>1 DEF DeleteDir, RemoveAll, Shows
    <3> QED BY <2>1, <2>5, <3>1, <3>2, <1>t
            DEF DeleteDir, Reply, others, UndisturbedInv, Removing, Busy
  <2> QED BY <1>3, <2>2, <2>3, <2>4, <2>5 DEF Unmounting
<1>4. ASSUME NEW p \in Paths, Kubelet(p) PROVE UndisturbedInv'
  <2>1. ASSUME NEW first \in {"mkdir", "bindstat", "stat"}, Call(p, first),
               view[p] = "no" => mounts[p] = <<>>
        PROVE  UndisturbedInv'
    BY <2>1, <1>t DEF Call, kernel, storage, UndisturbedInv, Removing, Busy
  <2>2. CASE CallMount(p)
    BY <2>1, <2>2 DEF CallMount
  <2>3. CASE CallUnmount(p)
    BY <2>1, <2>3 DEF CallUnmount, Unneeded
  <2>4. CASE Adopt(p)
    BY <2>4, <1>t DEF Adopt, kernel, rpc, storage, UndisturbedInv, Removing, Busy
  <2> QED BY <1>4, <2>2, <2>3, <2>4 DEF Kubelet
<1>5. ASSUME NEW q \in Pods, PodAdded(q) \/ PodDeleted(q) PROVE UndisturbedInv'
  BY <1>5 DEF PodAdded, PodDeleted, kernel, rpc, storage, UndisturbedInv, Removing, Busy
<1>6. ASSUME NEW q \in Pods, NEW f \in Files, PodWrites(q, f) PROVE UndisturbedInv'
  <2>1. ~Removing(q)
    BY <1>6, <1>t, <1>w DEF PodWrites, SerialInv, Purpose, Removing, Busy
  <2>2. mounts[q] = <<"share">>
    BY <1>6, <2>1, <1>t DEF PodWrites, SerialInv
  <2>3. Shows(q) = "share"
    BY <2>2 DEF Shows
  <2> QED BY <1>6, <2>3 DEF PodWrites, kernel, rpc, UndisturbedInv, Removing, Busy
<1>7. CASE Crash
  BY <1>7, <1>t DEF Crash, Uncertain, kernel, storage, UndisturbedInv, Removing, Busy
<1>8. CASE ServerReturns
  BY <1>8 DEF ServerReturns, kernel, rpc, UndisturbedInv, Removing, Busy
<1>9. CASE UNCHANGED vars
  BY <1>9 DEF vars, UndisturbedInv, Removing, Busy
<1> QED
  BY <1>0, <1>1, <1>2, <1>3, <1>4, <1>5, <1>6, <1>7, <1>8, <1>9
  DEF Next, Handler, NodeUnpublishVolume, NodeUnstageVolume

LEMMA InvStep == IInv /\ [Next]_vars => IInv'
<1> SUFFICES ASSUME IInv, [Next]_vars PROVE IInv'
  OBVIOUS
<1>1. TypeOK /\ TypeOK'
  BY TypeStep DEF IInv
<1>2. MountedDirs'
  BY MountedDirsStep DEF IInv
<1>3. Serial' => SerialInv'
  BY <1>1, SerialBackwards, SerialStep DEF IInv
<1>4. Undisturbed' => UndisturbedInv'
  BY <1>1, UndisturbedBackwards, UndisturbedStep DEF IInv, Undisturbed
<1> QED BY <1>1, <1>2, <1>3, <1>4 DEF IInv

LEMMA Inductive == Spec => []IInv
  BY InvInit, InvStep, PTL DEF Spec

(* Until a call overlaps another one or the server is unreachable, no      *)
(* handler removes a file of the volume and no acknowledged write goes     *)
(* anywhere else: the calls stat, umount and remove of the unmounting      *)
(* handlers and the clean-up of BindMount act on an empty directory only.  *)
THEOREM NoFileLost == Spec => []Durable
<1>1. IInv => Durable
  BY DEF IInv, Durable, UndisturbedInv
<1> QED BY <1>1, Inductive, PTL

(* Under the same condition the kubelet never forgets a mount: a path it   *)
(* takes for unmounted has none, whatever crashed or failed before.        *)
THEOREM NoMountForgotten == Spec => []ReleasedClean
<1>1. IInv => ReleasedClean
  BY DEF IInv, ReleasedClean, UndisturbedInv
<1> QED BY <1>1, Inductive, PTL

LEMMA PodsShowShare == IInv => PublishedShowsShare
<1> SUFFICES ASSUME TypeOK, SerialInv, NEW q \in Wanted, view[q] = "yes"
             PROVE  Shows(q) = "share"
  BY DEF IInv, PublishedShowsShare
<1>1. q \in Pods /\ q \in Paths /\ pod[q] = "wanted"
  BY DEF Wanted, Paths
<1>2. ~Removing(q)
  BY <1>1 DEF SerialInv, Purpose, Removing, Busy
<1>3. mounts[q] = <<"share">>
  BY <1>1, <1>2 DEF SerialInv
<1> QED BY <1>3 DEF Shows

(* Even with outages, a pod that runs sees the share at its target path,   *)
(* never the node's own disk, as long as no call overlaps another one.     *)
THEOREM PodsSeeTheShare == Spec => []PublishedShowsShare
  BY PodsShowShare, Inductive, PTL

-----------------------------------------------------------------------------
(* Refinement: what a handler's reply does to the kubelet's view is the    *)
(* grant or the loss of the volume.                                        *)

Users == {q \in Pods : view[q] = "yes"}

LEMMA ReplyMaps ==
  ASSUME TypeOK, NEW h \in Handlers, NEW seen \in {"no", "maybe", "yes"}, Reply(h, seen),
         data' = data, faults' = faults
  PROVE  [Access!Next]_(Access!vars)
<1>1. arg[h] \in Paths /\ view \in [Paths -> {"no", "maybe", "yes"}] /\ Pods \subseteq Paths
  BY DEF TypeOK, Paths
<1>2. Undisturbed' = Undisturbed
  BY DEF Undisturbed, Serial
<1>3. CASE waiting # h \/ arg[h] \notin Pods
  BY <1>1, <1>2, <1>3 DEF Reply, Access!vars
<1>4. CASE waiting = h /\ arg[h] \in Pods /\ seen = "yes"
  <2>1. Users' = Users \union {arg[h]}
    BY <1>1, <1>4 DEF Reply, Users
  <2> QED BY <1>2, <1>4, <2>1 DEF Users, Access!Next, Access!Grant
<1>5. CASE waiting = h /\ arg[h] \in Pods /\ seen # "yes"
  <2>1. Users' = Users \ {arg[h]}
    BY <1>1, <1>5 DEF Reply, Users
  <2> QED BY <1>2, <1>5, <2>1 DEF Users, Access!Next, Access!Revoke
<1> QED BY <1>3, <1>4, <1>5

(* A reply that follows the removal of a directory. *)
LEMMA RemovalMaps ==
  ASSUME TypeOK, NEW h \in Handlers, NEW seen \in {"no", view[arg[h]]}, Reply(h, seen),
         RemoveAll(arg[h]), faults' = faults, Undisturbed => data' = data
  PROVE  [Access!Next]_(Access!vars)
<1>1. arg[h] \in Paths /\ view \in [Paths -> {"no", "maybe", "yes"}] /\ Pods \subseteq Paths
  BY DEF TypeOK, Paths
<1>2. CASE Undisturbed
  BY <1>1, <1>2, ReplyMaps
<1>3. CASE ~Undisturbed
  <2>1. Users' \subseteq Users
    BY <1>1 DEF Reply, Users
  <2>2. data' \subseteq data
    BY DEF RemoveAll
  <2>3. ~Undisturbed'
    BY <1>3 DEF Undisturbed, Serial
  <2> QED BY <2>1, <2>2, <2>3 DEF Users, Access!Next, Access!Disturb
<1> QED BY <1>2, <1>3

LEMMA UncertainLoses ==
  ASSUME TypeOK, view' = Uncertain
  PROVE  Users' \in {Users, Users \ {arg[waiting]}}
<1>1. view \in [Paths -> {"no", "maybe", "yes"}] /\ Pods \subseteq Paths
  BY DEF TypeOK, Paths
<1>2. CASE waiting = None \/ arg[waiting] \notin Pods
  BY <1>1, <1>2 DEF Uncertain, Users
<1>3. CASE waiting # None /\ arg[waiting] \in Pods
  BY <1>1, <1>3 DEF Uncertain, Users
<1> QED BY <1>2, <1>3

LEMMA StepMaps == IInv /\ [Next]_vars => [Access!Next]_(Access!vars)
<1> SUFFICES ASSUME IInv, [Next]_vars PROVE [Access!Next]_(Access!vars)
  OBVIOUS
<1>i. TypeOK /\ (Undisturbed => SerialInv /\ UndisturbedInv)
  BY DEF IInv, Undisturbed
<1>w. Undisturbed =>
        \A h \in Handlers : pc[h] # "idle" => h = waiting /\ waiting # None /\ Purpose(h)
  BY <1>i, NodeAssumption DEF SerialInv
<1>v. \A p \in Paths : view[p] \in {"no", "maybe", "yes"}
  BY <1>i DEF TypeOK
<1>a. \A h \in Handlers : arg[h] \in Paths
  BY <1>i DEF TypeOK
<1>1. ASSUME UNCHANGED <<view, data, faults>> PROVE [Access!Next]_(Access!vars)
  <2>1. Undisturbed' = Undisturbed
    BY <1>1 DEF Undisturbed, Serial
  <2> QED BY <1>1, <2>1 DEF Access!vars
<1>2. ASSUME NEW h \in Handlers, MountError(h), UNCHANGED <<data, faults>>
      PROVE  [Access!Next]_(Access!vars)
  BY <1>2, <1>i, <1>a, <1>v, ReplyMaps DEF MountError
<1>3. ASSUME NEW h \in Handlers, NodeStageVolume(h) PROVE [Access!Next]_(Access!vars)
  BY <1>1, <1>2, <1>3, <1>i, ReplyMaps
  DEF NodeStageVolume, StageMkdir, StageMount, GoTo, others
<1>4. ASSUME NEW h \in Handlers, NodePublishVolume(h) PROVE [Access!Next]_(Access!vars)
  <2>1. CASE BindStat(h) \/ BindMkdir(h)
    BY <1>1, <1>2, <2>1 DEF BindStat, BindMkdir, GoTo, others
  <2>2. CASE BindMount(h) /\ Reply(h, "yes") /\ data' = data
    BY <2>2, <1>i, ReplyMaps DEF BindMount, others
  <2>3. CASE BindMount(h) /\ MountError(h) /\ RemoveAll(arg[h])
    <3>1. Undisturbed => mounts[arg[h]] = <<>>
      BY <2>3, <1>w DEF BindMount, Purpose
    <3>2. Undisturbed => data' = data
      BY <2>3, <3>1 DEF RemoveAll, Shows
    <3> QED BY <2>3, <3>2, <1>i, RemovalMaps DEF BindMount, MountError, others
  <2> QED BY <1>4, <2>1, <2>2, <2>3 DEF NodePublishVolume, BindMount
<1>5. ASSUME NEW h \in Handlers, Unmounting(h) PROVE [Access!Next]_(Access!vars)
  <2>1. CASE DeleteDir(h)
    <3>1. Undisturbed => mounts[arg[h]] = <<>>
      BY <2>1, <1>a, <1>i, <1>w DEF DeleteDir, UndisturbedInv, Removing, Busy
    <3>2. Undisturbed => data' = data
      BY <2>1, <3>1 DEF DeleteDir, RemoveAll, Shows
    <3> QED BY <2>1, <3>2, <1>i, RemovalMaps DEF DeleteDir, others
  <2>2. CASE UnmountFails(h)
    BY <2>2, <1>i, ReplyMaps DEF UnmountFails, UnmountError, others
  <2>3. CASE UnmountStat(h) \/ UnmountDone(h)
    BY <2>3, <1>1 DEF UnmountStat, UnmountDone, GoTo, others
  <2> QED BY <1>5, <2>1, <2>2, <2>3 DEF Unmounting
<1>6. ASSUME NEW p \in Paths, Kubelet(p) PROVE [Access!Next]_(Access!vars)
  <2>1. CASE CallMount(p) \/ CallUnmount(p)
    BY <2>1, <1>1 DEF CallMount, CallUnmount, Call, storage
  <2>2. CASE Adopt(p) /\ p \in Pods
    <3>1. Users' = Users \union {p}
      BY <2>2, <1>i DEF Adopt, Users, TypeOK, Paths
    <3>2. Undisturbed' = Undisturbed
      BY <2>2 DEF Adopt, Undisturbed, Serial
    <3> QED BY <2>2, <3>1, <3>2 DEF Adopt, storage, Users, Access!Next, Access!Grant
  <2>3. CASE Adopt(p) /\ p \notin Pods
    <3>1. Users' = Users /\ data' = data
      BY <2>3, <1>i DEF Adopt, storage, Users, TypeOK, Paths
    <3>2. Undisturbed' = Undisturbed
      BY <2>3 DEF Adopt, Undisturbed, Serial
    <3> QED BY <3>1, <3>2 DEF Users, Access!vars
  <2> QED BY <1>6, <2>1, <2>2, <2>3 DEF Kubelet
<1>7. ASSUME NEW q \in Pods, PodAdded(q) \/ PodDeleted(q) PROVE [Access!Next]_(Access!vars)
  BY <1>7, <1>1 DEF PodAdded, PodDeleted, storage
<1>8. ASSUME NEW q \in Pods, NEW f \in Files, PodWrites(q, f)
      PROVE  [Access!Next]_(Access!vars)
  <2>1. CASE Shows(q) = "share"
    <3>1. Undisturbed' = Undisturbed
      BY <1>8 DEF PodWrites, Undisturbed, Serial
    <3> QED BY <1>8, <2>1, <3>1 DEF PodWrites, Access!Next, Access!Store
  <2>2. CASE Shows(q) # "share"
    BY <1>8, <2>2, <1>1 DEF PodWrites
  <2> QED BY <2>1, <2>2
<1>9. CASE Crash
  <2>1. Undisturbed' = Undisturbed
    BY <1>9, <1>i DEF Crash, Undisturbed, Serial, TypeOK
  <2>2. Users' \in {Users, Users \ {arg[waiting]}} /\ data' = data
    BY <1>9, <1>i, UncertainLoses DEF Crash, storage
  <2>3. CASE Users' = Users
    BY <2>1, <2>2, <2>3 DEF Users, Access!vars
  <2>4. CASE Users' = Users \ {arg[waiting]} /\ arg[waiting] \in Pods
    BY <2>1, <2>2, <2>4 DEF Users, Access!Next, Access!Revoke
  <2> QED BY <2>2, <2>3, <2>4 DEF Users
<1>10. CASE Timeout
  <2>1. ~Undisturbed'
    BY <1>10, <1>i DEF Timeout, Undisturbed, Serial, TypeOK
  <2>2. Users' \subseteq Users /\ data' = data
    BY <1>10, <1>i, UncertainLoses DEF Timeout, storage
  <2> QED BY <2>1, <2>2 DEF Users, Access!Next, Access!Disturb
<1>11. CASE ServerFails
  <2>1. ~Undisturbed'
    BY <1>11, <1>i DEF ServerFails, Undisturbed, Serial, TypeOK
  <2>2. Users' = Users /\ data' = data
    BY <1>11 DEF ServerFails, Users
  <2> QED BY <2>1, <2>2 DEF Users, Access!Next, Access!Disturb
<1>12. CASE ServerReturns
  BY <1>12, <1>1 DEF ServerReturns
<1>13. CASE UNCHANGED vars
  BY <1>13, <1>1 DEF vars
<1> QED
  BY <1>3, <1>4, <1>5, <1>6, <1>7, <1>8, <1>9, <1>10, <1>11, <1>12, <1>13
  DEF Next, Handler, NodeUnpublishVolume, NodeUnstageVolume

(* The driver and the kubelet together, crashing as often as they like,    *)
(* implement the promise to the pods: files only accumulate in the volume, *)
(* until a call overlaps another one or the server fails.                  *)
THEOREM ImplementsAccess == Spec => AccessSpec
<1>1. Init => Access!Init
  <2> SUFFICES ASSUME Init PROVE Access!Init
    OBVIOUS
  <2>1. \A q \in Pods : view[q] = "no"
    BY DEF Init, Paths
  <2>2. Undisturbed
    BY DEF Init, Undisturbed, Serial
  <2> QED BY <2>1, <2>2 DEF Init, Access!Init
<1> QED BY <1>1, StepMaps, Inductive, PTL DEF Spec, AccessSpec, Access!Spec

=============================================================================
