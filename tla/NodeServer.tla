----------------------------- MODULE NodeServer -----------------------------
(***************************************************************************)
(* The node half of smb-csi/driver (node.go over mounter.go) for one       *)
(* volume on one node: the RPC handlers NodeStageVolume, NodePublishVolume,*)
(* NodeUnpublishVolume and NodeUnstageVolume, one step per system call,    *)
(* run by gRPC goroutines that interleave.                                 *)
(*                                                                         *)
(* The kubelet, the kernel's mount table and the SMB server are outside    *)
(* src/ and are modelled from how the handlers use them: the kubelet runs  *)
(* one operation of a volume at a time, skips a path that is a mount point *)
(* already, retries after an error, and after a timeout does not know what *)
(* the handler it gave up on still does.                                   *)
(***************************************************************************)
EXTENDS Naturals, Sequences, FiniteSets

CONSTANTS
  Pods,         \* pods of the node that use the volume; a pod stands for its target path
  Staging,      \* the volume's staging path
  Handlers,     \* gRPC goroutines
  Files,        \* files that pods write
  None,         \* no handler
  MaxTimeouts,  \* calls the kubelet gives up on while their handler runs
  MaxOutages,   \* times the SMB server becomes unreachable
  MaxCrashes    \* times the driver process dies and is restarted

ASSUME NodeAssumption ==
  /\ Staging \notin Pods
  /\ None \notin Handlers
  /\ {MaxTimeouts, MaxOutages, MaxCrashes} \subseteq Nat

VARIABLES
  dirs,      \* mount-point directories that exist on the node's own disk
  mounts,    \* what is mounted on each path, newest first
  pc,        \* next system call of each handler
  arg,       \* path the handler works on
  waiting,   \* handler whose reply the kubelet waits for
  view,      \* whether the kubelet takes a path for mounted
  pod,       \* life cycle of each pod
  data,      \* files in the volume's directory on the share
  written,   \* files whose write by a pod succeeded
  online,    \* whether the SMB server answers
  faults     \* timeouts, outages and crashes so far

vars == <<dirs, mounts, pc, arg, waiting, view, pod, data, written, online, faults>>

kernel  == <<dirs, mounts>>
rpc     == <<pc, arg, waiting>>
storage == <<data, written, online>>

Paths   == Pods \union {Staging}
Sources == {"share", "disk"}
Calls   == {"mkdir", "mount", "bindstat", "bindmkdir", "bind", "stat", "umount", "remove"}

TypeOK ==
  /\ dirs \subseteq Paths
  /\ mounts \in [Paths -> Seq(Sources)]
  /\ pc \in [Handlers -> Calls \union {"idle"}]
  /\ arg \in [Handlers -> Paths]
  /\ waiting \in Handlers \union {None}
  /\ view \in [Paths -> {"no", "maybe", "yes"}]
  /\ pod \in [Pods -> {"new", "wanted", "deleted"}]
  /\ data \subseteq Files
  /\ written \subseteq Files
  /\ online \in BOOLEAN
  /\ faults \in [timeouts : Nat, outages : Nat, crashes : Nat]

Init ==
  /\ dirs = {}
  /\ mounts = [p \in Paths |-> <<>>]
  /\ pc = [h \in Handlers |-> "idle"]
  /\ arg = [h \in Handlers |-> Staging]
  /\ waiting = None
  /\ view = [p \in Paths |-> "no"]
  /\ pod = [q \in Pods |-> "new"]
  /\ data = {}
  /\ written = {}
  /\ online = TRUE
  /\ faults = [timeouts |-> 0, outages |-> 0, crashes |-> 0]

-----------------------------------------------------------------------------
(* The kernel's view of a path. *)

(* The file system a path shows: the newest mount, or the node's own disk. *)
Shows(p) == IF mounts[p] = <<>> THEN "disk" ELSE Head(mounts[p])

(* os.Stat succeeds: the path is there and its file system answers. *)
Visible(p) == p \in dirs /\ (Shows(p) = "share" => online)

(* os.MkdirAll: an existing path must be visible, a missing one is created. *)
MkdirAll(p) == (p \in dirs => Visible(p)) /\ dirs' = dirs \union {p}

(* Faulty variant: the mount table records the path, not its file system. *)
PushPath(p, source) == mounts' = [mounts EXCEPT ![p] = <<p>> \o @]

(* unix.Mount and unix.Unmount on success. *)
Push(p, source) == mounts' = [mounts EXCEPT ![p] = <<source>> \o @]
Pop(p)          == mounts' = [mounts EXCEPT ![p] = Tail(@)]

(* Faulty variant: the directory on the server is deleted as well, what    *)
(* the comment at node.go:71 wonders about.                                *)
RemoveAllRemote(p) ==
  /\ data' = IF online THEN {} ELSE data
  /\ dirs' = IF mounts[p] = <<>> THEN dirs \ {p} ELSE dirs

(* os.RemoveAll: everything below the path is removed, then the directory. *)
(* If a volume is mounted there, its files are below the path, and the     *)
(* directory itself is busy.                                               *)
RemoveAll(p) ==
  /\ data' = IF Shows(p) = "share" /\ online THEN {} ELSE data
  /\ dirs' = IF mounts[p] = <<>> THEN dirs \ {p} ELSE dirs

-----------------------------------------------------------------------------
(* Handler control. *)

(* The handler continues with another system call. *)
GoTo(h, call) == pc' = [pc EXCEPT ![h] = call] /\ UNCHANGED <<arg, waiting, view>>

(* The handler returns; the kubelet learns of it if it still waits. *)
Reply(h, seen) ==
  /\ pc' = [pc EXCEPT ![h] = "idle"]
  /\ waiting' = IF waiting = h THEN None ELSE waiting
  /\ view' = IF waiting = h THEN [view EXCEPT ![arg[h]] = seen] ELSE view
  /\ UNCHANGED arg

(* An error of a mounting call leaves the kubelet's view alone; after an   *)
(* error of an unmounting call it is uncertain.                            *)
MountError(h)   == Reply(h, view[arg[h]])
(* Faulty variant: an error of unmount(2) is logged and success returned. *)
UnmountErrorHidden(h) == Reply(h, "no")

UnmountError(h) == Reply(h, "maybe")

others == <<pod, written, online, faults>>

(* NodeStageVolume up to Mount's MkdirAll; it returns an error when the    *)
(* volume context lacks server or share, or the directory is not created.  *)
StageMkdir(h) ==
  /\ pc[h] = "mkdir"
  /\ \/ MkdirAll(Staging) /\ GoTo(h, "mount")
     \/ MountError(h) /\ UNCHANGED dirs
  /\ UNCHANGED <<mounts, data, others>>

(* Faulty variant: the error of the cifs mount is not returned. *)
StageMountUnchecked(h) ==
  /\ pc[h] = "mount"
  /\ \/ /\ Staging \in dirs /\ mounts[Staging] = <<>> /\ online
        /\ Push(Staging, "share")
     \/ UNCHANGED mounts
  /\ Reply(h, "yes")
  /\ UNCHANGED <<dirs, data, others>>

(* The cifs mount. The kernel refuses the same file system on the same     *)
(* mount point; a failed mount leaves the directory where it is.           *)
StageMount(h) ==
  /\ pc[h] = "mount"
  /\ \/ /\ Staging \in dirs /\ mounts[Staging] = <<>> /\ online
        /\ Push(Staging, "share")
        /\ Reply(h, "yes")
     \/ MountError(h) /\ UNCHANGED mounts
  /\ UNCHANGED <<dirs, data, others>>

NodeStageVolume(h) == StageMkdir(h) \/ StageMount(h)

(* BindMount looks at its source first. *)
BindStat(h) ==
  /\ pc[h] = "bindstat"
  /\ IF Visible(Staging) THEN GoTo(h, "bindmkdir") ELSE MountError(h)
  /\ UNCHANGED <<kernel, data, others>>

BindMkdir(h) ==
  /\ pc[h] = "bindmkdir"
  /\ \/ MkdirAll(arg[h]) /\ GoTo(h, "bind")
     \/ MountError(h) /\ UNCHANGED dirs
  /\ UNCHANGED <<mounts, data, others>>

(* The bind mount stacks on whatever the target shows; when it fails, the  *)
(* target is removed with everything below it.                             *)
BindMount(h) ==
  /\ pc[h] = "bind"
  /\ \/ /\ {Staging, arg[h]} \subseteq dirs
        /\ Push(arg[h], Shows(Staging))
        /\ Reply(h, "yes")
        /\ UNCHANGED <<dirs, data>>
     \/ MountError(h) /\ RemoveAll(arg[h]) /\ UNCHANGED mounts
  /\ UNCHANGED others

NodePublishVolume(h) == BindStat(h) \/ BindMkdir(h) \/ BindMount(h)

(* Faulty variant: a path that is gone is an error. *)
UnmountStatStrict(h) ==
  /\ pc[h] = "stat"
  /\ IF Visible(arg[h]) THEN GoTo(h, "umount") ELSE UnmountError(h)
  /\ UNCHANGED <<kernel, data, others>>

(* Unmount takes any error of Stat for "there is nothing to unmount". *)
UnmountStat(h) ==
  /\ pc[h] = "stat"
  /\ GoTo(h, IF Visible(arg[h]) THEN "umount" ELSE "remove")
  /\ UNCHANGED <<kernel, data, others>>

(* Unmount removes the newest mount. *)
UnmountDone(h) ==
  /\ pc[h] = "umount"
  /\ mounts[arg[h]] # <<>>
  /\ Pop(arg[h])
  /\ GoTo(h, "remove")
  /\ UNCHANGED <<dirs, data, others>>

(* Faulty variant: the directory is deleted although unmounting failed. *)
UnmountFailsIgnored(h) ==
  /\ pc[h] = "umount"
  /\ GoTo(h, "remove")
  /\ UNCHANGED <<kernel, data, others>>

(* It fails when nothing is mounted (EINVAL) or a file is open (EBUSY). *)
UnmountFails(h) ==
  /\ pc[h] = "umount"
  /\ UnmountError(h)
  /\ UNCHANGED <<kernel, data, others>>

(* Faulty variant: the directory is left. *)
DeleteDirSkipped(h) ==
  /\ pc[h] = "remove"
  /\ Reply(h, "no")
  /\ UNCHANGED <<dirs, data, mounts, others>>

(* DeleteDir, whose error the handlers ignore. *)
DeleteDir(h) ==
  /\ pc[h] = "remove"
  /\ RemoveAll(arg[h])
  /\ Reply(h, "no")
  /\ UNCHANGED <<mounts, others>>

(* NodeUnpublishVolume and NodeUnstageVolume are the same three calls, on  *)
(* the target path and on the staging path.                                *)
Unmounting(h) == UnmountStat(h) \/ UnmountDone(h) \/ UnmountFails(h) \/ DeleteDir(h)
NodeUnpublishVolume(h) == arg[h] \in Pods /\ Unmounting(h)
NodeUnstageVolume(h)   == arg[h] = Staging /\ Unmounting(h)

Handler(h) ==
  \/ NodeStageVolume(h)
  \/ NodePublishVolume(h)
  \/ NodeUnpublishVolume(h)
  \/ NodeUnstageVolume(h)

-----------------------------------------------------------------------------
(* The kubelet. *)

PodAdded(q) ==
  /\ pod[q] = "new"
  /\ pod' = [pod EXCEPT ![q] = "wanted"]
  /\ UNCHANGED <<kernel, rpc, view, storage, faults>>

PodDeleted(q) ==
  /\ pod[q] = "wanted"
  /\ pod' = [pod EXCEPT ![q] = "deleted"]
  /\ UNCHANGED <<kernel, rpc, view, storage, faults>>

(* A running pod writes through its target path. *)
PodWrites(q, f) ==
  /\ pod[q] = "wanted" /\ view[q] = "yes"
  /\ Shows(q) = "share" => online
  /\ written' = written \union {f}
  /\ data' = IF Shows(q) = "share" THEN data \union {f} ELSE data
  /\ UNCHANGED <<kernel, rpc, view, pod, online, faults>>

(* A call starts on a free goroutine. *)
Call(p, first) ==
  /\ waiting = None
  /\ \E h \in Handlers :
       /\ pc[h] = "idle"
       /\ pc' = [pc EXCEPT ![h] = first]
       /\ arg' = [arg EXCEPT ![h] = p]
       /\ waiting' = h
  /\ UNCHANGED <<kernel, view, pod, storage, faults>>

Wanted == {q \in Pods : pod[q] = "wanted"}

(* The volume is needed at p and not known to be there. *)
Missing(p) ==
  /\ view[p] # "yes"
  /\ IF p = Staging THEN Wanted # {} ELSE pod[p] = "wanted" /\ view[Staging] = "yes"

(* The volume may still be at p and is not needed there. *)
Unneeded(p) ==
  /\ view[p] # "no"
  /\ IF p = Staging THEN Wanted = {} /\ \A q \in Pods : view[q] = "no"
                    ELSE pod[p] = "deleted"

CallMount(p) ==
  /\ Missing(p) /\ mounts[p] = <<>>
  /\ Call(p, IF p = Staging THEN "mkdir" ELSE "bindstat")

CallUnmount(p) == Unneeded(p) /\ Call(p, "stat")

(* The kubelet finds p mounted already and does not call the driver. *)
Adopt(p) ==
  /\ waiting = None
  /\ Missing(p) /\ mounts[p] # <<>>
  /\ view' = [view EXCEPT ![p] = "yes"]
  /\ UNCHANGED <<kernel, rpc, pod, storage, faults>>

Kubelet(p) == CallMount(p) \/ CallUnmount(p) \/ Adopt(p)

-----------------------------------------------------------------------------
(* Faults. *)

Uncertain == IF waiting = None THEN view ELSE [view EXCEPT ![arg[waiting]] = "maybe"]

(* The kubelet's deadline passes; the handler it waited for runs on. *)
Timeout ==
  /\ waiting # None /\ faults.timeouts < MaxTimeouts
  /\ faults' = [faults EXCEPT !.timeouts = @ + 1]
  /\ waiting' = None
  /\ view' = Uncertain
  /\ UNCHANGED <<kernel, pc, arg, pod, storage>>

(* The driver dies with its handlers; mounts and directories are the       *)
(* node's and stay.                                                        *)
Crash ==
  /\ faults.crashes < MaxCrashes
  /\ faults' = [faults EXCEPT !.crashes = @ + 1]
  /\ pc' = [h \in Handlers |-> "idle"]
  /\ waiting' = None
  /\ view' = Uncertain
  /\ UNCHANGED <<kernel, arg, pod, storage>>

ServerFails ==
  /\ online /\ faults.outages < MaxOutages
  /\ faults' = [faults EXCEPT !.outages = @ + 1]
  /\ online' = FALSE
  /\ UNCHANGED <<kernel, rpc, view, pod, data, written>>

ServerReturns ==
  /\ ~online
  /\ online' = TRUE
  /\ UNCHANGED <<kernel, rpc, view, pod, data, written, faults>>

-----------------------------------------------------------------------------

Next ==
  \/ \E h \in Handlers : Handler(h)
  \/ \E p \in Paths : Kubelet(p)
  \/ \E q \in Pods : PodAdded(q) \/ PodDeleted(q) \/ \E f \in Files : PodWrites(q, f)
  \/ Timeout \/ Crash \/ ServerFails \/ ServerReturns

Spec == Init /\ [][Next]_vars

(* A goroutine is scheduled again and again, the kubelet's reconciler      *)
(* keeps calling, unmounting first in every round, and an open file does   *)
(* not keep a volume busy for ever.                                        *)
Fairness ==
  /\ \A h \in Handlers : WF_vars(Handler(h))
  /\ \A p \in Paths : WF_vars(Kubelet(p)) /\ SF_vars(CallUnmount(p))
  /\ SF_vars(\E h \in Handlers : UnmountDone(h))

FairSpec == Spec /\ Fairness

-----------------------------------------------------------------------------
(* Properties. *)

(* As long as no call has overlapped another one and the server has been   *)
(* reachable, crashes of the driver apart. The handlers promise nothing    *)
(* more: a handler that outlives its call acts on a path that a newer call *)
(* has changed, and Unmount takes an unreachable share for an unmounted one.*)
Serial      == faults.timeouts = 0
Undisturbed == Serial /\ faults.outages = 0

(* The kubelet waits for a call on p. *)
Busy(p) == waiting # None /\ arg[waiting] = p

(* Every file whose write succeeded is on the share: no handler removes    *)
(* files through a path that still shows the volume, and no pod is given   *)
(* the node's own disk in its place.                                       *)
Durable == Undisturbed => written \subseteq data

(* A path the kubelet takes for unmounted, and on which no call is under   *)
(* way, has no mount left on it, across crashes and retries.               *)
ReleasedClean ==
  Undisturbed =>
    \A p \in Paths :
      view[p] = "no" /\ ~Busy(p) => mounts[p] = <<>>

(* The target of every pod that runs shows the share, even when the server *)
(* comes and goes between the calls.                                       *)
PublishedShowsShare ==
  Serial => \A q \in Wanted : view[q] = "yes" => Shows(q) = "share"

(* As long as the driver does not die: if it does between Unmount and      *)
(* DeleteDir, the retry fails with EINVAL for ever.                        *)
Alive == faults.crashes = 0

(* Every deleted pod is eventually acknowledged as cleaned up, although    *)
(* late handlers of earlier calls still mount and unmount at its path and  *)
(* the server comes and goes.                                              *)
TeardownAcknowledged ==
  []Alive => \A q \in Pods : pod[q] = "deleted" ~> view[q] = "no"

(* Without late handlers and outages, nothing is left at the target path   *)
(* of a deleted pod in the end.                                            *)
TeardownCompletes ==
  [](Undisturbed /\ Alive) =>
    \A q \in Pods :
      pod[q] = "deleted" ~> view[q] = "no" /\ mounts[q] = <<>> /\ q \notin dirs

(* Nor does the volume stay mounted when the last pod is gone. *)
VolumeReleased ==
  [](Undisturbed /\ Alive) =>
    ((\A q \in Pods : pod[q] = "deleted") ~> view[Staging] = "no" /\ mounts[Staging] = <<>>)

(* What makes them inductive. *)

Removing(p) == Busy(p) /\ pc[waiting] = "remove"

(* The step a handler is at says what its caller wanted and left behind.   *)
Purpose(h) ==
  /\ pc[h] \in {"mkdir", "mount"} => arg[h] = Staging
  /\ pc[h] \in {"bindstat", "bindmkdir", "bind"} => arg[h] \in Pods /\ view[Staging] = "yes"
  /\ pc[h] \in {"mkdir", "mount", "bindstat", "bindmkdir", "bind"} => mounts[arg[h]] = <<>>
  /\ pc[h] \in {"stat", "umount", "remove"} /\ arg[h] \in Pods => pod[arg[h]] = "deleted"

(* A directory with something mounted on it cannot be removed. *)
MountedDirs == \A p \in Paths : mounts[p] # <<>> => p \in dirs

(* Only the handler the kubelet waits for runs, and mounts do not stack.   *)
SerialInv ==
  /\ \A h \in Handlers : h # waiting => pc[h] = "idle"
  /\ waiting # None => Purpose(waiting)
  /\ \A p \in Paths : mounts[p] \in {<<>>, <<"share">>}
  /\ \A p \in Paths : view[p] = "yes" /\ ~Removing(p) => mounts[p] = <<"share">>

UndisturbedInv ==
  /\ online
  /\ \A p \in Paths : Removing(p) => mounts[p] = <<>>
  /\ \A p \in Paths : view[p] = "no" /\ ~Busy(p) => mounts[p] = <<>>
  /\ written \subseteq data

IInv ==
  /\ TypeOK
  /\ MountedDirs
  /\ Serial => SerialInv
  /\ Undisturbed => UndisturbedInv

(* What BindMount's comment says of a failed bind mount: "else try to      *)
(* remove the created mounting-point directory and return error". Removing *)
(* a directory that was created takes no file of the volume with it.       *)
FailedBindKeepsFiles ==
  [][\A h \in Handlers :
       pc[h] = "bind" /\ pc'[h] = "idle" /\ mounts' = mounts => data \subseteq data']_vars

(* The promise to the pods: until a call overlaps another one or the       *)
(* server fails, the volume's files only accumulate, and only by pods that *)
(* hold the volume.                                                        *)
Access == INSTANCE VolumeAccess WITH
            users     <- {q \in Pods : view[q] = "yes"},
            stored    <- data,
            disturbed <- ~Undisturbed

AccessSpec == Access!Spec

=============================================================================
