----------------------------- MODULE SimpleNode -----------------------------
(***************************************************************************)
(* The node half of smb-csi/driver_simple (node.go over mounter.go) for    *)
(* several volumes of one share on one node. Unlike smb-csi/driver it      *)
(* mounts the whole share on every volume's staging path, makes the        *)
(* volume's directory in it there, and binds that directory to the pods'   *)
(* targets: each staging path leads to the files of every volume.          *)
(*                                                                         *)
(* The kubelet, the kernel's mount table and the SMB server are modelled   *)
(* as in NodeServer; calls for different volumes run at the same time.     *)
(***************************************************************************)
EXTENDS Naturals, Sequences

CONSTANTS
  Volumes,      \* a volume stands for its staging path, too
  Pods,         \* a pod stands for its target path
  VolOf,        \* the volume each pod uses
  Handlers,     \* gRPC goroutines
  None,         \* no handler
  MaxTimeouts,  \* calls the kubelet gives up on while their handler runs
  MaxOutages,   \* times the SMB server becomes unreachable
  MaxCrashes    \* times the driver process dies and is restarted

ASSUME SimpleAssumption ==
  /\ Volumes \intersect Pods = {}
  /\ VolOf \in [Pods -> Volumes]
  /\ None \notin Handlers
  /\ {MaxTimeouts, MaxOutages, MaxCrashes} \subseteq Nat

VARIABLES
  dirs,     \* mount-point directories on the node's own disk
  sub,      \* staging paths whose volume directory was made on the node's own disk
  mounts,   \* what is mounted on each path, newest first
  pc,       \* next system call of each handler
  arg,      \* path the handler works on
  waiting,  \* handler whose reply the kubelet waits for, for each volume
  view,     \* whether the kubelet takes a path for mounted
  pod,      \* life cycle of each pod
  made,     \* volumes whose directory is on the share
  data,     \* volumes whose files are on the share
  written,  \* volumes some pod has written files to with success
  online,   \* whether the SMB server answers
  faults    \* timeouts, outages and crashes so far

disk    == <<dirs, sub>>
rpc     == <<pc, arg, waiting>>
share   == <<made, data>>
others  == <<pod, written, online, faults>>
vars    == <<disk, mounts, rpc, view, share, others>>

Paths   == Volumes \union Pods
Sources == {"root", "volume", "disk"}
Calls   == {"mkdir", "mount", "subdir", "bindstat", "bindmkdir", "bind",
            "stat", "umount", "remove"}

TypeOK ==
  /\ dirs \subseteq Paths /\ sub \subseteq Volumes
  /\ mounts \in [Paths -> Seq(Sources)]
  /\ pc \in [Handlers -> Calls \union {"idle"}]
  /\ arg \in [Handlers -> Paths \union {None}]
  /\ waiting \in [Volumes -> Handlers \union {None}]
  /\ view \in [Paths -> {"no", "maybe", "yes"}]
  /\ pod \in [Pods -> {"new", "wanted", "deleted"}]
  /\ made \subseteq Volumes /\ data \subseteq Volumes /\ written \subseteq Volumes
  /\ online \in BOOLEAN
  /\ faults \in [timeouts : Nat, outages : Nat, crashes : Nat]

Init ==
  /\ dirs = {} /\ sub = {}
  /\ mounts = [p \in Paths |-> <<>>]
  /\ pc = [h \in Handlers |-> "idle"]
  /\ arg = [h \in Handlers |-> None]
  /\ waiting = [v \in Volumes |-> None]
  /\ view = [p \in Paths |-> "no"]
  /\ pod = [q \in Pods |-> "new"]
  /\ made = {} /\ data = {} /\ written = {}
  /\ online = TRUE
  /\ faults = [timeouts |-> 0, outages |-> 0, crashes |-> 0]

-----------------------------------------------------------------------------
(* The kernel. *)

Vol(p) == IF p \in Volumes THEN p ELSE VolOf[p]

Shows(p) == IF mounts[p] = <<>> THEN "disk" ELSE Head(mounts[p])

(* os.Stat succeeds on the path; the directory of the volume may be gone.  *)
Visible(p) ==
  /\ p \in dirs
  /\ Shows(p) # "disk" => online
  /\ Shows(p) = "volume" => Vol(p) \in made

(* os.Stat succeeds on the volume's directory below its staging path. *)
SourceVisible(v) ==
  IF Shows(v) = "root" THEN online /\ v \in made ELSE v \in sub

MkdirAll(p) == (p \in dirs => Visible(p)) /\ dirs' = dirs \union {p}

(* Faulty variant: the mount table records the path, not its file system. *)
PushPath(p, source) == mounts' = [mounts EXCEPT ![p] = <<p>> \o @]

Push(p, source) == mounts' = [mounts EXCEPT ![p] = <<source>> \o @]
Pop(p)          == mounts' = [mounts EXCEPT ![p] = Tail(@)]

(* os.RemoveAll. Through a staging path that shows the share, the files of *)
(* every volume are reached.                                               *)
RemoveAll(p) ==
  /\ data' = IF ~online THEN data
             ELSE CASE Shows(p) = "root"   -> {}
                    [] Shows(p) = "volume" -> data \ {Vol(p)}
                    [] Shows(p) = "disk"   -> data
  /\ made' = IF online /\ Shows(p) = "root" THEN {} ELSE made
  /\ dirs' = IF mounts[p] = <<>> THEN dirs \ {p} ELSE dirs
  /\ sub'  = IF mounts[p] = <<>> THEN sub \ {p} ELSE sub

-----------------------------------------------------------------------------
(* Handler control. *)

GoTo(h, call) == pc' = [pc EXCEPT ![h] = call] /\ UNCHANGED <<arg, waiting, view>>

(* The handler returns; the kubelet learns of it if it still waits. *)
Reply(h, seen) ==
  LET v == Vol(arg[h]) IN
  /\ pc' = [pc EXCEPT ![h] = "idle"]
  /\ arg' = [arg EXCEPT ![h] = None]
  /\ waiting' = IF waiting[v] = h THEN [waiting EXCEPT ![v] = None] ELSE waiting
  /\ view' = IF waiting[v] = h THEN [view EXCEPT ![arg[h]] = seen] ELSE view

MountError(h)   == Reply(h, view[arg[h]])

(* Faulty variant: an error of unmount(2) is logged and success returned. *)
UnmountErrorHidden(h) == Reply(h, "no")

UnmountError(h) == Reply(h, "maybe")

StageMkdir(h) ==
  /\ pc[h] = "mkdir"
  /\ \/ MkdirAll(arg[h]) /\ GoTo(h, "mount")
     \/ MountError(h) /\ UNCHANGED dirs
  /\ UNCHANGED <<sub, mounts, share, others>>

(* The share's root is mounted on the staging path. *)
StageMount(h) ==
  /\ pc[h] = "mount"
  /\ \/ /\ arg[h] \in dirs /\ mounts[arg[h]] = <<>> /\ online
        /\ Push(arg[h], "root")
        /\ GoTo(h, "subdir")
     \/ MountError(h) /\ UNCHANGED mounts
  /\ UNCHANGED <<disk, share, others>>

(* The volume's directory is made below the staging path, whatever that    *)
(* shows by now; an error is ignored.                                      *)
StageSubdir(h) ==
  LET v == arg[h] IN
  /\ pc[h] = "subdir"
  /\ \/ Shows(v) = "root" /\ online /\ made' = made \union {v} /\ UNCHANGED disk
     \/ /\ Shows(v) = "disk"
        /\ dirs' = dirs \union {v} /\ sub' = sub \union {v}
        /\ UNCHANGED made
     \/ UNCHANGED <<made, disk>>
  /\ Reply(h, "yes")
  /\ UNCHANGED <<mounts, data, others>>

NodeStageVolume(h) == StageMkdir(h) \/ StageMount(h) \/ StageSubdir(h)

BindStat(h) ==
  /\ pc[h] = "bindstat"
  /\ IF SourceVisible(Vol(arg[h])) THEN GoTo(h, "bindmkdir") ELSE MountError(h)
  /\ UNCHANGED <<disk, mounts, share, others>>

BindMkdir(h) ==
  /\ pc[h] = "bindmkdir"
  /\ \/ MkdirAll(arg[h]) /\ GoTo(h, "bind")
     \/ MountError(h) /\ UNCHANGED dirs
  /\ UNCHANGED <<sub, mounts, share, others>>

(* Faulty variant: the staging path itself is bound. *)
BindRoot(h) ==
  /\ pc[h] = "bind"
  /\ {Vol(arg[h]), arg[h]} \subseteq dirs
  /\ Push(arg[h], Shows(Vol(arg[h])))
  /\ Reply(h, "yes")
  /\ UNCHANGED <<disk, share, others>>

BindMount(h) ==
  LET v == Vol(arg[h]) IN
  /\ pc[h] = "bind"
  /\ \/ /\ SourceVisible(v) /\ arg[h] \in dirs
        /\ Push(arg[h], IF Shows(v) = "root" THEN "volume" ELSE "disk")
        /\ Reply(h, "yes")
        /\ UNCHANGED <<disk, share>>
     \/ MountError(h) /\ RemoveAll(arg[h]) /\ UNCHANGED mounts
  /\ UNCHANGED others

NodePublishVolume(h) == BindStat(h) \/ BindMkdir(h) \/ BindMount(h)

UnmountStat(h) ==
  /\ pc[h] = "stat"
  /\ GoTo(h, IF Visible(arg[h]) THEN "umount" ELSE "remove")
  /\ UNCHANGED <<disk, mounts, share, others>>

UnmountDone(h) ==
  /\ pc[h] = "umount"
  /\ mounts[arg[h]] # <<>>
  /\ Pop(arg[h])
  /\ GoTo(h, "remove")
  /\ UNCHANGED <<disk, share, others>>

(* Faulty variant: the directory is deleted although unmounting failed. *)
UnmountFailsIgnored(h) ==
  /\ pc[h] = "umount"
  /\ GoTo(h, "remove")
  /\ UNCHANGED <<disk, mounts, share, others>>

UnmountFails(h) ==
  /\ pc[h] = "umount"
  /\ UnmountError(h)
  /\ UNCHANGED <<disk, mounts, share, others>>

DeleteDir(h) ==
  /\ pc[h] = "remove"
  /\ RemoveAll(arg[h])
  /\ Reply(h, "no")
  /\ UNCHANGED <<mounts, others>>

Unmounting(h) == UnmountStat(h) \/ UnmountDone(h) \/ UnmountFails(h) \/ DeleteDir(h)
NodeUnpublishVolume(h) == arg[h] \in Pods /\ Unmounting(h)
NodeUnstageVolume(h)   == arg[h] \in Volumes /\ Unmounting(h)

Handler(h) ==
  \/ NodeStageVolume(h) \/ NodePublishVolume(h)
  \/ NodeUnpublishVolume(h) \/ NodeUnstageVolume(h)

-----------------------------------------------------------------------------
(* The kubelet and the pods. *)

PodAdded(q) ==
  /\ pod[q] = "new"
  /\ pod' = [pod EXCEPT ![q] = "wanted"]
  /\ UNCHANGED <<disk, mounts, rpc, view, share, written, online, faults>>

PodDeleted(q) ==
  /\ pod[q] = "wanted"
  /\ pod' = [pod EXCEPT ![q] = "deleted"]
  /\ UNCHANGED <<disk, mounts, rpc, view, share, written, online, faults>>

PodWrites(q) ==
  /\ pod[q] = "wanted" /\ view[q] = "yes" /\ Visible(q)
  /\ written' = written \union {VolOf[q]}
  /\ data' = IF Shows(q) = "volume" THEN data \union {VolOf[q]} ELSE data
  /\ UNCHANGED <<disk, mounts, rpc, view, pod, made, online, faults>>

Call(p, first) ==
  /\ waiting[Vol(p)] = None
  /\ \E h \in Handlers :
       /\ pc[h] = "idle"
       /\ pc' = [pc EXCEPT ![h] = first]
       /\ arg' = [arg EXCEPT ![h] = p]
       /\ waiting' = [waiting EXCEPT ![Vol(p)] = h]
  /\ UNCHANGED <<disk, mounts, view, share, others>>

PodsOf(v) == {q \in Pods : VolOf[q] = v}
Wanted(v) == {q \in PodsOf(v) : pod[q] = "wanted"}

Missing(p) ==
  /\ view[p] # "yes"
  /\ IF p \in Volumes THEN Wanted(p) # {}
                      ELSE pod[p] = "wanted" /\ view[VolOf[p]] = "yes"

Unneeded(p) ==
  /\ view[p] # "no"
  /\ IF p \in Volumes THEN Wanted(p) = {} /\ \A q \in PodsOf(p) : view[q] = "no"
                      ELSE pod[p] = "deleted"

CallMount(p) ==
  /\ Missing(p) /\ mounts[p] = <<>>
  /\ Call(p, IF p \in Volumes THEN "mkdir" ELSE "bindstat")

CallUnmount(p) == Unneeded(p) /\ Call(p, "stat")

Adopt(p) ==
  /\ waiting[Vol(p)] = None
  /\ Missing(p) /\ mounts[p] # <<>>
  /\ view' = [view EXCEPT ![p] = "yes"]
  /\ UNCHANGED <<disk, mounts, rpc, share, others>>

Kubelet(p) == CallMount(p) \/ CallUnmount(p) \/ Adopt(p)

-----------------------------------------------------------------------------
(* Faults. *)

(* What the kubelet knows when it loses the calls of these volumes. *)
Uncertain(lost) ==
  [p \in Paths |->
     IF \E v \in lost : waiting[v] # None /\ arg[waiting[v]] = p THEN "maybe" ELSE view[p]]

Timeout(v) ==
  /\ waiting[v] # None /\ faults.timeouts < MaxTimeouts
  /\ faults' = [faults EXCEPT !.timeouts = @ + 1]
  /\ waiting' = [waiting EXCEPT ![v] = None]
  /\ view' = Uncertain({v})
  /\ UNCHANGED <<disk, mounts, pc, arg, share, pod, written, online>>

Crash ==
  /\ faults.crashes < MaxCrashes
  /\ faults' = [faults EXCEPT !.crashes = @ + 1]
  /\ pc' = [h \in Handlers |-> "idle"]
  /\ arg' = [h \in Handlers |-> None]
  /\ waiting' = [v \in Volumes |-> None]
  /\ view' = Uncertain(Volumes)
  /\ UNCHANGED <<disk, mounts, share, pod, written, online>>

ServerFails ==
  /\ online /\ faults.outages < MaxOutages
  /\ faults' = [faults EXCEPT !.outages = @ + 1]
  /\ online' = FALSE
  /\ UNCHANGED <<disk, mounts, rpc, view, share, pod, written>>

ServerReturns ==
  /\ ~online
  /\ online' = TRUE
  /\ UNCHANGED <<disk, mounts, rpc, view, share, pod, written, faults>>

Next ==
  \/ \E h \in Handlers : Handler(h)
  \/ \E p \in Paths : Kubelet(p)
  \/ \E q \in Pods : PodAdded(q) \/ PodDeleted(q) \/ PodWrites(q)
  \/ \E v \in Volumes : Timeout(v)
  \/ Crash \/ ServerFails \/ ServerReturns

Spec == Init /\ [][Next]_vars

-----------------------------------------------------------------------------
(* Properties. *)

Serial      == faults.timeouts = 0
Undisturbed == Serial /\ faults.outages = 0

Busy(p) == waiting[Vol(p)] # None /\ arg[waiting[Vol(p)]] = p

(* Although every staging path leads to every volume's files, no volume    *)
(* loses the files of its pods while another one is unstaged or staged,    *)
(* until a call overlaps another one of the same volume or the server      *)
(* fails.                                                                  *)
Durable == Undisturbed => written \subseteq data

(* A path the kubelet takes for unmounted has no mount left on it. *)
ReleasedClean ==
  Undisturbed =>
    \A p \in Paths : view[p] = "no" /\ ~Busy(p) => mounts[p] = <<>>

(* A running pod sees its own volume's directory, neither the share's root *)
(* nor the node's disk, even when the server comes and goes.               *)
PublishedShowsVolume ==
  Serial =>
    \A q \in Pods : pod[q] = "wanted" /\ view[q] = "yes" => Shows(q) = "volume"

=============================================================================
