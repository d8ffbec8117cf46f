----------------------------- MODULE FlexVolume -----------------------------
(***************************************************************************)
(* smb-flex: the dynamic provisioner (provisioner/volume) and the          *)
(* FlexVolume driver (driver/main.go). The provisioner makes a             *)
(* PersistentVolume for every claim and lets released ones be deleted. The *)
(* driver is a program that the kubelet runs once for every mount and      *)
(* unmount of a pod's directory; it mounts the share there, prints a status*)
(* and exits.                                                              *)
(*                                                                         *)
(* The kubelet, the provisioner's controller library, mount(8), umount(8)  *)
(* and the SMB server are external and modelled from the calls of the      *)
(* source. The kubelet sets no deadline on the program, so a program       *)
(* outlives its call only when the kubelet itself is restarted.            *)
(***************************************************************************)
EXTENDS Naturals, FiniteSets

CONSTANTS
  Claims,       \* claims, and the volumes made for them
  Pods,         \* pods, one directory each
  VolumeOf,     \* the claim each pod uses
  Malformed,    \* pods whose mount arguments the driver cannot decode
  Programs,     \* processes that run the driver
  None,         \* no process, no annotation
  MaxOutages,   \* times the SMB server goes away
  MaxRestarts,  \* restarts of the kubelet
  MaxStarts     \* restarts of the provisioner

Runs == [op : {"mount", "unmount"}, pod : Pods, status : {"running", "Success", "Failure"}]

ASSUME FlexAssumption ==
  /\ VolumeOf \in [Pods -> Claims]
  /\ Malformed \subseteq Pods
  /\ None \notin Programs \union Runs
  /\ {MaxOutages, MaxRestarts, MaxStarts} \subseteq Nat

VARIABLES
  pv,          \* life cycle of each claim's volume
  annotation,  \* Provisioner_Id of each volume, or None
  dir,         \* pods whose directory exists
  mounted,     \* pods on whose directory the share is mounted
  program,     \* what each process was run for, and the status it prints
  waits,       \* the process the kubelet waits for, for each pod
  view,        \* whether the kubelet takes a pod's volume for mounted
  pod,         \* life cycle of each pod
  server,      \* the SMB server answers
  faults       \* outages, kubelet restarts and provisioner restarts so far

volumes == <<pv, annotation>>
node    == <<dir, mounted>>
kubelet == <<waits, view, pod>>
vars    == <<volumes, node, program, kubelet, server, faults>>

TypeOK ==
  /\ pv \in [Claims -> {"unbound", "bound", "released", "gone"}]
  /\ annotation \in [Claims -> Nat \union {None}]
  /\ dir \subseteq Pods
  /\ mounted \subseteq dir
  /\ program \in [Programs -> Runs \union {None}]
  /\ waits \in [Pods -> Programs \union {None}]
  /\ \A p \in Pods : waits[p] # None => program[waits[p]] # None /\ program[waits[p]].pod = p
  /\ view \in [Pods -> {"no", "yes", "maybe"}]
  /\ pod \in [Pods -> {"new", "wanted", "running", "deleted"}]
  /\ server \in BOOLEAN
  /\ faults \in [outages : Nat, restarts : Nat, starts : Nat]

Init ==
  /\ pv = [c \in Claims |-> "unbound"]
  /\ annotation = [c \in Claims |-> None]
  /\ dir = {}
  /\ mounted = {}
  /\ program = [g \in Programs |-> None]
  /\ waits = [p \in Pods |-> None]
  /\ view = [p \in Pods |-> "no"]
  /\ pod = [p \in Pods |-> "new"]
  /\ server = TRUE
  /\ faults = [outages |-> 0, restarts |-> 0, starts |-> 0]

-----------------------------------------------------------------------------
(* The provisioner. *)

(* Faulty variant: every start of the provisioner gets an identity.        *)
IdentityFresh(start) == start + 1

(* The identity of the provisioner's start-th start: the field is declared *)
(* and never set.                                                          *)
Identity(start) == 0

(* The volume names the share and says who made it; the controller stores  *)
(* it and it is bound to its claim.                                        *)
Provision(c) ==
  /\ pv[c] = "unbound"
  /\ pv' = [pv EXCEPT ![c] = "bound"]
  /\ annotation' = [annotation EXCEPT ![c] = Identity(faults.starts)]
  /\ UNCHANGED <<node, program, kubelet, server, faults>>

(* Without the annotation Delete is an error, and one that names another   *)
(* provisioner is ignored; the controller keeps the volume. Else it removes*)
(* the object. The data stays on the share.                                *)
Delete(c) ==
  /\ pv[c] = "released"
  /\ annotation[c] = Identity(faults.starts)
  /\ pv' = [pv EXCEPT ![c] = "gone"]
  /\ UNCHANGED <<annotation, node, program, kubelet, server, faults>>

(* A claim in use by a pod is not removed. *)
ClaimDeleted(c) ==
  /\ pv[c] = "bound"
  /\ \A p \in Pods : VolumeOf[p] = c => pod[p] \in {"new", "deleted"}
  /\ pv' = [pv EXCEPT ![c] = "released"]
  /\ UNCHANGED <<annotation, node, program, kubelet, server, faults>>

-----------------------------------------------------------------------------
(* The driver: driverMain with the command it runs, then its output. *)

Running(g, op) == program[g] # None /\ program[g].op = op /\ program[g].status = "running"

Report(g, status) == program' = [program EXCEPT ![g].status = status]

(* mount.cifs refuses a directory where the share is mounted already.      *)
Mountable(p) == server /\ p \in dir /\ p \notin mounted

(* The arguments a pod's mount is called with can be decoded. *)
Decodes(p) == p \notin Malformed

(* The commands succeed. *)
MountCommand(p)  == Mountable(p) /\ mounted' = mounted \union {p}
UmountCommand(p) == p \in mounted /\ mounted' = mounted \ {p}

(* Faulty variant: the status is set at the end of driverMain, which a     *)
(* panic does not reach.                                                   *)
RunMountUnset(g) ==
  LET p == program[g].pod IN
  /\ Running(g, "mount")
  /\ \/ ~Decodes(p) /\ Report(g, "") /\ UNCHANGED mounted
     \/ Decodes(p) /\ MountCommand(p) /\ Report(g, "Success")
     \/ Decodes(p) /\ ~Mountable(p) /\ Report(g, "Failure") /\ UNCHANGED mounted
  /\ UNCHANGED <<volumes, dir, kubelet, server, faults>>

(* Faulty variant: the exit code of the command is not looked at.          *)
RunMountUnchecked(g) ==
  LET p == program[g].pod IN
  /\ Running(g, "mount")
  /\ mounted' = IF Decodes(p) /\ Mountable(p) THEN mounted \union {p} ELSE mounted
  /\ Report(g, "Success")
  /\ UNCHANGED <<volumes, dir, kubelet, server, faults>>

(* Faulty variant: a command that failed is waited for for ever.           *)
RunMountHangs(g) ==
  LET p == program[g].pod IN
  /\ Running(g, "mount")
  /\ \/ ~Decodes(p) /\ Report(g, "Success") /\ UNCHANGED mounted
     \/ Decodes(p) /\ MountCommand(p) /\ Report(g, "Success")
  /\ UNCHANGED <<volumes, dir, kubelet, server, faults>>

(* Arguments that do not decode make createMountCmd panic; driverMain      *)
(* recovers and keeps the status it began with.                            *)
RunMount(g) ==
  LET p == program[g].pod IN
  /\ Running(g, "mount")
  /\ \/ ~Decodes(p) /\ Report(g, "Success") /\ UNCHANGED mounted
     \/ Decodes(p) /\ MountCommand(p) /\ Report(g, "Success")
     \/ Decodes(p) /\ ~Mountable(p) /\ Report(g, "Failure") /\ UNCHANGED mounted
  /\ UNCHANGED <<volumes, dir, kubelet, server, faults>>

(* Faulty variant: output on stderr counts as an error.                    *)
UnmountedNoisy(g) ==
  /\ Running(g, "unmount")
  /\ UmountCommand(program[g].pod)
  /\ Report(g, "Failure")
  /\ UNCHANGED <<volumes, dir, kubelet, server, faults>>

Unmounted(g) ==
  /\ Running(g, "unmount")
  /\ UmountCommand(program[g].pod)
  /\ Report(g, "Success")
  /\ UNCHANGED <<volumes, dir, kubelet, server, faults>>

(* umount fails where nothing is mounted, or while files are open.         *)
UnmountFails(g) ==
  /\ Running(g, "unmount")
  /\ Report(g, "Failure")
  /\ UNCHANGED <<volumes, node, kubelet, server, faults>>

-----------------------------------------------------------------------------
(* The kubelet. *)

Start(p, op) ==
  \E g \in Programs :
    /\ program[g] = None
    /\ program' = [program EXCEPT ![g] = [op |-> op, pod |-> p, status |-> "running"]]
    /\ waits' = [waits EXCEPT ![p] = g]

SetView(p, v) ==
  /\ view' = [view EXCEPT ![p] = v]
  /\ pod' = IF v = "yes" /\ pod[p] = "wanted" THEN [pod EXCEPT ![p] = "running"] ELSE pod

(* A directory where something is mounted already needs no driver.         *)
CallMount(p) ==
  /\ pod[p] \in {"wanted", "running"} /\ view[p] # "yes" /\ waits[p] = None
  /\ \/ p \in mounted /\ SetView(p, "yes") /\ UNCHANGED <<dir, program, waits>>
     \/ p \notin mounted /\ dir' = dir \union {p} /\ Start(p, "mount") /\ UNCHANGED <<view, pod>>
  /\ UNCHANGED <<volumes, mounted, server, faults>>

CallUnmount(p) ==
  /\ pod[p] = "deleted" /\ view[p] # "no" /\ waits[p] = None
  /\ \/ p \in dir /\ Start(p, "unmount") /\ UNCHANGED <<view, pod>>
     \/ p \notin dir /\ SetView(p, "no") /\ UNCHANGED <<program, waits>>
  /\ UNCHANGED <<volumes, node, server, faults>>

(* The program exits. After a failed mount the kubelet tries to remove the *)
(* directory; after an unmount it must succeed in that. Nobody looks at    *)
(* the output of a program whose kubelet is gone.                          *)
Exit(g) ==
  LET p == program[g].pod IN
  /\ program[g] # None /\ program[g].status # "running"
  /\ program' = [program EXCEPT ![g] = None]
  /\ waits' = [q \in Pods |-> IF waits[q] = g THEN None ELSE waits[q]]
  /\ IF waits[p] = g THEN
       \/ /\ program[g].op = "mount" /\ program[g].status = "Success"
          /\ SetView(p, "yes")
          /\ UNCHANGED dir
       \/ /\ program[g].op = "mount" /\ program[g].status = "Failure"
          /\ dir' = (dir \ {p}) \union mounted
          /\ UNCHANGED <<view, pod>>
       \/ /\ program[g].op = "unmount" /\ program[g].status = "Success"
          /\ IF p \in mounted THEN UNCHANGED <<dir, view, pod>>
             ELSE dir' = dir \ {p} /\ SetView(p, "no")
       \/ /\ program[g].op = "unmount" /\ program[g].status = "Failure"
          /\ UNCHANGED <<dir, view, pod>>
     ELSE UNCHANGED <<dir, view, pod>>
  /\ UNCHANGED <<volumes, mounted, server, faults>>

PodAdded(p) ==
  /\ pod[p] = "new" /\ pv[VolumeOf[p]] = "bound"
  /\ pod' = [pod EXCEPT ![p] = "wanted"]
  /\ UNCHANGED <<volumes, node, program, waits, view, server, faults>>

PodDeleted(p) ==
  /\ pod[p] \in {"wanted", "running"}
  /\ pod' = [pod EXCEPT ![p] = "deleted"]
  /\ UNCHANGED <<volumes, node, program, waits, view, server, faults>>

-----------------------------------------------------------------------------
(* Faults. *)

ServerFails ==
  /\ server /\ faults.outages < MaxOutages
  /\ server' = FALSE
  /\ faults' = [faults EXCEPT !.outages = @ + 1]
  /\ UNCHANGED <<volumes, node, program, kubelet>>

ServerReturns ==
  /\ ~server
  /\ server' = TRUE
  /\ UNCHANGED <<volumes, node, program, kubelet, faults>>

(* The new kubelet finds the directories; the programs of the old one run  *)
(* on or are killed with it.                                               *)
KubeletRestarts ==
  /\ faults.restarts < MaxRestarts
  /\ faults' = [faults EXCEPT !.restarts = @ + 1]
  /\ waits' = [p \in Pods |-> None]
  /\ view' = [p \in Pods |-> IF p \in dir THEN "maybe" ELSE "no"]
  /\ \E killed \in SUBSET Programs :
       program' = [g \in Programs |-> IF g \in killed THEN None ELSE program[g]]
  /\ UNCHANGED <<volumes, node, pod, server>>

ProvisionerRestarts ==
  /\ faults.starts < MaxStarts
  /\ faults' = [faults EXCEPT !.starts = @ + 1]
  /\ UNCHANGED <<volumes, node, program, kubelet, server>>

-----------------------------------------------------------------------------

Driver(g) == RunMount(g) \/ Unmounted(g) \/ UnmountFails(g) \/ Exit(g)

Next ==
  \/ \E c \in Claims : Provision(c) \/ ClaimDeleted(c) \/ Delete(c)
  \/ \E g \in Programs : Driver(g)
  \/ \E p \in Pods : CallMount(p) \/ CallUnmount(p) \/ PodAdded(p) \/ PodDeleted(p)
  \/ ServerFails \/ ServerReturns \/ KubeletRestarts \/ ProvisionerRestarts

Spec == Init /\ [][Next]_vars

(* The provisioner's controller and the kubelet retry, programs run, and   *)
(* files do not stay open for ever. Calls wait for a free process here,    *)
(* of which a node has as many as it needs, hence strong fairness.         *)
Fairness ==
  /\ \A c \in Claims : WF_vars(Provision(c)) /\ WF_vars(Delete(c))
  /\ \A g \in Programs : WF_vars(Driver(g)) /\ SF_vars(Unmounted(g))
  /\ \A p \in Pods : SF_vars(CallMount(p)) /\ SF_vars(CallUnmount(p))

FairSpec == Spec /\ Fairness

-----------------------------------------------------------------------------
(* Properties. *)

(* A running pod has the share on its directory and not the node's disk,   *)
(* across outages and restarts of the kubelet, and although programs of    *)
(* two kubelets may work on the directory; unless the driver has recovered *)
(* from a panic.                                                           *)
RunningPodsSeeShare == \A p \in Pods \ Malformed : pod[p] = "running" => p \in mounted

(* When the server stays up in the end, every pod is started, however often*)
(* mounts failed before and whatever programs a restarted kubelet has left *)
(* behind. It runs on its volume, unless its arguments do not decode: such *)
(* a pod is started on the node's own disk, which is all this says of it.  *)
PodsStart ==
  <>[]server => \A p \in Pods : (pod[p] = "wanted") ~> (pod[p] \in {"running", "deleted"})

(* A deleted pod's volume is unmounted, its directory removed and the pod  *)
(* acknowledged, also while the server is away; but umount fails for ever  *)
(* where nothing is mounted, so the pod must have had its mount, and the   *)
(* kubelet must not be restarted between umount and the removal.           *)
TeardownEnds ==
  [](faults.restarts = 0) =>
    \A p \in Pods \ Malformed :
      (pod[p] = "deleted") ~> (view[p] = "no" /\ p \notin mounted /\ p \notin dir)

(* A released volume is deleted in the end, also when the provisioner has  *)
(* been restarted since it made it.                                        *)
ReleasedDeleted == \A c \in Claims : (pv[c] = "released") ~> (pv[c] = "gone")

=============================================================================
