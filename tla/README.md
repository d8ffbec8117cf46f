# Verification of the SMB storage drivers

TLA+ modules of the programs in `src/`: SMB (CIFS) storage drivers for Kubernetes, written in Go.
This file lists the system's parts, says which module models which part and how, what every TLC
run checks, and what is proved with TLAPS. The definitions are tied to source lines by the table
`map` in `PROJECT.json`; the hazards each property is for are listed there, too.

    tlc -config node_faults.cfg MCNodeHealth      # one run
    tlapm NodeServer_proofs.tla                   # the proofs of one module

## 1. Inventory

### Node server: `smb-csi/driver/node.go`, `mounter/mounter.go`
*State:* none in the process. It acts on the node's mount table, on mount-point directories of
the node's disk, and, through mounts, on the files of the volumes.
*Operations:* `NodeStageVolume` (mount the volume's directory of the share on a staging path),
`NodePublishVolume` (bind it on a pod's target), `NodeUnpublishVolume`, `NodeUnstageVolume`
(unmount, then remove the directory), `NodeGetVolumeStats`.
*Interactions:* the kubelet calls it over gRPC, each call on a goroutine of its own without any
lock; an error is retried; a call that passes the kubelet's deadline is given up on while its
handler runs on; the SMB server can be cut off; the process can die between any two system calls.
*Hard:* `Unmount` takes every error of `Stat` for "nothing mounted"; `RemoveAll` then follows
whatever the path shows; bind mounts stack; a failed bind removes its target.
*Correct if:* no file of a volume is lost by teardown, nothing stays mounted that Kubernetes takes
for unmounted, a running pod sees the share and not the node's disk, teardown finishes.

### Controller server: `smb-csi/driver/controller.go`
*State:* none in the process; the mount table and disk of its container below `/csi-data-dir`,
shared by all calls; the shares; `PersistentVolume`s and `VolumeSnapshotContent`s in the API server.
*Operations:* `CreateVolume` (empty, cloned or restored), `DeleteVolume`, `ControllerPublishVolume`,
`ControllerUnpublishVolume`, `CreateSnapshot`, `DeleteSnapshot`, `ListSnapshots`.
*Interactions:* CSI sidecars call it concurrently; its handlers meet in the local directories, which
are named by share and volume only.
*Hard:* one handler's mount is another one's `EBUSY`, or its source; error paths return without
unmounting; every error of a lookup is taken for "there is none"; a restart takes all mounts;
retries meet handlers of timed-out calls.
*Correct if:* an acknowledged volume exists on its share, a ready snapshot holds what the volume
held, a restored or cloned volume holds what its source held, claims are served.

### Snapshotter: `smb-csi/driver/snapshotter`
*State:* the archive being built, the volume being read, the new volume being written.
*Operations:* `CreateSnapshot`/`compress`, `ExtractSnap`/`decompress`, `DeleteSnapshot`.
*Hard:* pods write while the walk packs; the error of the walk is dropped; a link has an empty header
and is packed with what it leads to; extraction restarts over what an earlier attempt has left.
*Correct if:* no entry is torn, what is missing is known, the new volume equals the archive.

### Simple driver: `smb-csi/driver_simple`
The same calls as the node server, but the whole share is mounted on each volume's staging path, so
every teardown has the files of every volume within reach. The controller part only echoes requests.

### Health check: `smb-csi/driver/healtchCheck`
*State:* none; the call holds the volume's capacity and what it has seen so far.
*Operations:* three looks at a path (`Stat`, `statfs` for the verdict, `statfs` for the figures),
interleaved with everything the node server does.
*Hard:* the looks may be at different file systems; counts overflow `int64`.
*Correct if* a healthy report is about the share, and of a file system that is large enough.

### Flex driver and provisioner: `smb-flex`
*State:* the directories and mounts of the node; the `PersistentVolume`s with the identity of the
provisioner that made them. The programs keep nothing themselves.
*Operations:* `mount` and `unmount` (a program the kubelet runs once, which prints a JSON status),
`Provision` and `Delete` of the provisioner.
*Interactions:* the kubelet believes the status and calls again after a failure; programs of a
kubelet that died may run beside those of its successor; the provisioner's controller library calls
`Provision` and `Delete` and drops volumes of an identity it does not know.
*Hard:* a panic is recovered with the status still `Success`; `umount` is not idempotent; an
identity must outlive the process.
*Correct if* running pods see the share, pods start and are torn down, released volumes go.

### Apdex measurement: `smb-csi/measurement/apdex`
*State:* the times of each claim and pod, and two wait groups.
*Operations:* one worker per claim, then one per pod: create, watch, note the time; then the chart.
*Interactions:* with the API server only, through creations and watches.
*Hard:* an object may change before its watch begins; watches close; errors are printed and ignored.
*Correct if* the claims are bound before pods are created, slow objects show as slow, it ends.

### Not the drivers' logic
`main.go` files, identity servers, tests and mocks, manifests and scripts. From the manifests the
models take that the controller's local directories are on its container's own file system (only
the directory of its socket is a volume), so that a restart begins with empty ones, and that the
node's mounts outlive the driver's container (`Bidirectional` propagation).

## 2. Modules

| module | models | state and actions |
|---|---|---|
| `VolumeAccess` | what pods are promised of a volume | who holds the volume, what is stored, whether the surroundings have broken the rules; `Grant`, `Store`, `Revoke`, `Disturb` |
| `NodeServer` | node server for one volume with several pods on one node | one action per system call of the four handlers; `Kubelet`, pods and faults |
| `NodeHealth` | `NodeServer` composed with `NodeGetVolumeStats` | adds `probe`, the statistics call under way, with the capacity check on integers that wrap around |
| `NodeServer_proofs`, `NodeHealth_proofs`, `SimpleNode_proofs`, `ControllerServer_proofs`, `Snapshotter_proofs`, `SnapshotList_proofs`, `FlexVolume_proofs`, `Apdex_proofs` | theorems on these modules | |
| `SimpleNode` | node half of `driver_simple`, several volumes on one share | as `NodeServer`, with one kubelet operation per volume at a time |
| `ControllerServer` | controller with volumes, snapshots and shares | one action per system call or lookup, an operator for each handler (`CreateVolume`, `CreateSnapshot`, ...) that lists its steps; sidecars, users, faults |
| `Snapshotter` | archive of a tree under change, extraction with restarts | `compress` one system call at a time, `decompress` one entry at a time |
| `SnapshotList` | `ListSnapshots` and a client that pages | one action per request, panic and error included; contents come and go |
| `FlexVolume` | flex provisioner and flex driver, for several pods on one node | programs the kubelet runs, their status, the kubelet's and the provisioner's restarts |
| `Apdex` | the measurement | workers in two phases, watches, the cluster and a clock |
| `MCNodeServer`, `MCNodeHealth`, `MCSimpleNode`, `MCControllerServer`, `MCFlexVolume`, `MCSnapshotter` | constants and symmetry for TLC | |

Conventions. `pc[h]` is the next system call of goroutine `h`; a handler's early return is a `Reply`
(`MountError`, `UnmountError`, ...). The kubelet's or a sidecar's knowledge is kept apart from the
truth: `view` against `mounts`, `claim` and `content` against `dirs` and `archive`. Definitions
marked "Faulty variant" are not part of any specification; each is a plausible mistake in the code
that some property notices, and `PROJECT.json` pairs them.

`NodeServer`. `mounts[p]` is a stack, for a bind mount stacks on what is there; `Shows(p)` is what a
path leads to. `RemoveAll` removes what lies below the path: on a path that shows the share, the
volume's files. `mounts` of the directory itself makes it busy. What the manifests and the kernel
do is external: the cifs mount refuses the same file system on the same mount point, `umount` fails
with `EINVAL` or `EBUSY`. The kubelet runs one operation of a volume at a time, does not call the
driver for a path that is mounted already (`Adopt`), and after a timeout or a restart holds the
path for uncertain (`"maybe"`).

`ControllerServer`. `mounts[n]` is the stack on the local directory of share `n`; each element counts
the mounts on each volume's directory inside it; the last element is the container's own disk.
`Reaches(n, v)` says whether a path leads to the volume. `stolen` records, for the properties only,
volumes a mount of which was removed by a handler that had not made it. What a reply promises
(`owed`) is fixed when the call begins. A behaviour begins with the choice of a `scenario`: where
the volumes live, what is made from what, how deep the kernel stacks mounts of one source on one
path, and which faults may happen; so one run asks its questions of several placements, kernels and
faults. `overlapped` records, for the properties only, whether two calls have run at once since
the container started. A lookup fails when the object is not there, for reasons of its own, or with
the context of a call that was given up on (`NotFound`); what the code makes of that differs:
`FindVolume` goes on as if there were no volume (and records it in `missed`), `SwitchSource` leaves the
switch or returns, `FindSource` returns an error, or success for `DeleteSnapshot`. The walk over a
volume's files may end early in `Compress`, as `Snapshotter` shows in detail; the archive is then
`"part"` of the volume and the snapshot is ready all the same, while a write cut short leaves it `"torn"`.

`NodeHealth`. `Signed` is Go's conversion to a signed integer, `Bytes` the product of a count and
the block size, in integers from `-Limit` to `Limit - 1`; in the code `Limit` is 2^63. `Statfs` are
the counts a file system may answer with, chosen so that the products fit, turn negative, and come
round to fitting ones again.

`SnapshotList`. A content's `Position` is the number of contents up to its name; a `Page` is the set of
contents at the positions the loop runs over. Of the replies the model keeps how often each content
was `listed`: the order within a page is that of the names, and no property asks for it.

`FlexVolume`. `program[g]` is a process that runs the driver, from the kubelet's call until the
kubelet has read its status; `waits[p]` is the process the kubelet waits for, which a restart of the
kubelet forgets while the process may run on. The driver's `RunMount` has three outcomes: the panic
on arguments that do not decode, recovered with `Success`; the command succeeds; it fails. An
identity of the provisioner is a function of the number of its starts; the code's is constant.

`Apdex`. A worker's steps come in the `Order` of the source: claims are timed from before their
creation, pods from after it. A watch is `open`, `signalled` (an event that ends the wait has come)
or `closed`; a worker whose object settles before the watch is open is not told.

`Snapshotter`. Paths are numbered in the order of the walk, with `Parent` for the folder each is in.
`filepath.Walk` reads a folder's names first and then calls back for the folder (`Readdir`), and for
each name looks again (`Lstat`), when the path may be gone. Of a file the model keeps its size, of a
symbolic link the size of what it leads to: the walk does not follow it, so its header says no
bytes, but `os.Open` does. On extraction a file needs its folder, and links are passed over. tar
writes at most as many bytes as the header says and reports missing ones at the next header or at
the end; both ends of this are in `Copy`, `Lstat` and `Close`. Each system call may fail on a path that
is there (`Fails`): a failed `lstat`, `open` or `read` ends the walk, whose error is dropped; a failed
reading of a folder's names does not even do that, for the callback ignores the error it is handed, so
the folder is packed as an empty one (`unread`).

## 3. What the runs check

| run | question and outcome |
|---|---|
| `node_faults` | Two pods, two goroutines, one timeout, one outage, one crash, and the statistics collector. Files are kept (`Durable`) and mounts not forgotten (`ReleasedClean`) until a call overlaps another one or the server fails; pods see the share while calls do not overlap, also across outages (`PublishedShowsShare`); healthy reports are of the share (`HealthyMeansShare`) and of a file system that is really large enough, whatever overflows (`VerdictRight`); the node server implements `VolumeAccess` (`AccessSpec`). Holds. |
| `node_teardown` | With fairness, one timeout, one outage and one crash: in histories without the crash a deleted pod is acknowledged in the end (`TeardownAcknowledged`). In histories without any of the three, nothing is left at its path (`TeardownCompletes`) and the volume is unmounted (`VolumeReleased`). Holds. |
| `node_failed_bind` | "try to remove the created mounting-point directory": a failed bind removes files instead, when the handler of a timed-out call has mounted the target. Violated by the code. |
| `simple_node` | The simple driver with two volumes staged and unstaged at once: no teardown takes another volume's files, pods see their own volume's directory. Holds, under the same conditions. |
| `controller_faults` | A volume restored from a snapshot of a volume on another share (with a timeout, or a failing call or lookup); restored on one share (with a restart); cloned from another share; cloned on one share on a kernel that stacks mounts; two handlers at once; walks that end early. Volumes are on their share (`VolumesOnShare`), ready snapshots are readable, and complete unless the walk was cut short (`SnapshotComplete`), sources are delivered (`SourceDelivered`) and not unpacked again over a volume in use, unless the call was given up on or the lookup of the volume failed (`NoLateRestore`), calls that do not overlap take down what they mounted (`NothingLeftMounted`). Holds. |
| `controller_provision` | With fairness, two claims on one share, a snapshot taken and deleted, and one restart or one failing call or lookup: every claim without a source is served although overlapping calls refuse one another the share, or the share stays mounted by a handler that has gone (`Provisioned`). Holds. |
| `controller_snapshot_retry` | "Return existing Snapshot if one exists": a handler that outlives its call rewrites the archive of a ready snapshot. Violated by the code. |
| `snapshotter` | Five paths (a file, a folder with a file, a link, a file) of sizes 0 to 2, two changes under the walk, one failing system call, two extractions cut short: entries are never torn (`NoShortEntry`), a quiet tree is packed whole if no call fails (`QuietSnapshotComplete`), a loss is a tail or what is in an unread folder (`OnlyTailMissing`), the new volume equals the archive (`RestoredExactly`). Holds. |
| `snapshotter_walk` | "walk through every file in the folder": a file that grows or goes, or a link to something that is not empty, ends the walk and the snapshot succeeds without the rest. Violated by the code. |
| `snapshot_list` | Four contents, pages of one to three or unlimited, three changes, failing requests: nothing is skipped without a deletion (`NoneSkipped`), nothing repeated without a creation (`NoneRepeated`), paging ends (`PagingEnds`). Holds. |
| `flex_volume` | Two pods of one claim, one with arguments that do not decode, two processes, one outage, one restart of the kubelet and one of the provisioner. Running pods see the share (`RunningPodsSeeShare`); under fairness pods start (`PodsStart`), are torn down (`TeardownEnds`), and released volumes are deleted, also by a provisioner that was restarted (`ReleasedDeleted`). Holds. |
| `apdex` | Up to two volumes, a clock of four ticks, and one of: an object left over, a failing call, a closed watch. Pods are created after every claim is bound (`PodsAfterClaims`), claims slower than the limits show it (`SlowClaimsShown`), the measurement ends (`MeasurementEnds`). Holds. |

The three violated runs each check what a comment in the code says; `findings` in `PROJECT.json`
quotes it.

### What does not hold of the code, and is therefore a condition of a property
- `Durable` and `ReleasedClean` need `Undisturbed`. With an outage, `Unmount` skips the unmount, and
  `RemoveAll` runs through the mount when the server is back; with a timeout, the late handler does
  as much. The conditions are as narrow as they can be: `Durable` fails with one timeout alone and
  with one outage alone.
- `TeardownAcknowledged` needs that the driver does not die between `Unmount` and `DeleteDir`: the
  retry finds the directory, `umount` fails with `EINVAL` every time, and the pod is stuck. The
  liveness properties are of histories in which the driver stays `Alive`.
- `SnapshotComplete` and `SourceDelivered` leave out volumes with a `stolen` mount and histories
  with a timeout: `ControllerUnpublishVolume` and clones unmount a path they have not mounted. A walk
  that ends early gives a ready snapshot without some of the files, and a restore from it is
  acknowledged: `SnapshotComplete` asks for every file of a walk that came to its end only, and
  `SourceDelivered` for what the archive holds.
  `SourceDelivered` leaves out clones from another share on a kernel that stacks mounts, too (why is
  told in section 4).
- `NothingLeftMounted` is of calls that came one after the other since the container started,
  without an error or a timeout, and not of shares on which volumes are restored from another share.
  Overlapping calls leak the share's mount (`EBUSY`), error paths return without unmounting, also when
  a lookup fails with the context of a call that was given up on, and a restore from another share
  never unmounts its source.
- `Provisioned` allows a claim to wait for ever if its share is `Leaked`: a mount of the share that no
  handler at work will take down makes line 63 refuse every later `CreateVolume` and line 188 every
  later `ControllerPublishVolume` until the container is restarted. It takes no fault: a
  `DeleteSnapshot` that mounts its volume below the share while `CreateVolume` has it mounted is enough.
  Claims with a source are left out, for they also wait for their source.
- `NoLateRestore`: a `CreateVolume` that was given up on does unpack over the volume its retry has
  delivered, and so does one called again for a volume in use when the lookup of the volume fails.
- `QuietSnapshotComplete` needs that no file grows while it is packed, none goes between the reading
  of its name and its opening, no system call fails, and no symbolic link leads to something that is
  not empty: each of these ends the walk, without an error, unless a file is left short by it, which
  closing the archive reports. Other changes do not matter.
- `OnlyTailMissing` leaves out what is in folders whose names could not be read: such a folder is packed
  empty, and the walk goes on behind it.
- `NoneSkipped` and `NoneRepeated`: tokens are positions, so a deletion may skip and a creation may
  repeat entries.
- `PagingEnds` counts the panic on a content without status, and a failed request, as an end.
- `PodsStart` counts a pod whose arguments do not decode as started: on the node's own disk.
- `VerdictRight` does not say that a file system whose sizes overflow is found healthy; it may not be.
- `RunningPodsSeeShare` and `TeardownEnds` leave out pods whose arguments do not decode: the recovered
  panic reports `Success`, the pod runs on the node's disk, and every `umount` for it fails.
- `TeardownEnds` is of histories without a restart of the kubelet: between `umount` and the removal of
  the directory, a restart makes every later `unmount` fail.
- `MeasurementEnds` needs that nothing fails and that every watch begins before its object settles;
  else the worker waits for ever. `count > 0`, for the average of nothing divides by zero.
- `SlowClaimsShown` is of claims only: the pods' clock starts after the pod was created.

### Bounds, and why they are enough
Two pods are the least with which the staging path is shared and one pod's teardown meets the other
one's start; two goroutines the least with which a late handler meets a newer call, and a third one
would need a second timeout to be used in `NodeServer`. One timeout, one outage and one crash each
give every pair of the three in one history. One file is enough for "a file is lost", because
handlers remove all files or none. In `ControllerServer` two volumes and one snapshot are a source
and what is made from it; both placements (one share, two shares), restores and clones, and both
kinds of kernel (`stack`) appear as scenarios, and each scenario allows one fault, so that every
system call and lookup fails in turn and every step meets a timeout and a restart. A walk that ends
early is no fault but always possible. `Provisioned` is checked with one share, two claims and a
snapshot, the least for calls to refuse one another and for a leak. In `Snapshotter` a folder
with a file, and a link, lie between two files, so that a loss in the middle, which
`OnlyTailMissing` excludes, could be of each kind, and sizes up to 2 let a file grow and shrink from
the same start; one failing call is enough to end a walk or to lose a folder, and two cuts let the
second attempt be cut short, too. Four contents with pages of one
to three give full, partial and empty last pages. In `FlexVolume` one pod's arguments decode and the
other's do not, on one claim; two processes let one of the old kubelet meet one of the new. In
`Apdex` two workers of each kind are the least for the barrier between them to matter; the clock
reaches past both limits. `Limit = 16` is as good as 2^63 for the capacity check: it compares with one
capacity, and the chosen counts fall on every side of it. Handlers are symmetric where no liveness
is checked; pods are not, when the properties name them.
`CHECK_DEADLOCK FALSE` is set where the system may come to rest: all pods gone, or the archive
restored.

### Fairness
`NodeServer`: weak fairness of every handler (the Go scheduler and the kernel run goroutines), weak
fairness of the kubelet for every path (its reconciler loops for ever), strong fairness of
unmounting calls (the reconciler unmounts first in each round, so mounting calls for other paths
do not starve them), strong fairness of a successful `umount` (files do not stay open for ever).
Nothing is assumed of the SMB server: it may stay away.
`ControllerServer`: weak fairness of handlers and strong fairness of `CallCreate` (the provisioner
retries with back-off as long as the claim is there). `Provisioned` assumes that in the end
only CreateVolume calls for volumes without a source are made, for an endless stream of other calls
may take the share at every attempt; before that, every call may be made in any order.
`SnapshotList`: the client asks for the next page, and again after an error; the API server does not
fail for ever.
`FlexVolume`: weak fairness of programs and of the provisioner's retries, strong fairness of a
successful `umount`, as above. Calls need strong fairness only because the model has finitely many
processes, which another pod may take each time; a node starts a new one.
`Apdex`: goroutines run, claims are bound and pods started. The clock need not go on.

## 4. What is proved

`NodeServer_proofs`, for every set of pods, handlers and files and every number of timeouts,
outages and crashes, from `NodeAssumption` alone (the staging path is no pod's path, `None` is no
handler, the bounds are natural numbers):

| theorem | statement |
|---|---|
| `TypeCorrect` | `Spec => []TypeOK` |
| `NoFileLost` | `Spec => []Durable` |
| `NoMountForgotten` | `Spec => []ReleasedClean` |
| `PodsSeeTheShare` | `Spec => []PublishedShowsShare` |
| `ImplementsAccess` | `Spec => AccessSpec`: every step is a step of `VolumeAccess` or a stutter |

The inductive invariant is

    IInv == TypeOK /\ MountedDirs /\ (Serial => SerialInv) /\ (Undisturbed => UndisturbedInv)

`Durable` alone is not inductive: `DeleteDir` keeps the files only if nothing is mounted where it
removes, which depends on what the handler found before. `SerialInv` says that, without a timeout,
only the handler the kubelet waits for runs, that its step tells what its caller wanted and left
behind (`Purpose`), and that paths have at most one mount, of the share, on every path taken for
mounted. `UndisturbedInv` adds that the path a handler is about to remove has no mount and that
unmounted paths have none. `MountedDirs` makes a path with a mount visible, so that `UnmountStat`
cannot miss it while the server answers. The proof has one lemma per group of actions, split by
conjunct where an action disturbs it; `ImplementsAccess` uses the same invariant for the files
before the first disturbance, and needs nothing after it except that handlers grant the volume to
pods and never add files.

`FlexVolume_proofs`, for every set of pods, claims and processes and every number of outages and
restarts, from `FlexAssumption` (each pod has a claim, `None` is no process or program, the bounds
are natural numbers):

| theorem | statement |
|---|---|
| `TypeCorrect` | `Spec => []TypeOK` |
| `PodsSeeTheShare` | `Spec => []RunningPodsSeeShare` |

Programs of a dead kubelet may finish at any time, so what a running pod sees depends on what they may
still do: the invariant adds that a program that unmounts is of a deleted pod (`UnmountsDeleted`), and
that a program with the status `Success` of a mount has mounted, as long as its pod is there and its
arguments decode (`SuccessMeansMounted`).

`Apdex_proofs`, for every number of volumes, limits, clock and number of failures, from
`ApdexAssumption` (at least one volume, natural numbers):

| theorem | statement |
|---|---|
| `TypeCorrect` | `Spec => []TypeOK` |
| `ClaimsFirst` | `Spec => []PodsAfterClaims` |
| `SlowClaimsSeen` | `Spec => []SlowClaimsShown` |

The invariant has three parts: who is done has seen its object ready, and pods' workers start when
all claims' workers are done (`BarrierInv`); claims' workers start their clock before they create
(`ClockInv`); so what they measure spans creation to binding, and bars show what was measured
(`SpanInv`).

`Snapshotter_proofs`, for every tree of folders, files and links, all sizes, and every number of
changes and of extractions cut short, from `SnapshotterAssumption` (a folder comes before what is in
it, links are no folders, natural numbers):

| theorem | statement |
|---|---|
| `TypeCorrect` | `Spec => []TypeOK` |
| `NoTornEntry` | `Spec => []NoShortEntry` |
| `QuietIsComplete` | `Spec => []QuietSnapshotComplete` |
| `MissesTailOnly` | `Spec => []OnlyTailMissing` |
| `RestoresTheArchive` | `Spec => []RestoredExactly` |

The invariant says of the archive that only its last entry can be short (`CompleteInv`), that it is
in the order of the walk (`OrderInv`) and has the folder of each entry and of each path still to be
visited (`ParentInv`); of unchanged paths that they are met as soon as their folder is packed,
unless its names could not be read, and packed before any later path (`SteadyInv`); of a quiet walk
without a failing call that it goes on (`QuietInv`); and of extraction that the entries before
`left` are there whole and the others in part or not at all (`ExtractInv`). That an unchanged path
below the one being packed cannot be missing, however deep it lies (`FirstMissing`), takes the first
such path and looks at its folder; that there is a first one is the well-foundedness of the natural
numbers, from the library.

`SimpleNode_proofs`, for every set of volumes, pods and handlers and every number of timeouts,
outages and crashes, from `SimpleAssumption` (volumes are no pods, each pod has a volume, `None` is no
handler, natural numbers):

| theorem | statement |
|---|---|
| `TypeCorrect` | `Spec => []TypeOK` |
| `NoFileLost` | `Spec => []Durable` |
| `NoMountForgotten` | `Spec => []ReleasedClean` |
| `PodsSeeTheirVolume` | `Spec => []PublishedShowsVolume` |

The invariant has the parts of `NodeServer`'s, told for each volume with the handler its own operation
waits for. New is what lies between volumes: every staging path shows the whole share, so
that a `RemoveAll` for one volume keeps the files of all others only because nothing is mounted
on the path of a handler that is `Removing`, whichever volume it works for; and a pod's target
answers only if the volume's directory was made on the share (`VolOf[q] \in made`), without which
`UnmountStat` would skip the unmount of a mount that is there.

`NodeHealth_proofs`, on top of `NodeServer_proofs`, also for every capacity, every file system and
integers of every width, from `HealthAssumption` (the capacity fits the signed integers, the counts
the unsigned ones, a block is not empty):

| theorem | statement |
|---|---|
| `ProbeCorrect` | `HealthSpec => []ProbeOK` |
| `VerdictCorrect` | `HealthSpec => []VerdictRight` |
| `HealthyIsShare` | `HealthSpec => HealthyMeansShare`, an action property |

The health check only looks, so the composition keeps the invariant of `NodeServer_proofs`, from which
`HealthyIsShare` takes what the node server guarantees. The arithmetic
(`SignedFacts`, `BytesFacts`, `VerdictFacts`): a conversion never yields more than it was given, and a
count that turns negative keeps the product from exceeding the true one. `ProbeInv` ties the verdict
to the figures it was made from; `WatchInv` says that, while no call overlaps another one, the pod asked
about still has its volume and a verdict of healthy came from the share (`ViewKept`: only an
unmounting call for a deleted pod takes the volume from it).

`ControllerServer_proofs`, for every set of volumes, snapshots, shares and handlers, every placement of
the volumes, every depth to which the kernel stacks mounts, and every number of timeouts, restarts
and errors, from `ControllerAssumption` (volumes are no snapshots, each snapshot has a volume, `None` is
neither, scenarios have their types):

| theorem | statement |
|---|---|
| `TypeCorrect` | `Spec => []TypeOK` |
| `VolumesAreOnTheShare` | `Spec => []VolumesOnShare` |
| `NoRestoreIsLate` | `Spec => []NoLateRestore` |
| `SnapshotIsComplete` | `Spec => []SnapshotComplete` |
| `SourceIsDelivered` | `Spec => []SourceDelivered` |
| `NothingStaysMounted` | `Spec => []NothingLeftMounted` |

Handlers unmount by path, so none can rely on its own mount; the invariant counts instead. `Framed`:
a share's local directory has at least as many mounts on it as handlers between their mount and
their unmount of it (`SharesHeld`), so it stays mounted under each of them, whosever mounts go
first; that is why directories are made on the share (`DirsMade`), also after timeouts and errors. A
restart takes mounts and handlers at once. A sidecar waits for one handler of each object, and one
that has looked for its volume without a failure works on a volume that is not acknowledged
(`Prompt`), because only its own reply acknowledges it. While no call timed out there is no other
handler (`Single`). `Delivering`: the same count for the mounts of a volume's own directory in all
layers of the share's stack (`Slots`, against `Mounters`), for volumes no mount of which was stolen;
so a snapshot finds its volume while it packs (`Packing`: what it packed, if the walk was not cut
short, is all the volume held when the call began), and what a restore promises is on its way from
the archive or the source to the new volume (`Restoring`, `SourceHeld`). `IInv` adds what is mounted
exactly, call by call, while calls come one after the other and none fails (`Tidy`, `LeftBy`).

The attempt to prove `SourceDelivered` as it was first stated failed, and for a reason: on a kernel
that stacks mounts, a `ControllerPublishVolume` that mounts the share once more between a clone's
mount of its source and the copy hides the source below the new mount; the clone copies the empty
directory and is acknowledged with its source. It takes three volumes on two shares, more than the
run has, and TLC confirmed it there. The property now excludes exactly that case
(`scenario.stack = 1` for clones from another share).

`SnapshotList_proofs`, for every set of names, page size and number of changes, with finitely many
contents, from `ListAssumption` (names, page sizes and the bound are natural numbers):

| theorem | statement |
|---|---|
| `TypeCorrect` | `Spec => []TypeOK` |
| `NoSnapshotIsSkipped` | `Spec => []NoneSkipped` |
| `NoSnapshotIsRepeated` | `Spec => []NoneRepeated` |

Neither property is inductive: both are about where the next page starts. Without a creation what
was listed lies before it (`SeenBefore`), without a deletion what lies before it and was there all
the time was listed (`BeforeSeen`); positions only shrink under deletions and only grow under creations
(`PositionMoves`, from the cardinality theorems of the library).

Each inductive invariant was first checked by TLC on the instance of the run it belongs to.

Only model-checked: the liveness properties `TeardownAcknowledged`, `TeardownCompletes`,
`VolumeReleased`, `Provisioned`, `PagingEnds`, `PodsStart`, `TeardownEnds`, `ReleasedDeleted` and
`MeasurementEnds`, for the prover has no rules for fairness and `ENABLED`. Every other
property of a passing run is a theorem.

## 5. Abstractions and what is not modelled

- Request validation that depends on the request alone is a possible error of the first system call.
- Shares have different local names; two servers with shares of the same name would share a local
  directory. Volume names, which contain the claims' UIDs, do not come again.
- Of a volume, `NodeServer` and `ControllerServer` keep which files it has, not their contents;
  `NoLateRestore` is about the step that would overwrite them. `Snapshotter` keeps
  sizes, and neither file modes nor contents; the volume's own path is a folder, and names sort in
  the order of the walk.
- A file counts as written when `write` has taken it; an error that a network file system reports at
  `close` only is not modelled (the code ignores it on extraction).
- Whether a volume may be acknowledged without its requested source is decided by the provisioner, from
  the missing `ContentSource` (`ReplyCreated`); that is external.
- Archives are packed without the archives of earlier snapshots that lie in the same folder.
- Of the figures of `statfs` the model has those the verdict depends on; inode counts and usage are
  copied into the reply.
- `FlexVolume` takes the reclaim policy to be `Delete`, and every volume of the driver to be one the
  provisioner made. `init` and unknown operations answer constants. Mount options are left out.
- `Apdex`: what a chart looks like beside the colours.
- The controller part of `driver_simple`, the identity servers and `main.go` answer constants or echo
  their requests: there is no state to model. `Stop` of the drivers' servers is never called.

## 6. Plan

In this order, the most important behaviour first:

1. done: `NodeServer` with `VolumeAccess`, `NodeHealth`, `SimpleNode`, `ControllerServer`,
   `Snapshotter`, `SnapshotList`, `FlexVolume` and `Apdex`, each with proofs of its safety properties.
2. The safety half of liveness properties, as theorems about single steps: for `PagingEnds`, that every
   request moves the token on while no content is deleted; for `MeasurementEnds`, that no worker waits
   for an event that was before its watch, under the property's conditions; for `TeardownAcknowledged`,
   what a pod's path looks like when its teardown is retried.
3. An abstract specification of what a claim is promised by `ControllerServer`, with a proof that the
   controller implements it, from the invariant there is.
4. `Snapshotter`: contents of files (a version beside the size).
