-------------------------- MODULE ControllerServer --------------------------
(***************************************************************************)
(* The controller half of smb-csi/driver (controller.go over mounter.go    *)
(* and snapshotter.go): CreateVolume, DeleteVolume,                        *)
(* ControllerPublishVolume, ControllerUnpublishVolume, CreateSnapshot and  *)
(* DeleteSnapshot as gRPC goroutines that interleave. All of them mount    *)
(* below the same local directories: a share on /csi-data-dir/<share>, a   *)
(* volume on /csi-data-dir/<share>/<volume>, so they act on each other's   *)
(* mounts.                                                                 *)
(*                                                                         *)
(* The CSI sidecars, the API server, the kernel and the SMB servers are    *)
(* external and modelled from the calls the driver takes and makes. A share*)
(* stands for its server too. Of a volume's data the model keeps which     *)
(* files it holds. System calls, lookups in the API server and the walk    *)
(* over a volume's files may fail at any of their steps.                   *)
(***************************************************************************)
EXTENDS Naturals, Sequences, FiniteSets

CONSTANTS
  Volumes,      \* volumes, named by their claims
  Shares,       \* SMB shares
  Snaps,        \* snapshots
  Handlers,     \* gRPC goroutines
  Files,        \* files pods write
  None,         \* no snapshot, no content source
  SnapOf,       \* the volume each snapshot is of
  Scenarios     \* what claims may ask for, and what may go wrong

(* A scenario names the share each volume lives on, from its storage       *)
(* class; the volume or snapshot its claim asks to be created from, or     *)
(* None; how often the kernel mounts one source on one path, at most; and, *)
(* one by one and in all, how many calls a sidecar gives up on while their *)
(* handler runs, how often the container is restarted, and how many system *)
(* calls and lookups fail for reasons of their own.                        *)
ASSUME ControllerAssumption ==
  /\ None \notin Volumes \union Snaps
  /\ Volumes \intersect Snaps = {}
  /\ SnapOf \in [Snaps -> Volumes]
  /\ Scenarios \subseteq
       [home : [Volumes -> Shares], source : [Volumes -> Volumes \union Snaps \union {None}],
        stack : Nat \ {0}, timeouts : Nat, crashes : Nat, errors : Nat, all : Nat]

VARIABLES
  mounts,    \* what is mounted on each share's local directory, newest first
  local,     \* directories made on the container's own disk
  dirs,      \* directories on each share
  files,     \* files in each volume
  archive,   \* each snapshot's archive in its volume, and the files it holds
  pc,        \* next system call of each handler
  job,       \* the request each handler serves and what it has in memory
  awaited,   \* handlers whose sidecar still waits
  claim,     \* life cycle of each volume's claim and of its PersistentVolume
  content,   \* life cycle of each snapshot and of its VolumeSnapshotContent
  owed,      \* files a bound volume or a ready snapshot was promised to hold
  scenario,  \* the scenario of this behaviour
  stolen,    \* volumes whose mount was removed by a handler that had not made it
  overlapped, \* calls have overlapped since the container started
  faults     \* timeouts, crashes and errors so far

kernel  == <<mounts, local>>
storage == <<dirs, files, archive>>
rpc     == <<pc, job, awaited>>
api     == <<claim, content, owed>>
context == <<scenario, stolen, overlapped>>
vars    == <<kernel, storage, rpc, api, context, faults>>

home   == scenario.home
source == scenario.source

Operations == {"create", "publish", "unpublish", "snapshot", "unsnapshot"}
Steps == {"get", "mount", "mkdir", "source", "vmkdir", "vmount", "extract", "copy", "vumount",
          "umount", "compress", "open", "write", "rmsnap"}

(* What a handler's reply promises (due); that CreateVolume's lookup of its*)
(* own volume failed although the volume was there (missed); the files     *)
(* packed, and that the walk over them ended early (cut); that the file    *)
(* written is on the share; and that CreateVolume sets the ContentSource of*)
(* its reply (full).                                                       *)
Jobs == [op : Operations, vol : Volumes, snap : Snaps \union {None}, due : SUBSET Files,
         missed : BOOLEAN, packed : SUBSET Files, cut : BOOLEAN, shared : BOOLEAN,
         full : BOOLEAN]

Job(op, v, s, due) ==
  [op |-> op, vol |-> v, snap |-> s, due |-> due, missed |-> FALSE,
   packed |-> {}, cut |-> FALSE, shared |-> FALSE, full |-> FALSE]

(* An archive is cut off in the writing (torn), or can be read to its end, *)
(* whether the walk that packed it saw every file or not (whole, part).    *)
Readable == {"part", "whole"}

TypeOK ==
  /\ mounts \in [Shares -> Seq([Volumes -> Nat])]
  /\ local \in [Shares -> SUBSET Volumes]
  /\ dirs \in [Shares -> SUBSET Volumes]
  /\ files \in [Volumes -> SUBSET Files]
  /\ archive \in [Snaps -> [state : {"none", "torn"} \union Readable, holds : SUBSET Files]]
  /\ pc \in [Handlers -> Steps \union {"idle"}]
  /\ job \in [Handlers -> Jobs \union {None}]
  /\ awaited \subseteq Handlers
  /\ claim \in [Volumes -> {"new", "bound", "deleted"}]
  /\ content \in [Snaps -> {"new", "created", "ready", "deleting", "deleted"}]
  /\ owed \in [Volumes \union Snaps -> SUBSET Files]
  /\ scenario \in Scenarios
  /\ stolen \subseteq Volumes
  /\ overlapped \in BOOLEAN
  /\ faults \in [timeouts : Nat, crashes : Nat, errors : Nat]

NoMounts == <<[v \in Volumes |-> 0]>>

Init ==
  /\ mounts = [n \in Shares |-> NoMounts]
  /\ local = [n \in Shares |-> {}]
  /\ dirs = [n \in Shares |-> {}]
  /\ files = [v \in Volumes |-> {}]
  /\ archive = [s \in Snaps |-> [state |-> "none", holds |-> {}]]
  /\ pc = [h \in Handlers |-> "idle"]
  /\ job = [h \in Handlers |-> None]
  /\ awaited = {}
  /\ claim = [v \in Volumes |-> "new"]
  /\ content = [s \in Snaps |-> "new"]
  /\ owed = [x \in Volumes \union Snaps |-> {}]
  /\ scenario \in Scenarios
  /\ stolen = {}
  /\ overlapped = FALSE
  /\ faults = [timeouts |-> 0, crashes |-> 0, errors |-> 0]

-----------------------------------------------------------------------------
(* The kernel's view of /csi-data-dir/<n> and /csi-data-dir/<n>/<v>. The   *)
(* element of mounts[n] that is seen is its head: the last element is the  *)
(* container's own disk, the others are mounts of the share; each counts   *)
(* the mounts made on its directory <v>, always of volume v.               *)

Top(n)     == Head(mounts[n])
Mounted(n) == Len(mounts[n]) > 1

(* The local path of v below n leads to v's own directory on its server.   *)
Reaches(n, v) == Top(n)[v] > 0 \/ (Mounted(n) /\ home[v] = n /\ v \in dirs[n])

(* The path exists. *)
Exists(n, v) == Reaches(n, v) \/ v \in IF Mounted(n) THEN dirs[n] ELSE local[n]

(* os.MkdirAll of the path: it goes to whatever is seen there. *)
MkdirAll(n, v) ==
  /\ dirs'  = IF Mounted(n) THEN [dirs EXCEPT ![n] = @ \union {v}] ELSE dirs
  /\ local' = IF Mounted(n) THEN local ELSE [local EXCEPT ![n] = @ \union {v}]

MountShare(n) ==
  /\ Len(mounts[n]) <= scenario.stack
  /\ mounts' = [mounts EXCEPT ![n] = NoMounts \o @]

(* Faulty variant: everything mounted on the share's directory goes at once. *)
UnmountShareAll(n) == mounts' = [mounts EXCEPT ![n] = NoMounts]

(* unmount(2) of a share refuses when a volume is mounted inside it.       *)
UnmountShare(n) ==
  mounts' = IF Mounted(n) /\ Top(n) = Head(NoMounts)
              THEN [mounts EXCEPT ![n] = Tail(@)] ELSE mounts

Mountable(n, v) ==
  /\ Exists(n, v) /\ v \in dirs[home[v]]
  /\ Top(n)[v] < scenario.stack

MountVolume(n, v) ==
  /\ Mountable(n, v)
  /\ mounts' = [mounts EXCEPT ![n] = <<[Top(n) EXCEPT ![v] = @ + 1]>> \o Tail(@)]

(* Faulty variant: a mount that is not there is taken off the count. *)
UnmountVolumeUnchecked(n, v) ==
  mounts' = [mounts EXCEPT ![n] = <<[Top(n) EXCEPT ![v] = @ - 1]>> \o Tail(@)]

UnmountVolume(n, v) ==
  mounts' = IF Top(n)[v] > 0
              THEN [mounts EXCEPT ![n] = <<[Top(n) EXCEPT ![v] = @ - 1]>> \o Tail(@)]
              ELSE mounts

-----------------------------------------------------------------------------
(* Handler control. *)

MayFail == faults.timeouts + faults.crashes + faults.errors < scenario.all

Error == /\ faults.errors < scenario.errors /\ MayFail
         /\ faults' = [faults EXCEPT !.errors = @ + 1]

(* A lookup in the API server errs when the object is not there. It may err*)
(* for another reason, and with the context of a call its sidecar has given*)
(* up on.                                                                  *)
NotFound(h, there) ==
  \/ (~there \/ h \notin awaited) /\ UNCHANGED faults
  \/ Error

At(h, ops, call) == pc[h] = call /\ job[h].op \in ops

GoTo(h, call) == pc' = [pc EXCEPT ![h] = call] /\ UNCHANGED <<awaited, api>>

(* The handler returns. *)
Finish(h) ==
  /\ pc' = [pc EXCEPT ![h] = "idle"]
  /\ job' = [job EXCEPT ![h] = None]
  /\ awaited' = awaited \ {h}

(* A reply that changes no object: after an error the sidecars retry, and  *)
(* what ControllerPublishVolume and ControllerUnpublishVolume achieve is   *)
(* not recorded here.                                                      *)
Reply(h) == Finish(h) /\ UNCHANGED api

(* The provisioner takes a volume whose requested content source is not in *)
(* the reply for a failure. A reply nobody waits for changes nothing.      *)
ReplyCreated(h, full) ==
  LET v == job[h].vol IN
  /\ Finish(h)
  /\ IF h \in awaited /\ claim[v] = "new" /\ (source[v] = None \/ full)
       THEN /\ claim' = [claim EXCEPT ![v] = "bound"]
            /\ owed'  = [owed EXCEPT ![v] = job[h].due]
       ELSE UNCHANGED <<claim, owed>>
  /\ UNCHANGED content

ReplySnapshot(h) ==
  LET s == job[h].snap IN
  /\ Finish(h)
  /\ IF h \in awaited /\ content[s] = "created"
       THEN /\ content' = [content EXCEPT ![s] = "ready"]
            /\ owed' = [owed EXCEPT ![s] = job[h].due]
       ELSE UNCHANGED <<content, owed>>
  /\ UNCHANGED claim

ReplySnapshotGone(h) ==
  LET s == job[h].snap IN
  /\ Finish(h)
  /\ content' = IF h \in awaited THEN [content EXCEPT ![s] = "deleted"] ELSE content
  /\ UNCHANGED <<claim, owed>>

(* The share a handler's local paths are below: CreateVolume uses the new  *)
(* volume's share for its source, too.                                     *)
Below(h) == home[job[h].vol]

(* The source volume of CreateVolume. *)
Origin(v) == IF source[v] \in Snaps THEN SnapOf[source[v]] ELSE source[v]

(* The volume a handler mounts, copies from or unmounts by name. *)
Subject(h) == IF job[h].op = "create" THEN Origin(job[h].vol) ELSE job[h].vol

Bound(v) == claim[v] = "bound"

-----------------------------------------------------------------------------
(* CreateVolume and ControllerPublishVolume: both mount the share, create  *)
(* the volume's directory and unmount the share.                           *)

Sharing == {"create", "publish"}

(* Faulty variant: the PersistentVolume is not looked for. *)
FindVolumeSkipped(h) ==
  /\ At(h, {"create"}, "get")
  /\ GoTo(h, "mount")
  /\ UNCHANGED <<job, kernel, storage, context, faults>>

(* Faulty variant: a PersistentVolume that is not there is an error. *)
FindVolumeStrict(h) ==
  /\ At(h, {"create"}, "get")
  /\ \/ Bound(job[h].vol) /\ ReplyCreated(h, TRUE) /\ UNCHANGED faults
     \/ NotFound(h, Bound(job[h].vol)) /\ Reply(h)
  /\ UNCHANGED <<kernel, storage, context>>

(* A PersistentVolume of that name ends CreateVolume at once. Every error  *)
(* of the lookup is taken for "there is none".                             *)
FindVolume(h) ==
  LET there == Bound(job[h].vol) IN
  /\ At(h, {"create"}, "get")
  /\ \/ there /\ ReplyCreated(h, TRUE) /\ UNCHANGED faults
     \/ /\ NotFound(h, there)
        /\ GoTo(h, "mount")
        /\ job' = [job EXCEPT ![h].missed = there]
  /\ UNCHANGED <<kernel, storage, context>>

(* Faulty variant: a share that is mounted already counts as mounted. *)
AuthMountShareTolerant(h) ==
  /\ At(h, Sharing, "mount")
  /\ \/ MountShare(Below(h)) /\ GoTo(h, "mkdir") /\ UNCHANGED <<job, faults>>
     \/ Mounted(Below(h)) /\ GoTo(h, "mkdir") /\ UNCHANGED <<mounts, job, faults>>
     \/ Error /\ Reply(h) /\ UNCHANGED mounts
  /\ UNCHANGED <<local, storage, context>>

AuthMountShare(h) ==
  /\ At(h, Sharing, "mount")
  /\ \/ MountShare(Below(h)) /\ GoTo(h, "mkdir") /\ UNCHANGED <<job, faults>>
     \/ Mounted(Below(h)) /\ Reply(h) /\ UNCHANGED <<mounts, faults>>
     \/ Error /\ Reply(h) /\ UNCHANGED mounts
  /\ UNCHANGED <<local, storage, context>>

(* Faulty variant: the error is not returned, as in driver_simple. *)
CreateDirUnchecked(h) ==
  /\ At(h, Sharing, "mkdir")
  /\ \/ MkdirAll(Below(h), job[h].vol) /\ UNCHANGED faults
     \/ Error /\ UNCHANGED <<local, dirs>>
  /\ GoTo(h, IF job[h].op = "create" THEN "source" ELSE "umount")
  /\ UNCHANGED <<mounts, files, archive, job, context>>

(* An error here leaves the share mounted. *)
CreateDir(h) ==
  /\ At(h, Sharing, "mkdir")
  /\ \/ /\ MkdirAll(Below(h), job[h].vol)
        /\ GoTo(h, IF job[h].op = "create" THEN "source" ELSE "umount")
        /\ UNCHANGED <<job, faults>>
     \/ Error /\ Reply(h) /\ UNCHANGED <<local, dirs>>
  /\ UNCHANGED <<mounts, files, archive, context>>

(* The switch on the content source. A snapshot that is not found is an    *)
(* error that leaves the share mounted; a source volume that is not found  *)
(* ends the switch. A source on another share is mounted first.            *)
SwitchSource(h) ==
  LET from  == source[job[h].vol]
      known == from \in Snaps => content[from] \notin {"new", "deleted"}
  IN
  /\ At(h, {"create"}, "source")
  /\ \/ from = None /\ GoTo(h, "umount") /\ UNCHANGED <<job, faults>>
     \/ from \in Snaps /\ NotFound(h, known) /\ Reply(h)
     \/ /\ from # None /\ known /\ NotFound(h, Bound(Subject(h)))
        /\ GoTo(h, "umount")
        /\ UNCHANGED job
     \/ /\ from # None /\ known /\ Bound(Subject(h))
        /\ GoTo(h, IF home[Subject(h)] # Below(h) THEN "vmkdir"
                   ELSE IF from \in Snaps THEN "extract" ELSE "copy")
        /\ UNCHANGED <<job, faults>>
  /\ UNCHANGED <<kernel, storage, context>>

(* Faulty variant: an error of ExtractSnap does not end the switch. *)
ExtractSnapUnchecked(h) ==
  LET v == job[h].vol
      s == source[v]
      found == Reaches(Below(h), Subject(h)) /\ archive[s].state \in Readable
  IN
  /\ At(h, {"create"}, "extract")
  /\ \/ /\ found /\ Reaches(Below(h), v)
        /\ files' = [files EXCEPT ![v] = @ \union archive[s].holds]
        /\ UNCHANGED faults
     \/ Error /\ UNCHANGED files
  /\ job' = [job EXCEPT ![h].full = TRUE]
  /\ GoTo(h, "umount")
  /\ UNCHANGED <<kernel, dirs, archive, context>>

(* ExtractSnap unpacks the archive into the new volume; a missing archive  *)
(* ends the switch. So does one cut short, unless it panics (see Panic).   *)
ExtractSnap(h) ==
  LET v == job[h].vol
      s == source[v]
      found == Reaches(Below(h), Subject(h)) /\ archive[s].state # "none"
  IN
  /\ At(h, {"create"}, "extract")
  /\ \/ /\ found /\ archive[s].state \in Readable
        /\ files' = IF Reaches(Below(h), v)
                      THEN [files EXCEPT ![v] = @ \union archive[s].holds] ELSE files
        /\ job' = [job EXCEPT ![h].full = TRUE]
        /\ UNCHANGED faults
     \/ /\ ~found \/ archive[s].state = "torn"
        /\ UNCHANGED <<files, job, faults>>
     \/ Error /\ UNCHANGED <<files, job>>
  /\ GoTo(h, "umount")
  /\ UNCHANGED <<kernel, dirs, archive, context>>

(* Faulty variant: source and destination are swapped. *)
CopyVolumeSwapped(h) ==
  LET v == job[h].vol IN
  /\ At(h, {"create"}, "copy")
  /\ Exists(Below(h), Subject(h))
  /\ files' = IF Reaches(Below(h), Subject(h)) /\ Reaches(Below(h), v)
                THEN [files EXCEPT ![Subject(h)] = @ \union files[v]] ELSE files
  /\ GoTo(h, "vumount")
  /\ UNCHANGED <<kernel, dirs, archive, job, context, faults>>

(* copy.Copy from the source volume's path, whatever that shows. *)
CopyVolume(h) ==
  LET v == job[h].vol IN
  /\ At(h, {"create"}, "copy")
  /\ \/ /\ Exists(Below(h), Subject(h))
        /\ files' = IF Reaches(Below(h), Subject(h)) /\ Reaches(Below(h), v)
                      THEN [files EXCEPT ![v] = @ \union files[Subject(h)]] ELSE files
        /\ GoTo(h, "vumount")
        /\ UNCHANGED faults
     \/ ~Exists(Below(h), Subject(h)) /\ GoTo(h, "umount") /\ UNCHANGED <<files, faults>>
     \/ Error /\ GoTo(h, "umount") /\ UNCHANGED files
  /\ UNCHANGED <<kernel, dirs, archive, job, context>>

(* Faulty variant: the share is left mounted. *)
UnmountBelowSkipped(h) ==
  /\ At(h, Sharing, "umount")
  /\ UNCHANGED <<mounts, faults>>
  /\ IF job[h].op = "create" THEN ReplyCreated(h, job[h].full) ELSE Reply(h)
  /\ UNCHANGED <<local, storage, context>>

UnmountBelow(h) ==
  /\ At(h, Sharing, "umount")
  /\ \/ UnmountShare(Below(h)) /\ UNCHANGED faults
     \/ Error /\ UNCHANGED mounts
  /\ IF job[h].op = "create" THEN ReplyCreated(h, job[h].full) ELSE Reply(h)
  /\ UNCHANGED <<local, storage, context>>

-----------------------------------------------------------------------------
(* CreateSnapshot, DeleteSnapshot and ControllerUnpublishVolume, and what  *)
(* CreateVolume shares with them: a volume mounted on, and unmounted from, *)
(* its own path below the share's.                                         *)

(* CreateSnapshot looks for a VolumeSnapshotContent named like the request *)
(* first; contents are named otherwise ("snapcontent-..." for the request  *)
(* "snapshot-..."), so it finds none. DeleteSnapshot takes every error of  *)
(* the volume's lookup for "already deleted": it replies success and leaves*)
(* the archive.                                                            *)
FindSource(h) ==
  LET there == Bound(job[h].vol)
      known == content[job[h].snap] \notin {"new", "deleted"}
  IN
  /\ At(h, {"snapshot", "unsnapshot", "unpublish"}, "get")
  /\ \/ /\ job[h].op = "unsnapshot" => known
        /\ there
        /\ GoTo(h, IF job[h].op = "unpublish" THEN "vumount" ELSE "vmkdir")
        /\ UNCHANGED <<job, faults>>
     \/ job[h].op # "unsnapshot" /\ NotFound(h, there) /\ Reply(h)
     \/ job[h].op = "unsnapshot" /\ NotFound(h, known) /\ Reply(h)
     \/ job[h].op = "unsnapshot" /\ known /\ NotFound(h, there) /\ ReplySnapshotGone(h)
  /\ UNCHANGED <<kernel, storage, context>>

(* A failed AuthMount of the source ends CreateVolume's switch; elsewhere  *)
(* it is an error.                                                         *)
AuthMountFails(h) ==
  IF job[h].op = "create" THEN GoTo(h, "umount") /\ UNCHANGED job ELSE Reply(h)

AuthMountMkdir(h) ==
  /\ At(h, Operations, "vmkdir")
  /\ \/ MkdirAll(Below(h), Subject(h)) /\ GoTo(h, "vmount") /\ UNCHANGED <<job, faults>>
     \/ Error /\ AuthMountFails(h) /\ UNCHANGED <<dirs, local>>
  /\ UNCHANGED <<mounts, files, archive, context>>

AuthMountVolume(h) ==
  LET next == [create     |-> IF source[job[h].vol] \in Snaps THEN "extract" ELSE "copy",
               snapshot   |-> "compress",
               unsnapshot |-> "rmsnap"] IN
  /\ At(h, DOMAIN next, "vmount")
  /\ \/ /\ MountVolume(Below(h), Subject(h))
        /\ GoTo(h, next[job[h].op])
        /\ UNCHANGED <<job, faults>>
     \/ /\ ~Mountable(Below(h), Subject(h)) \/ Top(Below(h))[Subject(h)] > 0
        /\ AuthMountFails(h)
        /\ UNCHANGED <<mounts, faults>>
     \/ Error /\ AuthMountFails(h) /\ UNCHANGED mounts
  /\ UNCHANGED <<local, storage, context>>

Walked(own, walked, there) == [own EXCEPT !.packed = walked, !.cut = (walked # there)]

(* compress reads what the volume's path shows. The walk ends at the first *)
(* file it cannot read, that has gone or that has grown, and its error is  *)
(* dropped: the archive is then of the files packed so far. What fails is  *)
(* the look at the path before the walk, and the closing of the archive    *)
(* when a file was shorter than its header says.                           *)
Compress(h) ==
  LET v == job[h].vol
      there == IF Reaches(Below(h), v) THEN files[v] ELSE {}
  IN
  /\ At(h, {"snapshot"}, "compress")
  /\ \/ /\ Exists(Below(h), v)
        /\ \E walked \in SUBSET there : job' = [job EXCEPT ![h] = Walked(@, walked, there)]
        /\ GoTo(h, "open")
        /\ UNCHANGED faults
     \/ ~Exists(Below(h), v) /\ Reply(h) /\ UNCHANGED faults
     \/ Error /\ Reply(h)
  /\ UNCHANGED <<kernel, storage, context>>

(* WriteFile empties the snapshot's file first. *)
OpenArchive(h) ==
  LET v == job[h].vol  s == job[h].snap IN
  /\ At(h, {"snapshot"}, "open")
  /\ \/ /\ Exists(Below(h), v)
        /\ job' = [job EXCEPT ![h].shared = Reaches(Below(h), v)]
        /\ archive' = IF Reaches(Below(h), v)
                        THEN [archive EXCEPT ![s] = [state |-> "torn", holds |-> {}]]
                        ELSE archive
        /\ GoTo(h, "write")
        /\ UNCHANGED faults
     \/ ~Exists(Below(h), v) /\ Reply(h) /\ UNCHANGED <<archive, faults>>
     \/ Error /\ Reply(h) /\ UNCHANGED archive
  /\ UNCHANGED <<kernel, dirs, files, context>>

Written(h) == [state |-> IF job[h].cut THEN "part" ELSE "whole", holds |-> job[h].packed]

(* Faulty variant: an error of WriteFile is not returned. *)
WriteArchiveUnchecked(h) ==
  LET s == job[h].snap IN
  /\ At(h, {"snapshot"}, "write")
  /\ \/ /\ archive' = IF job[h].shared THEN [archive EXCEPT ![s] = Written(h)] ELSE archive
        /\ UNCHANGED faults
     \/ Error /\ UNCHANGED archive
  /\ GoTo(h, "vumount")
  /\ UNCHANGED <<kernel, dirs, files, job, context>>

WriteArchive(h) ==
  LET s == job[h].snap IN
  /\ At(h, {"snapshot"}, "write")
  /\ \/ /\ archive' = IF job[h].shared THEN [archive EXCEPT ![s] = Written(h)] ELSE archive
        /\ GoTo(h, "vumount")
        /\ UNCHANGED <<job, faults>>
     \/ Error /\ Reply(h) /\ UNCHANGED archive
  /\ UNCHANGED <<kernel, dirs, files, context>>

(* An error of DeleteSnapshot's removal is a successful reply, with the    *)
(* volume left mounted.                                                    *)
RemoveArchive(h) ==
  LET s == job[h].snap IN
  /\ At(h, {"unsnapshot"}, "rmsnap")
  /\ \/ /\ archive' = IF Reaches(Below(h), job[h].vol)
                        THEN [archive EXCEPT ![s] = [state |-> "none", holds |-> {}]]
                        ELSE archive
        /\ GoTo(h, "vumount")
        /\ UNCHANGED <<job, faults>>
     \/ Error /\ ReplySnapshotGone(h) /\ UNCHANGED archive
  /\ UNCHANGED <<kernel, dirs, files, context>>

(* The unmounting handler has mounted the volume itself. *)
OwnMount(h) ==
  \/ job[h].op \in {"snapshot", "unsnapshot"}
  \/ job[h].op = "create" /\ home[Subject(h)] # Below(h)

(* Unmount of the volume's path removes what is mounted there, whoever     *)
(* mounted it; its error is logged only. CreateVolume goes on to unmount   *)
(* the share.                                                              *)
UnmountOwn(h) ==
  /\ At(h, Operations, "vumount")
  /\ \/ /\ UnmountVolume(Below(h), Subject(h))
        /\ stolen' = IF Top(Below(h))[Subject(h)] > 0 /\ ~OwnMount(h)
                       THEN stolen \union {Subject(h)} ELSE stolen
        /\ UNCHANGED faults
     \/ Error /\ UNCHANGED <<mounts, stolen>>
  /\ \/ /\ job[h].op = "create"
        /\ job' = [job EXCEPT ![h].full = TRUE]
        /\ GoTo(h, "umount")
     \/ job[h].op = "snapshot" /\ ReplySnapshot(h)
     \/ job[h].op = "unsnapshot" /\ ReplySnapshotGone(h)
     \/ job[h].op = "unpublish" /\ Reply(h)
  /\ UNCHANGED <<local, storage, scenario, overlapped>>

Serving(h, op) == pc[h] # "idle" /\ job[h].op = op

CreateVolume(h) ==
  /\ Serving(h, "create")
  /\ \/ FindVolume(h) \/ AuthMountShare(h) \/ CreateDir(h) \/ SwitchSource(h)
     \/ AuthMountMkdir(h) \/ AuthMountVolume(h)
     \/ ExtractSnap(h) \/ CopyVolume(h) \/ UnmountOwn(h)
     \/ UnmountBelow(h)

ControllerPublishVolume(h) ==
  Serving(h, "publish") /\ (AuthMountShare(h) \/ CreateDir(h) \/ UnmountBelow(h))

ControllerUnpublishVolume(h) ==
  Serving(h, "unpublish") /\ (FindSource(h) \/ UnmountOwn(h))

CreateSnapshot(h) ==
  /\ Serving(h, "snapshot")
  /\ \/ FindSource(h) \/ AuthMountMkdir(h) \/ AuthMountVolume(h)
     \/ Compress(h) \/ OpenArchive(h) \/ WriteArchive(h)
     \/ UnmountOwn(h)

DeleteSnapshot(h) ==
  /\ Serving(h, "unsnapshot")
  /\ \/ FindSource(h) \/ AuthMountMkdir(h) \/ AuthMountVolume(h)
     \/ RemoveArchive(h)
     \/ UnmountOwn(h)

Handler(h) ==
  \/ CreateVolume(h) \/ ControllerPublishVolume(h) \/ ControllerUnpublishVolume(h)
  \/ CreateSnapshot(h) \/ DeleteSnapshot(h)

-----------------------------------------------------------------------------
(* The sidecars: one call at a time for each object. *)

Call(op, v, s, due, first) ==
  /\ \A g \in awaited : <<job[g].op, job[g].vol, job[g].snap>> # <<op, v, s>>
  /\ \E h \in Handlers :
       /\ pc[h] = "idle"
       /\ pc' = [pc EXCEPT ![h] = first]
       /\ job' = [job EXCEPT ![h] = Job(op, v, s, due)]
       /\ awaited' = awaited \union {h}
       /\ overlapped' = (overlapped \/ \E g \in Handlers \ {h} : pc[g] # "idle")
  /\ UNCHANGED <<kernel, storage, api, scenario, stolen, faults>>

CallCreate(v) ==
  /\ claim[v] # "deleted"
  /\ \/ source[v] = None /\ Call("create", v, None, {}, "get")
     \/ /\ source[v] \in Snaps /\ content[source[v]] = "ready"
        /\ Call("create", v, None, archive[source[v]].holds, "get")
     \/ /\ source[v] \in Volumes /\ Bound(source[v])
        /\ Call("create", v, None, files[source[v]], "get")

CallPublish(v)   == Bound(v) /\ Call("publish", v, None, {}, "mount")
CallUnpublish(v) == claim[v] # "new" /\ Call("unpublish", v, None, {}, "get")

CallSnapshot(s) ==
  content[s] = "created" /\ Call("snapshot", SnapOf[s], s, files[SnapOf[s]], "get")
CallUnsnapshot(s) ==
  content[s] = "deleting" /\ Call("unsnapshot", SnapOf[s], s, {}, "get")

Sidecar ==
  \/ \E v \in Volumes : CallCreate(v) \/ CallPublish(v) \/ CallUnpublish(v)
  \/ \E s \in Snaps : CallSnapshot(s) \/ CallUnsnapshot(s)

-----------------------------------------------------------------------------
(* Users, pods and faults. *)

(* The claim is deleted; DeleteVolume succeeds and leaves the data. *)
DeleteVolume(v) ==
  /\ Bound(v)
  /\ claim' = [claim EXCEPT ![v] = "deleted"]
  /\ UNCHANGED <<kernel, storage, rpc, content, owed, context, faults>>

SnapshotRequested(s) ==
  /\ content[s] = "new" /\ Bound(SnapOf[s])
  /\ content' = [content EXCEPT ![s] = "created"]
  /\ UNCHANGED <<kernel, storage, rpc, claim, owed, context, faults>>

SnapshotUnwanted(s) ==
  /\ content[s] \in {"created", "ready"}
  /\ \A g \in awaited : job[g].snap # s
  /\ content' = [content EXCEPT ![s] = "deleting"]
  /\ UNCHANGED <<kernel, storage, rpc, claim, owed, context, faults>>

PodWrites(v, f) ==
  /\ Bound(v) /\ v \in dirs[home[v]]
  /\ files' = [files EXCEPT ![v] = @ \union {f}]
  /\ UNCHANGED <<kernel, dirs, archive, rpc, api, context, faults>>

(* A sidecar's deadline passes; the handler runs on. *)
Timeout(h) ==
  /\ h \in awaited /\ faults.timeouts < scenario.timeouts /\ MayFail
  /\ faults' = [faults EXCEPT !.timeouts = @ + 1]
  /\ awaited' = awaited \ {h}
  /\ UNCHANGED <<kernel, storage, pc, job, api, context>>

(* The container starts afresh: its mounts and its own disk are gone.      *)
Restart ==
  /\ mounts' = [n \in Shares |-> NoMounts]
  /\ local' = [n \in Shares |-> {}]
  /\ pc' = [h \in Handlers |-> "idle"]
  /\ job' = [h \in Handlers |-> None]
  /\ awaited' = {}
  /\ overlapped' = FALSE
  /\ UNCHANGED <<storage, api, scenario, stolen>>

Crash ==
  /\ faults.crashes < scenario.crashes /\ MayFail
  /\ faults' = [faults EXCEPT !.crashes = @ + 1]
  /\ Restart

(* decompress defers the closing of a reader it did not get, when not even *)
(* the header of the archive is there.                                     *)
Panic(h) ==
  /\ At(h, {"create"}, "extract")
  /\ Reaches(Below(h), Subject(h)) /\ archive[source[job[h].vol]].state = "torn"
  /\ Restart
  /\ UNCHANGED faults

-----------------------------------------------------------------------------

Next ==
  \/ \E h \in Handlers : Handler(h) \/ Panic(h) \/ Timeout(h)
  \/ Sidecar
  \/ \E v \in Volumes : DeleteVolume(v) \/ \E f \in Files : PodWrites(v, f)
  \/ \E s \in Snaps : SnapshotRequested(s) \/ SnapshotUnwanted(s)
  \/ Crash

Spec == Init /\ [][Next]_vars

(* Goroutines run and the provisioner retries. *)
Fairness ==
  /\ \A h \in Handlers : WF_vars(Handler(h))
  /\ \A v \in Volumes : SF_vars(CallCreate(v))

FairSpec == Spec /\ Fairness

-----------------------------------------------------------------------------
(* Properties. *)

(* A volume whose creation was acknowledged has its directory on its       *)
(* server, not on the container's disk: however calls overlap, no handler  *)
(* unmounts a share under another one that is about to create a directory. *)
VolumesOnShare == \A v \in Volumes : Bound(v) => v \in dirs[home[v]]

(* A ready snapshot has a readable archive on the share, although other    *)
(* calls mount and unmount the share and the volume meanwhile; and with    *)
(* every file the volume held when the call began, unless the walk over    *)
(* them ended early, the error that compress drops. Except that            *)
(* ControllerUnpublishVolume or a clone has removed a mount of the volume, *)
(* or a call timed out.                                                    *)
SnapshotComplete ==
  \A s \in Snaps :
    content[s] = "ready" /\ SnapOf[s] \notin stolen /\ faults.timeouts = 0 =>
      /\ archive[s].state \in Readable
      /\ archive[s].state = "whole" => owed[s] \subseteq archive[s].holds

(* A volume acknowledged with its content source holds what the source held*)
(* when the call began: the source volume its files, the snapshot what its *)
(* archive holds, which a walk cut short may have left incomplete. A failed*)
(* lookup, mount, extraction or copy is not taken for success. For a clone,*)
(* unless a mount of its source was removed, or share and source differ on *)
(* a kernel that stacks mounts: there a share mounted once more hides the  *)
(* source, and its empty directory is copied.                              *)
SourceDelivered ==
  \A v \in Volumes :
    /\ Bound(v) /\ source[v] # None /\ faults.timeouts = 0
    /\ source[v] \in Volumes =>
         source[v] \notin stolen /\ (home[source[v]] # home[v] => scenario.stack = 1)
    => owed[v] \subseteq files[v]

(* When calls came one after the other since the container started, none   *)
(* was given up on and no system call or lookup failed, nothing is left    *)
(* mounted; except below a share that volumes are restored on from another *)
(* one: such a restore never unmounts its source.                          *)
NothingLeftMounted ==
  /\ faults.errors = 0 /\ faults.timeouts = 0 /\ ~overlapped
  /\ \A h \in Handlers : pc[h] = "idle"
  => \A n \in Shares :
       (\A v \in Volumes : home[v] = n /\ source[v] \in Snaps => home[Origin(v)] = n)
         => mounts[n] = NoMounts

(* A CreateVolume called again for a volume that was acknowledged, as the  *)
(* provisioner does after a restart of its own or a lost reply, does not   *)
(* get as far as unpacking or copying over what pods have written since.   *)
(* Only a handler does whose call the provisioner has given up on, or whose*)
(* lookup failed although the volume was there.                            *)
NoLateRestore ==
  \A h \in Handlers :
    pc[h] \in {"extract", "copy"} /\ Bound(job[h].vol) => h \notin awaited \/ job[h].missed

(* CreateVolume and ControllerPublishVolume between their mount of the     *)
(* share and their unmount.                                                *)
Holds(h) ==
  /\ pc[h] \notin {"idle", "get", "mount"}
  /\ job[h].op \in Sharing

Holders(n) == {h \in Handlers : Holds(h) /\ Below(h) = n}

(* A share is mounted that no handler at work will unmount: its unmount    *)
(* failed, or was refused for a volume mounted inside it, or CreateVolume  *)
(* returned an error before it.                                            *)
Leaked(n) == Len(mounts[n]) > Cardinality(Holders(n)) + 1

(* Every claim without a source is served in the end, although overlapping *)
(* calls refuse one another's mount of the share, once no pods are attached*)
(* and no snapshots and copies are taken any more; or its share stays      *)
(* mounted for good by a handler that has gone, so that every later mount  *)
(* of it is refused until the container is restarted.                      *)
Provisioned ==
  <>[](\A h \in Handlers :
         pc[h] # "idle" => job[h].op = "create" /\ source[job[h].vol] = None)
    => \A v \in Volumes : source[v] = None => <>(claim[v] # "new") \/ <>[]Leaked(home[v])

(* "Return existing Snapshot if one exists": the archive of a ready        *)
(* snapshot is not written again.                                          *)
ReadySnapshotKept ==
  [][\A s \in Snaps :
       content[s] = "ready" /\ archive[s].state = "whole" => archive'[s] = archive[s]]_vars

=============================================================================
