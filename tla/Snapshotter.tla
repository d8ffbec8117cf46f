----------------------------- MODULE Snapshotter -----------------------------
(***************************************************************************)
(* smb-csi/driver/snapshotter: CreateSnapshot packs a volume's folder into *)
(* a tar archive, file by file, while pods go on writing to the volume;    *)
(* ExtractSnap unpacks the archive into a new volume and may be cut short  *)
(* and repeated by CreateVolume's retry. The walk is modelled one system   *)
(* call at a time over folders, regular files and symbolic links; of a file*)
(* the model keeps its size, of a link the size of what it leads to.       *)
(***************************************************************************)
EXTENDS Naturals, Sequences

CONSTANTS
  N,           \* paths have the names 1..N, in the order of the walk; 0 is the volume
  Parent,      \* the folder each path is in
  Folders,     \* paths that are folders
  Links,       \* paths that are symbolic links
  MaxSize,     \* sizes of files
  MaxChanges,  \* changes the pods make to the folder
  MaxErrors,   \* system calls of compress that fail on a path that is there
  MaxCrashes   \* extractions that are cut short

ASSUME SnapshotterAssumption ==
  /\ {N, MaxSize, MaxChanges, MaxErrors, MaxCrashes} \subseteq Nat
  /\ Folders \subseteq 1..N /\ Links \subseteq (1..N) \ Folders
  /\ Parent \in [1..N -> Folders \union {0}]
  /\ \A f \in 1..N : Parent[f] < f

VARIABLES
  size,      \* size of each path, 0 of a folder, Absent if there is none
  names,     \* names the walk has read and not visited yet
  folder,    \* the folder it reads next
  pc,        \* next step of CreateSnapshot, then of ExtractSnap
  archive,   \* the entries of the archive: name, size in the header, bytes written
  unread,    \* folders whose names could not be read
  steady,    \* paths that are there unchanged since the walk began
  disturbed, \* a file has grown while it was packed, or gone between two looks at it
  target,    \* size of each path in the new volume
  left,      \* entries that ExtractSnap has still to unpack
  changes, errors, crashes

walk == <<names, folder, pc, archive, unread, errors>>
dest == <<target, left, crashes>>
vars == <<size, walk, steady, disturbed, dest, changes>>

Names  == 1..N
Absent == MaxSize + 1

Entries == [name : Names, size : 0..MaxSize, bytes : 0..MaxSize]

TypeOK ==
  /\ size \in [Names -> 0..Absent]
  /\ names \subseteq Names
  /\ folder \in Folders \union {0}
  /\ pc \in {"readdir", "lstat", "open", "copy", "close", "failed", "extract", "restored", "refused"}
  /\ archive \in Seq(Entries)
  /\ unread \subseteq Folders \union {0}
  /\ steady \subseteq Names
  /\ disturbed \in BOOLEAN
  /\ target \in [Names -> 0..Absent]
  /\ left \in Seq(Entries)
  /\ changes \in 0..MaxChanges
  /\ errors \in 0..MaxErrors
  /\ crashes \in 0..MaxCrashes

Exists(f) == size[f] # Absent

Init ==
  /\ size \in [Names -> 0..Absent]
  /\ \A f \in Names : Exists(f) /\ Parent[f] # 0 => Exists(Parent[f])
  /\ \A f \in Folders : size[f] \in {0, Absent}
  /\ names = {}
  /\ folder = 0
  /\ pc = "readdir"
  /\ archive = <<>>
  /\ unread = {}
  /\ steady = {}
  /\ disturbed = FALSE
  /\ target = [f \in Names |-> Absent]
  /\ left = <<>>
  /\ changes = 0
  /\ errors = 0
  /\ crashes = 0

Last     == archive[Len(archive)]
Written  == archive # <<>> => Last.bytes = Last.size   \* tar's Flush succeeds
Archived == {archive[i].name : i \in DOMAIN archive}

-----------------------------------------------------------------------------
(* compress. An error inside the walk ends it, but not compress: what Walk *)
(* returns is dropped.                                                     *)

Entry(f) == [name |-> f, size |-> IF f \in Links THEN 0 ELSE size[f], bytes |-> 0]

Children(d) == {f \in Names : Parent[f] = d /\ Exists(f)}

(* A system call fails on a path that is there: EIO, EACCES, ESTALE.       *)
Fails == errors < MaxErrors /\ errors' = errors + 1

(* The callback does not look at the error Walk hands it: a folder whose   *)
(* names cannot be read is taken for an empty one. (Of the volume's folder,*)
(* this stands for a failed look at its path, too: nothing is packed.)     *)
ReadNames ==
  \/ names' = names \union Children(folder) /\ UNCHANGED <<unread, errors>>
  \/ Fails /\ unread' = unread \union {folder} /\ UNCHANGED names

(* Faulty variant: folders get no header. *)
ReaddirUnpacked ==
  /\ pc = "readdir"
  /\ ReadNames
  /\ steady' = IF folder = 0 THEN {f \in Names : Exists(f)} ELSE steady
  /\ pc' = IF Written THEN "lstat" ELSE "close"
  /\ UNCHANGED <<size, folder, archive, disturbed, dest, changes>>

(* filepath.Walk reads a folder's names, then calls back for the folder    *)
(* itself, which writes its header. A folder that is gone by now has no    *)
(* names and is packed as an empty one. (The volume's own header restores  *)
(* nothing and is left out.)                                               *)
Readdir ==
  /\ pc = "readdir"
  /\ ReadNames
  /\ steady' = IF folder = 0 THEN {f \in Names : Exists(f)} ELSE steady
  /\ IF Written
       THEN /\ archive' = IF folder = 0 THEN archive
                          ELSE Append(archive, [name |-> folder, size |-> 0, bytes |-> 0])
            /\ pc' = "lstat"
       ELSE pc' = "close" /\ UNCHANGED archive
  /\ UNCHANGED <<size, folder, disturbed, dest, changes>>

Stop == pc' = "close" /\ UNCHANGED <<archive, folder>>

(* The next name: a path that is gone, or an entry before it that came out *)
(* too short, ends the walk.                                               *)
Visit(f) ==
  IF Exists(f) /\ f \in Folders
    THEN folder' = f /\ pc' = "readdir" /\ UNCHANGED archive
  ELSE IF Exists(f) /\ Written
    THEN archive' = Append(archive, Entry(f)) /\ pc' = "open" /\ UNCHANGED folder
  ELSE Stop

First(f) == \A g \in names : f <= g

(* Faulty variant: a file that is empty ends the walk. *)
LstatStops ==
  /\ pc = "lstat"
  /\ \E f \in names :
       /\ First(f)
       /\ names' = names \ {f}
       /\ IF size[f] = 0 /\ f \notin Folders THEN Stop ELSE Visit(f)
  /\ UNCHANGED <<size, unread, steady, disturbed, dest, changes, errors>>

(* Faulty variant: a file that is empty is left out. *)
LstatOmits ==
  /\ pc = "lstat"
  /\ \E f \in names :
       /\ First(f)
       /\ names' = names \ {f}
       /\ IF size[f] = 0 /\ f \notin Folders
            THEN UNCHANGED <<archive, folder, pc>> ELSE Visit(f)
  /\ UNCHANGED <<size, unread, steady, disturbed, dest, changes, errors>>

(* A failed lstat ends the walk: there is nothing to make a header from.   *)
Lstat ==
  /\ pc = "lstat"
  /\ \E f \in names :
       /\ First(f)
       /\ names' = names \ {f}
       /\ \/ Visit(f) /\ UNCHANGED errors
          \/ Fails /\ Stop
  /\ UNCHANGED <<size, unread, steady, disturbed, dest, changes>>

Open ==
  /\ pc = "open"
  /\ \/ pc' = (IF Exists(Last.name) THEN "copy" ELSE "close") /\ UNCHANGED errors
     \/ Fails /\ pc' = "close"
  /\ UNCHANGED <<size, names, folder, archive, unread, steady, disturbed, dest, changes>>

(* io.Copy: tar takes no more bytes than the header says and fails on the  *)
(* rest, which ends the walk; fewer bytes are noticed later. The header of *)
(* a link says none, but what it leads to is copied. A failed read ends the*)
(* walk after part of the file.                                            *)
Copy ==
  LET now  == size[Last.name]
      most == IF now < Last.size THEN now ELSE Last.size
      Packed(bytes) == archive' = [archive EXCEPT ![Len(archive)].bytes = bytes]
  IN
  /\ pc = "copy"
  /\ \/ /\ Packed(most)
        /\ pc' = IF now > Last.size THEN "close" ELSE "lstat"
        /\ UNCHANGED errors
     \/ Fails /\ (\E part \in 0..most : Packed(part)) /\ pc' = "close"
  /\ UNCHANGED <<size, names, folder, unread, steady, disturbed, dest, changes>>

WalkEnds ==
  /\ pc = "lstat" /\ names = {}
  /\ pc' = "close"
  /\ UNCHANGED <<size, names, folder, archive, unread, steady, disturbed, dest, changes, errors>>

(* Faulty variant: the error of tar's Close is ignored. *)
CloseUnchecked ==
  /\ pc = "close"
  /\ pc' = "extract"
  /\ left' = archive
  /\ UNCHANGED <<size, names, folder, archive, unread, steady, disturbed, target, crashes, changes,
                 errors>>

(* tar's Close fails if the last entry is short; otherwise CreateSnapshot  *)
(* writes the archive and succeeds.                                        *)
Close ==
  /\ pc = "close"
  /\ pc' = IF Written THEN "extract" ELSE "failed"
  /\ left' = archive
  /\ UNCHANGED <<size, names, folder, archive, unread, steady, disturbed, target, crashes, changes,
                 errors>>

-----------------------------------------------------------------------------
(* ExtractSnap: each entry is written over the file of its name, which is  *)
(* created if missing and never truncated. A file needs its folder. Links  *)
(* are passed over.                                                        *)

(* Faulty variants: the file is opened for appending, without and with a   *)
(* quota of MaxSize.                                                       *)
OverwriteGrows(old, bytes) == IF old = Absent THEN bytes ELSE old + bytes

OverwriteAppends(old, bytes) ==
  IF old = Absent THEN bytes ELSE IF old + bytes < Absent THEN old + bytes ELSE MaxSize

Overwrite(old, bytes) == IF old = Absent \/ old < bytes THEN bytes ELSE old

Unpack(f, bytes) ==
  target' = IF f \in Links THEN target ELSE [target EXCEPT ![f] = Overwrite(@, bytes)]

Unpackable(f) ==
  f \notin Folders \union Links /\ Parent[f] # 0 => target[Parent[f]] # Absent

Extract ==
  /\ pc = "extract" /\ left # <<>>
  /\ IF Unpackable(Head(left).name)
       THEN Unpack(Head(left).name, Head(left).bytes) /\ left' = Tail(left) /\ UNCHANGED pc
       ELSE pc' = "refused" /\ UNCHANGED <<target, left>>
  /\ UNCHANGED <<size, names, folder, archive, unread, steady, disturbed, crashes, changes, errors>>

(* The driver dies, or a system call fails, with part of the next file     *)
(* written; CreateVolume is called again and starts over.                  *)
Crash ==
  /\ pc = "extract" /\ left # <<>> /\ crashes < MaxCrashes
  /\ Unpackable(Head(left).name)
  /\ \E part \in 0..Head(left).bytes : Unpack(Head(left).name, part)
  /\ left' = archive
  /\ crashes' = crashes + 1
  /\ UNCHANGED <<size, walk, steady, disturbed, changes>>

Restored ==
  /\ pc = "extract" /\ left = <<>>
  /\ pc' = "restored"
  /\ UNCHANGED <<size, names, folder, archive, unread, steady, disturbed, dest, changes, errors>>

-----------------------------------------------------------------------------
(* The pods. A file that compress has open is not deleted. *)

Change(f, to) ==
  /\ pc \in {"readdir", "lstat", "open", "copy"} /\ changes < MaxChanges
  /\ size' = [size EXCEPT ![f] = to]
  /\ steady' = steady \ {f}
  /\ changes' = changes + 1
  /\ UNCHANGED <<walk, dest>>

InHand(f) == pc \in {"open", "copy"} /\ Last.name = f

Create(f) == /\ ~Exists(f) /\ (Parent[f] # 0 => Exists(Parent[f]))
             /\ Change(f, 0) /\ UNCHANGED disturbed
Shrink(f) == /\ f \notin Folders \union Links /\ Exists(f) /\ size[f] > 0
             /\ Change(f, size[f] - 1) /\ UNCHANGED disturbed
Grow(f)   == /\ f \notin Folders \union Links /\ Exists(f) /\ size[f] < MaxSize
             /\ Change(f, size[f] + 1)
             /\ disturbed' = (disturbed \/ InHand(f))
Delete(f) == /\ Exists(f) /\ Children(f) = {} /\ ~(pc = "copy" /\ Last.name = f)
             /\ Change(f, Absent)
             /\ disturbed' = (disturbed \/ InHand(f) \/ f \in names)

-----------------------------------------------------------------------------

Next ==
  \/ Readdir \/ Lstat \/ Open \/ Copy \/ WalkEnds \/ Close
  \/ Extract \/ Crash \/ Restored
  \/ \E f \in Names : Create(f) \/ Shrink(f) \/ Grow(f) \/ Delete(f)

Spec == Init /\ [][Next]_vars

-----------------------------------------------------------------------------
(* Properties. *)

Succeeded == pc \in {"extract", "restored"}

(* A snapshot that succeeds has no entry shorter than its header says: a   *)
(* file that shrinks under the walk is noticed, however it is timed.       *)
NoShortEntry ==
  Succeeded => \A i \in DOMAIN archive : archive[i].bytes = archive[i].size

(* If no file grows while it is packed, none goes between the reading of   *)
(* its name and its opening, there are no links but to empty files, and no *)
(* system call fails, a snapshot that succeeds has everything that was     *)
(* there throughout, however else the pods change the folders meanwhile.   *)
QuietSnapshotComplete ==
  /\ Succeeded /\ ~disturbed /\ errors = 0
  /\ \A f \in Links : size[f] \in {0, Absent}
  => steady \subseteq Archived

(* What a successful snapshot misses of the paths that did not change is a *)
(* tail of the walk, across folders, too, and whatever fails; except that  *)
(* a folder whose names could not be read is there without its contents.   *)
(* Nothing else is left out before something that is packed.               *)
OnlyTailMissing ==
  Succeeded =>
    \A f \in steady, g \in Archived :
      f < g /\ Parent[f] \in Archived \union {0} => f \in Archived \/ Parent[f] \in unread

(* After any number of attempts cut short, the new volume holds exactly    *)
(* the archive's files with the archive's sizes, and its folders; and no   *)
(* attempt is refused for want of a file's folder.                         *)
RestoredExactly ==
  pc \in {"restored", "refused"} =>
    /\ pc = "restored"
    /\ \A i \in DOMAIN archive :
         archive[i].name \notin Links => target[archive[i].name] = archive[i].size
    /\ \A f \in Names \ (Archived \ Links) : target[f] = Absent

(* "walk through every file in the folder": a snapshot that succeeds has   *)
(* every file that was there, unchanged, from its beginning to its end.    *)
EveryFileWalked == Succeeded => steady \subseteq Archived

=============================================================================
