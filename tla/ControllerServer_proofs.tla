----------------------- MODULE ControllerServer_proofs -----------------------
(***************************************************************************)
(* Proofs about ControllerServer: its type invariant, and the five safety  *)
(* invariants its run checks, from one inductive invariant. Mounts are     *)
(* counted against the handlers that made them, since handlers unmount by  *)
(* path and take each other's mounts.                                      *)
(***************************************************************************)
EXTENDS ControllerServer, FiniteSetTheorems, TLAPS

-----------------------------------------------------------------------------
(* What a handler has at hand at each of its calls. *)

Serves(op) ==
  CASE op = "create"     -> {"get", "mount", "mkdir", "source", "vmkdir", "vmount", "extract",
                             "copy", "vumount", "umount"}
    [] op = "publish"    -> {"mount", "mkdir", "umount"}
    [] op = "unpublish"  -> {"get", "vumount"}
    [] op = "snapshot"   -> {"get", "vmkdir", "vmount", "compress", "open", "write", "vumount"}
    [] op = "unsnapshot" -> {"get", "vmkdir", "vmount", "rmsnap", "vumount"}

OfSnapshot == {"snapshot", "unsnapshot"}

JobFits(h) ==
  /\ job[h] \in Jobs
  /\ pc[h] \in Serves(job[h].op)
  /\ job[h].op \in OfSnapshot => job[h].snap \in Snaps /\ job[h].vol = SnapOf[job[h].snap]
  /\ job[h].op \notin OfSnapshot => job[h].snap = None
  /\ job[h].op = "create" =>
       /\ pc[h] \in {"vmkdir", "vmount"} =>
            source[job[h].vol] # None /\ home[Origin(job[h].vol)] # home[job[h].vol]
       /\ pc[h] = "extract" => source[job[h].vol] \in Snaps
       /\ pc[h] \in {"copy", "vumount"} => source[job[h].vol] \in Volumes

(* A step of a handler, whichever operation it serves. *)
Works(h) ==
  \/ FindVolume(h) \/ AuthMountShare(h) \/ CreateDir(h) \/ SwitchSource(h)
  \/ ExtractSnap(h) \/ CopyVolume(h) \/ UnmountBelow(h)
  \/ FindSource(h) \/ AuthMountMkdir(h) \/ AuthMountVolume(h) \/ UnmountOwn(h)
  \/ Compress(h) \/ OpenArchive(h) \/ WriteArchive(h) \/ RemoveArchive(h)

Typed ==
  /\ TypeOK
  /\ \A n \in Shares : mounts[n] # <<>>
  /\ \A h \in awaited : pc[h] # "idle"
  /\ \A h \in Handlers : pc[h] # "idle" => JobFits(h)

-----------------------------------------------------------------------------
(* CreateVolume and ControllerPublishVolume, from their mount of the share *)
(* to their unmount: there is one mount for each of them.                  *)

SharesHeld ==
  \A n \in Shares :
    /\ IsFiniteSet(Holders(n)) /\ Cardinality(Holders(n)) < Len(mounts[n])
    /\ Len(mounts[n]) <= scenario.stack + 1

DirsMade ==
  \A h \in Handlers :
    Holds(h) /\ job[h].op = "create" /\ pc[h] # "mkdir" => job[h].vol \in dirs[home[job[h].vol]]

-----------------------------------------------------------------------------
(* A sidecar waits for one handler of each object at most, and a           *)
(* CreateVolume it waits for has found no volume, unless its lookup failed.*)

Ours(h) == <<job[h].op, job[h].vol, job[h].snap>>

OneAwaited == \A g, h \in awaited : Ours(g) = Ours(h) => g = h

NotAgain(h) == job[h].op = "create" /\ pc[h] # "get" /\ ~job[h].missed => ~Bound(job[h].vol)

Prompt == OneAwaited /\ \A h \in awaited : NotAgain(h)

-----------------------------------------------------------------------------
(* As long as no sidecar has given up on a call, it knows of every handler *)
(* that runs, and there is one for each object.                            *)

Known == faults.timeouts = 0

Single ==
  /\ \A h \in Handlers : pc[h] # "idle" => h \in awaited
  /\ \A g, h \in Handlers :
       /\ pc[g] # "idle" /\ pc[h] # "idle"
       /\ <<job[g].op, job[g].vol, job[g].snap>> = <<job[h].op, job[h].vol, job[h].snap>>
       => g = h
  /\ \A h \in Handlers : pc[h] # "idle" =>
       /\ job[h].op = "create" /\ source[job[h].vol] \in Snaps =>
            content[source[job[h].vol]] \in {"ready", "deleting", "deleted"}
       /\ job[h].op = "snapshot" => content[job[h].snap] = "created"
       /\ job[h].op = "unsnapshot" => content[job[h].snap] = "deleting"

-----------------------------------------------------------------------------
(* The single mounts of v below its own share, each by its layer, counted  *)
(* from the container's disk, and its number there.                        *)

Layer(q, i) == q[Len(q) + 1 - i]

SlotsIn(q, v) == UNION {{i} \X (1 .. Layer(q, i)[v]) : i \in 1 .. Len(q)}

Slots(v) == SlotsIn(mounts[home[v]], v)

(* CreateSnapshot and DeleteSnapshot between mount and unmount of v. *)
Mounters(v) ==
  {h \in Handlers :
     /\ pc[h] \notin {"idle", "get", "vmkdir", "vmount"}
     /\ job[h].op \in OfSnapshot /\ job[h].vol = v}

(* Unless a mount was stolen, there is one for each of them, though it     *)
(* need not be the one it made.                                            *)
VolumesHeld ==
  \A v \in Volumes :
    /\ IsFiniteSet(Slots(v)) /\ IsFiniteSet(Mounters(v))
    /\ v \notin stolen => Cardinality(Mounters(v)) <= Cardinality(Slots(v))

(* A clone's source from another share, where mounts do not stack. *)
SourceHeld ==
  \A h \in Handlers :
    /\ scenario.stack = 1
    /\ pc[h] = "copy" /\ home[Subject(h)] # Below(h)
    => Top(Below(h))[Subject(h)] > 0

-----------------------------------------------------------------------------
(* The data on its way. *)

Packing ==
  \A h \in Handlers :
    pc[h] # "idle" /\ job[h].op = "snapshot" =>
      LET v == job[h].vol  s == job[h].snap IN
      /\ job[h].due \subseteq files[v]
      /\ pc[h] # "get" => v \in dirs[home[v]]
      /\ v \notin stolen =>
           /\ pc[h] \in {"open", "write"} /\ ~job[h].cut => job[h].due \subseteq job[h].packed
           /\ pc[h] = "write" => job[h].shared
           /\ pc[h] = "vumount" =>
                /\ archive[s].state \in Readable
                /\ archive[s].state = "whole" => job[h].due \subseteq archive[s].holds

Restoring ==
  \A h \in Handlers :
    pc[h] # "idle" /\ job[h].op = "create" /\ source[job[h].vol] # None =>
      LET v == job[h].vol  from == source[v] IN
      /\ from \in Volumes => job[h].due \subseteq files[from]
      /\ from \in Snaps /\ archive[from].state \in Readable =>
           job[h].due \subseteq archive[from].holds
      /\ pc[h] \in {"vmkdir", "vmount", "extract", "copy"} => Origin(v) \in dirs[home[Origin(v)]]
      /\ /\ job[h].full \/ pc[h] = "vumount"
         /\ from \in Volumes => from \notin stolen
         /\ from \in Volumes /\ home[from] # home[v] => scenario.stack = 1
         => job[h].due \subseteq files[v]

-----------------------------------------------------------------------------
(* One call after the other, without errors. *)

Sequential == Known /\ faults.errors = 0 /\ ~overlapped

Bare == [v \in Volumes |-> 0]
With(v) == [Bare EXCEPT ![v] = 1]

(* No restore from another share leaves its source on this one. *)
Local(n) == \A v \in Volumes : home[v] = n /\ source[v] \in Snaps => home[Origin(v)] = n

(* What a handler leaves mounted on its share's directory until its next   *)
(* call, when there is no other handler.                                   *)
LeftBy(h, call) ==
  IF job[h].op \in Sharing /\ call \notin {"get", "mount"}
    THEN IF call \in {"copy", "vumount"} /\ home[Subject(h)] # Below(h)
           THEN <<With(Subject(h)), Bare>> ELSE <<Bare, Bare>>
    ELSE IF job[h].op \in OfSnapshot /\ call \notin {"get", "vmkdir", "vmount"}
           THEN <<With(job[h].vol)>> ELSE NoMounts

Tidy ==
  /\ \A g, h \in Handlers : pc[g] # "idle" /\ pc[h] # "idle" => g = h
  /\ \A n \in Shares : Local(n) =>
       /\ \A h \in Handlers : pc[h] # "idle" /\ Below(h) = n => mounts[n] = LeftBy(h, pc[h])
       /\ (\A h \in Handlers : pc[h] # "idle" => Below(h) # n) => mounts[n] = NoMounts
  /\ \A h \in Handlers :
       pc[h] # "idle" /\ job[h].op = "create" /\ source[job[h].vol] \in Snaps =>
         content[source[job[h].vol]] \in {"ready", "deleting"}

-----------------------------------------------------------------------------
(* The inductive invariant, in three parts of which each needs those       *)
(* before it.                                                              *)

Framed ==
  /\ Typed /\ SharesHeld /\ DirsMade /\ VolumesOnShare /\ Prompt
  /\ Known => Single

Delivering ==
  /\ Framed /\ VolumesHeld /\ SourceHeld
  /\ Known => Packing /\ SnapshotComplete /\ Restoring /\ SourceDelivered

IInv ==
  /\ Delivering
  /\ Sequential => Tidy

-----------------------------------------------------------------------------
(* Types. *)

RpcTyped ==
  /\ pc \in [Handlers -> Steps \union {"idle"}]
  /\ job \in [Handlers -> Jobs \union {None}]
  /\ awaited \subseteq Handlers
  /\ claim \in [Volumes -> {"new", "bound", "deleted"}]
  /\ content \in [Snaps -> {"new", "created", "ready", "deleting", "deleted"}]
  /\ owed \in [Volumes \union Snaps -> SUBSET Files]
  /\ \A h \in awaited : pc[h] # "idle"
  /\ \A h \in Handlers : pc[h] # "idle" => JobFits(h)

MountsTyped ==
  /\ mounts \in [Shares -> Seq([Volumes -> Nat])]
  /\ \A n \in Shares : mounts[n] # <<>>

StoreTyped ==
  /\ dirs \in [Shares -> SUBSET Volumes]
  /\ files \in [Volumes -> SUBSET Files]
  /\ archive \in [Snaps -> [state : {"none", "torn"} \union Readable, holds : SUBSET Files]]

ContextTyped ==
  /\ local \in [Shares -> SUBSET Volumes]
  /\ scenario \in Scenarios
  /\ stolen \subseteq Volumes
  /\ overlapped \in BOOLEAN
  /\ faults \in [timeouts : Nat, crashes : Nat, errors : Nat]

LEMMA TypedParts ==
  /\ Typed <=> RpcTyped /\ MountsTyped /\ StoreTyped /\ ContextTyped
  /\ Typed' <=> RpcTyped' /\ MountsTyped' /\ StoreTyped' /\ ContextTyped'
  BY DEF Typed, TypeOK, RpcTyped, MountsTyped, StoreTyped, ContextTyped

LEMMA ScenarioFacts ==
  ASSUME ContextTyped
  PROVE  /\ \A v \in Volumes : home[v] \in Shares
         /\ \A v \in Volumes : source[v] \in Volumes \union Snaps \union {None}
         /\ \A v \in Volumes : source[v] # None => Origin(v) \in Volumes
         /\ \A v \in Volumes : source[v] \in Snaps => source[v] # None /\ source[v] \notin Volumes
         /\ \A v \in Volumes : source[v] \in Volumes => source[v] # None /\ Origin(v) = source[v]
         /\ scenario.stack \in Nat \ {0}
  BY ControllerAssumption DEF ContextTyped, home, source, Origin

LEMMA ServesSteps == \A op \in Operations : Serves(op) \subseteq Steps
  BY DEF Operations, Serves, Steps

(* What the active handlers have in hand. *)
LEMMA JobFacts ==
  ASSUME RpcTyped, ContextTyped, NEW h \in Handlers, pc[h] # "idle"
  PROVE  /\ job[h] \in Jobs /\ job[h].op \in Operations /\ job[h].vol \in Volumes
         /\ job[h].due \subseteq Files /\ job[h].packed \subseteq Files /\ job[h].cut \in BOOLEAN
         /\ Below(h) \in Shares
         /\ job[h].op \in OfSnapshot => job[h].snap \in Snaps
         /\ job[h].op # "create" => Subject(h) = job[h].vol
         /\ job[h].op = "create" => Subject(h) = Origin(job[h].vol)
         /\ pc[h] \in {"vmkdir", "vmount", "extract", "copy", "vumount"} => Subject(h) \in Volumes
<1>1. JobFits(h)
  BY DEF RpcTyped
<1>2. /\ job[h] \in Jobs /\ job[h].op \in Operations /\ job[h].vol \in Volumes
      /\ job[h].due \subseteq Files /\ job[h].packed \subseteq Files /\ job[h].cut \in BOOLEAN
  BY <1>1 DEF JobFits, Jobs
<1>3. Below(h) \in Shares
  BY <1>2, ScenarioFacts DEF Below
<1>4. pc[h] \in {"vmkdir", "vmount", "extract", "copy", "vumount"} => Subject(h) \in Volumes
  BY <1>1, <1>2, ScenarioFacts DEF JobFits, Subject
<1> QED BY <1>1, <1>2, <1>3, <1>4 DEF JobFits, Subject

(* The next calls of a handler. *)
MayGoTo(h, call) ==
  /\ call \in Serves(job[h].op)
  /\ job[h].op = "create" =>
       /\ call \in {"vmkdir", "vmount"} =>
            source[job[h].vol] # None /\ home[Origin(job[h].vol)] # home[job[h].vol]
       /\ call = "extract" => source[job[h].vol] \in Snaps
       /\ call \in {"copy", "vumount"} => source[job[h].vol] \in Volumes

(* A step that keeps the request, and changes what else is in memory. *)
SameRequest(h) ==
  /\ \A g \in Handlers : g # h => job'[g] = job[g]
  /\ job'[h].op = job[h].op /\ job'[h].vol = job[h].vol /\ job'[h].snap = job[h].snap
  /\ job'[h].due = job[h].due

LEMMA KeepsRequest ==
  ASSUME RpcTyped, NEW h \in Handlers, pc[h] # "idle", NEW r \in Jobs, job' = [job EXCEPT ![h] = r],
         r.op = job[h].op, r.vol = job[h].vol, r.snap = job[h].snap, r.due = job[h].due
  PROVE  /\ SameRequest(h) /\ job' \in [Handlers -> Jobs \union {None}] /\ job'[h] \in Jobs
         /\ job'[h] = r
<1>1. job[h] \in Jobs /\ job \in [Handlers -> Jobs \union {None}]
  BY DEF RpcTyped, JobFits
<1>2. job'[h] = r /\ \A g \in Handlers : g # h => job'[g] = job[g]
  BY <1>1
<1>3. job' \in [Handlers -> Jobs \union {None}]
  BY <1>1
<1> QED BY <1>2, <1>3 DEF SameRequest

LEMMA SameRequestFacts ==
  ASSUME RpcTyped, NEW h \in Handlers, pc[h] # "idle"
  PROVE  /\ job' = job => SameRequest(h) /\ job' \in [Handlers -> Jobs \union {None}] /\ job'[h] \in Jobs
         /\ job' = [job EXCEPT ![h].full = TRUE] =>
              SameRequest(h) /\ job' \in [Handlers -> Jobs \union {None}] /\ job'[h] \in Jobs
         /\ \A b \in BOOLEAN : job' = [job EXCEPT ![h].shared = b] =>
              SameRequest(h) /\ job' \in [Handlers -> Jobs \union {None}] /\ job'[h] \in Jobs
         /\ \A b \in BOOLEAN : job' = [job EXCEPT ![h].missed = b] =>
              SameRequest(h) /\ job' \in [Handlers -> Jobs \union {None}] /\ job'[h] \in Jobs
<1>1. job[h] \in Jobs /\ job \in [Handlers -> Jobs \union {None}]
  BY DEF RpcTyped, JobFits
<1>2. job' = job => SameRequest(h) /\ job' \in [Handlers -> Jobs \union {None}] /\ job'[h] \in Jobs
  BY <1>1 DEF SameRequest
<1>3. ASSUME job' = [job EXCEPT ![h].full = TRUE]
      PROVE  SameRequest(h) /\ job' \in [Handlers -> Jobs \union {None}] /\ job'[h] \in Jobs
  <2> DEFINE r == [job[h] EXCEPT !.full = TRUE]
  <2>1. r \in Jobs /\ r.op = job[h].op /\ r.vol = job[h].vol /\ r.snap = job[h].snap /\ r.due = job[h].due
    BY <1>1 DEF Jobs
  <2>2. job' = [job EXCEPT ![h] = r]
    BY <1>3
  <2> HIDE DEF r
  <2> QED BY <2>1, <2>2, KeepsRequest
<1>4. ASSUME NEW b \in BOOLEAN, job' = [job EXCEPT ![h].shared = b]
      PROVE  SameRequest(h) /\ job' \in [Handlers -> Jobs \union {None}] /\ job'[h] \in Jobs
  <2> DEFINE r == [job[h] EXCEPT !.shared = b]
  <2>1. r \in Jobs /\ r.op = job[h].op /\ r.vol = job[h].vol /\ r.snap = job[h].snap /\ r.due = job[h].due
    BY <1>1 DEF Jobs
  <2>2. job' = [job EXCEPT ![h] = r]
    BY <1>4
  <2> HIDE DEF r
  <2> QED BY <2>1, <2>2, KeepsRequest
<1>5. ASSUME NEW b \in BOOLEAN, job' = [job EXCEPT ![h].missed = b]
      PROVE  SameRequest(h) /\ job' \in [Handlers -> Jobs \union {None}] /\ job'[h] \in Jobs
  <2> DEFINE r == [job[h] EXCEPT !.missed = b]
  <2>1. r \in Jobs /\ r.op = job[h].op /\ r.vol = job[h].vol /\ r.snap = job[h].snap /\ r.due = job[h].due
    BY <1>1 DEF Jobs
  <2>2. job' = [job EXCEPT ![h] = r]
    BY <1>5
  <2> HIDE DEF r
  <2> QED BY <2>1, <2>2, KeepsRequest
<1>6. job' = [job EXCEPT ![h].full = TRUE] =>
        SameRequest(h) /\ job' \in [Handlers -> Jobs \union {None}] /\ job'[h] \in Jobs
  BY <1>3
<1>7. \A b \in BOOLEAN : job' = [job EXCEPT ![h].shared = b] =>
        SameRequest(h) /\ job' \in [Handlers -> Jobs \union {None}] /\ job'[h] \in Jobs
  BY <1>4
<1>8. \A b \in BOOLEAN : job' = [job EXCEPT ![h].missed = b] =>
        SameRequest(h) /\ job' \in [Handlers -> Jobs \union {None}] /\ job'[h] \in Jobs
  BY <1>5
<1> QED BY <1>2, <1>6, <1>7, <1>8

LEMMA GoToTyped ==
  ASSUME RpcTyped, ContextTyped, scenario' = scenario, NEW h \in Handlers, pc[h] # "idle",
         NEW call, GoTo(h, call), MayGoTo(h, call), SameRequest(h),
         job' \in [Handlers -> Jobs \union {None}], job'[h] \in Jobs
  PROVE  RpcTyped'
<1>1. job[h].op \in Operations
  BY JobFacts
<1>2. call \in Steps /\ call # "idle"
  BY <1>1, ServesSteps DEF MayGoTo, Steps
<1>3. /\ pc'[h] = call /\ \A g \in Handlers : g # h => pc'[g] = pc[g]
      /\ pc' \in [Handlers -> Steps \union {"idle"}]
      /\ UNCHANGED <<awaited, claim, content, owed>>
  BY <1>2 DEF GoTo, RpcTyped, api
<1>4. ASSUME NEW g \in Handlers, pc'[g] # "idle" PROVE JobFits(g)'
  <2>1. CASE g = h
    <3>1. JobFits(h)
      BY DEF RpcTyped
    <3> QED BY <1>3, <2>1, <3>1 DEF MayGoTo, SameRequest, JobFits, Serves, home, source, Origin
  <2>2. CASE g # h
    <3>1. JobFits(g) /\ job'[g] = job[g] /\ pc'[g] = pc[g]
      BY <1>3, <1>4, <2>2 DEF RpcTyped, SameRequest
    <3> QED BY <3>1 DEF JobFits, Serves, home, source, Origin
  <2> QED BY <2>1, <2>2
<1>5. \A g \in awaited' : pc'[g] # "idle"
  BY <1>2, <1>3 DEF RpcTyped
<1> QED BY <1>3, <1>4, <1>5 DEF RpcTyped

LEMMA FinishTyped ==
  ASSUME RpcTyped, ContextTyped, scenario' = scenario, NEW h \in Handlers, Finish(h),
         claim' \in [Volumes -> {"new", "bound", "deleted"}],
         content' \in [Snaps -> {"new", "created", "ready", "deleting", "deleted"}],
         owed' \in [Volumes \union Snaps -> SUBSET Files]
  PROVE  RpcTyped'
<1>1. /\ pc'[h] = "idle" /\ \A g \in Handlers : g # h => pc'[g] = pc[g] /\ job'[g] = job[g]
      /\ pc' \in [Handlers -> Steps \union {"idle"}]
      /\ job' \in [Handlers -> Jobs \union {None}]
      /\ awaited' \subseteq Handlers
      /\ \A g \in awaited' : pc'[g] # "idle"
  BY DEF Finish, RpcTyped
<1>2. ASSUME NEW g \in Handlers, pc'[g] # "idle" PROVE JobFits(g)'
  <2>1. JobFits(g) /\ job'[g] = job[g] /\ pc'[g] = pc[g]
    BY <1>1, <1>2 DEF RpcTyped
  <2> QED BY <2>1 DEF JobFits, Serves, home, source, Origin
<1> QED BY <1>1, <1>2 DEF RpcTyped

LEMMA ReplyTyped ==
  ASSUME RpcTyped, ContextTyped, scenario' = scenario, NEW h \in Handlers, pc[h] # "idle"
  PROVE  /\ Reply(h) => RpcTyped'
         /\ \A full : ReplyCreated(h, full) => RpcTyped'
         /\ ReplySnapshot(h) /\ job[h].op \in OfSnapshot => RpcTyped'
         /\ ReplySnapshotGone(h) /\ job[h].op \in OfSnapshot => RpcTyped'
<1>1. /\ job[h].vol \in Volumes /\ job[h].due \in SUBSET Files
      /\ job[h].op \in OfSnapshot => job[h].snap \in Snaps
  BY JobFacts
<1>2. /\ claim \in [Volumes -> {"new", "bound", "deleted"}]
      /\ content \in [Snaps -> {"new", "created", "ready", "deleting", "deleted"}]
      /\ owed \in [Volumes \union Snaps -> SUBSET Files]
  BY DEF RpcTyped
<1>3. Reply(h) => RpcTyped'
  BY <1>2, FinishTyped DEF Reply, api
<1>4. ASSUME NEW full, ReplyCreated(h, full) PROVE RpcTyped'
  <2>1. claim' \in [Volumes -> {"new", "bound", "deleted"}] /\ content' = content
    BY <1>1, <1>2, <1>4 DEF ReplyCreated
  <2>2. owed' \in [Volumes \union Snaps -> SUBSET Files]
    BY <1>1, <1>2, <1>4 DEF ReplyCreated
  <2> QED BY <1>2, <1>4, <2>1, <2>2, FinishTyped DEF ReplyCreated
<1>5. ASSUME ReplySnapshot(h), job[h].op \in OfSnapshot PROVE RpcTyped'
  <2>1. content' \in [Snaps -> {"new", "created", "ready", "deleting", "deleted"}] /\ claim' = claim
    BY <1>1, <1>2, <1>5 DEF ReplySnapshot
  <2>2. owed' \in [Volumes \union Snaps -> SUBSET Files]
    BY <1>1, <1>2, <1>5 DEF ReplySnapshot
  <2> QED BY <1>2, <1>5, <2>1, <2>2, FinishTyped DEF ReplySnapshot
<1>6. ASSUME ReplySnapshotGone(h), job[h].op \in OfSnapshot PROVE RpcTyped'
  <2>1. content' \in [Snaps -> {"new", "created", "ready", "deleting", "deleted"}]
    BY <1>1, <1>2, <1>6 DEF ReplySnapshotGone
  <2> QED BY <1>2, <1>6, <2>1, FinishTyped DEF ReplySnapshotGone
<1> QED BY <1>3, <1>4, <1>5, <1>6

-----------------------------------------------------------------------------
(* The kernel: what the four mount operations do to the mounts of a share. *)

Elsewhere(n) == \A m \in Shares : m # n => mounts'[m] = mounts[m]

LEMMA LayerFacts ==
  ASSUME MountsTyped, NEW n \in Shares
  PROVE  /\ mounts[n] \in Seq([Volumes -> Nat]) /\ Len(mounts[n]) \in Nat /\ Len(mounts[n]) >= 1
         /\ \A i \in 1 .. Len(mounts[n]) : Layer(mounts[n], i) \in [Volumes -> Nat]
         /\ Top(n) = Layer(mounts[n], Len(mounts[n])) /\ Top(n) \in [Volumes -> Nat]
<1>1. mounts[n] \in Seq([Volumes -> Nat]) /\ mounts[n] # <<>>
  BY DEF MountsTyped
<1>2. Len(mounts[n]) \in Nat /\ Len(mounts[n]) >= 1
  BY <1>1
<1>3. \A j \in 1 .. Len(mounts[n]) : mounts[n][j] \in [Volumes -> Nat]
  BY <1>1
<1>4. Top(n) = mounts[n][1]
  BY <1>1 DEF Top
<1>5. \A i \in 1 .. Len(mounts[n]) : Len(mounts[n]) + 1 - i \in 1 .. Len(mounts[n])
  BY <1>2
<1>6. Len(mounts[n]) + 1 - Len(mounts[n]) = 1
  BY <1>2
<1> QED BY <1>1, <1>2, <1>3, <1>4, <1>5, <1>6 DEF Layer

LEMMA MountShareFacts ==
  ASSUME MountsTyped, NEW n \in Shares, MountShare(n)
  PROVE  /\ MountsTyped' /\ Elsewhere(n)
         /\ Len(mounts[n]) <= scenario.stack
         /\ mounts'[n] = <<Bare>> \o mounts[n]
         /\ Len(mounts'[n]) = Len(mounts[n]) + 1
         /\ \A i \in 1 .. Len(mounts[n]) : Layer(mounts'[n], i) = Layer(mounts[n], i)
         /\ Head(mounts'[n]) = Bare
<1>1. mounts \in [Shares -> Seq([Volumes -> Nat])]
  BY DEF MountsTyped
<1>2. /\ mounts[n] \in Seq([Volumes -> Nat])
      /\ mounts' = [mounts EXCEPT ![n] = <<Bare>> \o mounts[n]]
  BY <1>1 DEF MountShare, NoMounts, Bare
<1>3. Bare \in [Volumes -> Nat]
  BY DEF Bare
<1>4. <<Bare>> \o mounts[n] \in Seq([Volumes -> Nat]) /\ <<Bare>> \o mounts[n] # <<>>
  BY <1>2, <1>3
<1>5. mounts'[n] = <<Bare>> \o mounts[n] /\ Elsewhere(n)
  BY <1>1, <1>2 DEF Elsewhere
<1>6. mounts' \in [Shares -> Seq([Volumes -> Nat])]
  BY <1>1, <1>2, <1>4
<1>7. \A m \in Shares : mounts'[m] # <<>>
  BY <1>4, <1>5 DEF Elsewhere, MountsTyped
<1>8. Len(mounts'[n]) = Len(mounts[n]) + 1 /\ Len(mounts[n]) \in Nat
  BY <1>2, <1>3, <1>5
<1>9. \A j \in 1 .. Len(mounts[n]) : mounts'[n][j + 1] = mounts[n][j]
  BY <1>2, <1>3, <1>5, <1>8
<1>10. ASSUME NEW i \in 1 .. Len(mounts[n]) PROVE Layer(mounts'[n], i) = Layer(mounts[n], i)
  <2>1. Layer(mounts'[n], i) = mounts'[n][Len(mounts'[n]) + 1 - i]
    BY DEF Layer
  <2>2. Len(mounts'[n]) + 1 - i = (Len(mounts[n]) + 1 - i) + 1
    BY <1>8
  <2>3. Len(mounts[n]) + 1 - i \in 1 .. Len(mounts[n])
    BY <1>8
  <2> QED BY <1>9, <2>1, <2>2, <2>3 DEF Layer
<1>11. Head(mounts'[n]) = Bare
  BY <1>2, <1>3, <1>5
<1> QED BY <1>5, <1>6, <1>7, <1>8, <1>10, <1>11 DEF MountsTyped, MountShare

(* Below the one that is taken off, nothing is mounted on a volume. *)
LEMMA UnmountShareFacts ==
  ASSUME MountsTyped, NEW n \in Shares, UnmountShare(n)
  PROVE  /\ MountsTyped' /\ Elsewhere(n)
         /\ \/ mounts' = mounts /\ ~(Mounted(n) /\ Top(n) = Bare)
            \/ /\ Mounted(n) /\ Top(n) = Bare
               /\ mounts'[n] = Tail(mounts[n])
               /\ Len(mounts'[n]) = Len(mounts[n]) - 1
               /\ \A i \in 1 .. Len(mounts'[n]) : Layer(mounts'[n], i) = Layer(mounts[n], i)
<1>1. mounts \in [Shares -> Seq([Volumes -> Nat])]
  BY DEF MountsTyped
<1>2. mounts[n] \in Seq([Volumes -> Nat]) /\ mounts[n] # <<>>
  BY DEF MountsTyped
<1>3. Head(NoMounts) = Bare
  <2>1. Bare \in [Volumes -> Nat] /\ NoMounts = <<Bare>>
    BY DEF Bare, NoMounts
  <2> QED BY <2>1
<1>4. CASE ~(Mounted(n) /\ Top(n) = Bare)
  <2>1. mounts' = mounts
    BY <1>3, <1>4 DEF UnmountShare
  <2> QED BY <1>4, <2>1 DEF MountsTyped, Elsewhere
<1>5. CASE Mounted(n) /\ Top(n) = Bare
  <2>1. mounts' = [mounts EXCEPT ![n] = Tail(mounts[n])]
    BY <1>3, <1>5 DEF UnmountShare
  <2>2. mounts'[n] = Tail(mounts[n]) /\ Elsewhere(n)
    BY <1>1, <2>1 DEF Elsewhere
  <2>3. Len(mounts[n]) \in Nat /\ Len(mounts[n]) > 1
    BY <1>2, <1>5 DEF Mounted
  <2>4. Tail(mounts[n]) \in Seq([Volumes -> Nat]) /\ Len(Tail(mounts[n])) = Len(mounts[n]) - 1
    BY <1>2, <2>3
  <2>5. Tail(mounts[n]) # <<>>
    <3>1. Len(Tail(mounts[n])) > 0
      BY <2>3, <2>4
    <3>2. Len(<<>>) = 0
      OBVIOUS
    <3> QED BY <3>1, <3>2
  <2>6. mounts' \in [Shares -> Seq([Volumes -> Nat])]
    BY <1>1, <2>1, <2>4
  <2>7. MountsTyped'
    BY <2>2, <2>5, <2>6 DEF MountsTyped, Elsewhere
  <2>8. \A j \in 1 .. Len(mounts'[n]) : mounts'[n][j] = mounts[n][j + 1]
    BY <1>2, <2>2, <2>3, <2>4
  <2>9. ASSUME NEW i \in 1 .. Len(mounts'[n]) PROVE Layer(mounts'[n], i) = Layer(mounts[n], i)
    <3>1. Len(mounts'[n]) + 1 - i \in 1 .. Len(mounts'[n])
      BY <2>2, <2>3, <2>4
    <3>2. (Len(mounts'[n]) + 1 - i) + 1 = Len(mounts[n]) + 1 - i
      BY <2>2, <2>3, <2>4
    <3>3. Layer(mounts'[n], i) = mounts'[n][Len(mounts'[n]) + 1 - i]
      BY DEF Layer
    <3> QED BY <2>8, <3>1, <3>2, <3>3 DEF Layer
  <2> QED BY <1>5, <2>2, <2>4, <2>7, <2>9
<1> QED BY <1>4, <1>5

(* One more or one less of the mounts that are seen on a volume. *)
OnTop(n, v, c) ==
  /\ MountsTyped' /\ Elsewhere(n)
  /\ Len(mounts'[n]) = Len(mounts[n])
  /\ \A i \in 1 .. Len(mounts[n]) : i # Len(mounts[n]) => Layer(mounts'[n], i) = Layer(mounts[n], i)
  /\ Head(mounts'[n]) = [Top(n) EXCEPT ![v] = c]

LEMMA HeadFacts ==
  ASSUME MountsTyped, NEW n \in Shares, NEW v \in Volumes, NEW c \in Nat,
         mounts' = [mounts EXCEPT ![n] = <<[Top(n) EXCEPT ![v] = c]>> \o Tail(@)]
  PROVE  OnTop(n, v, c)
<1> DEFINE top == [Top(n) EXCEPT ![v] = c]
<1>1. mounts \in [Shares -> Seq([Volumes -> Nat])]
  BY DEF MountsTyped
<1>2. mounts[n] \in Seq([Volumes -> Nat]) /\ Len(mounts[n]) \in Nat /\ Len(mounts[n]) >= 1
  BY LayerFacts
<1>3. top \in [Volumes -> Nat]
  BY LayerFacts
<1>4. mounts' = [mounts EXCEPT ![n] = <<top>> \o Tail(mounts[n])]
  BY <1>1
<1> HIDE DEF top
<1>5. mounts'[n] = <<top>> \o Tail(mounts[n]) /\ Elsewhere(n)
  BY <1>1, <1>4 DEF Elsewhere
<1>6. Tail(mounts[n]) \in Seq([Volumes -> Nat]) /\ Len(Tail(mounts[n])) = Len(mounts[n]) - 1
  BY <1>2
<1>7. /\ <<top>> \o Tail(mounts[n]) \in Seq([Volumes -> Nat])
      /\ Len(<<top>> \o Tail(mounts[n])) = Len(mounts[n])
      /\ <<top>> \o Tail(mounts[n]) # <<>>
      /\ Head(<<top>> \o Tail(mounts[n])) = top
  BY <1>2, <1>3, <1>6
<1>8. mounts' \in [Shares -> Seq([Volumes -> Nat])]
  BY <1>1, <1>4, <1>7
<1>9. MountsTyped'
  BY <1>5, <1>7, <1>8 DEF MountsTyped, Elsewhere
<1>10. \A j \in 2 .. Len(mounts[n]) : mounts'[n][j] = mounts[n][j]
  <2>1. \A j \in 1 .. Len(mounts[n]) - 1 : Tail(mounts[n])[j] = mounts[n][j + 1]
    BY <1>2, <1>6
  <2>2. \A j \in 2 .. Len(mounts[n]) : (<<top>> \o Tail(mounts[n]))[j] = Tail(mounts[n])[j - 1]
    BY <1>2, <1>3, <1>6
  <2> QED BY <1>2, <1>5, <2>1, <2>2
<1>11. ASSUME NEW i \in 1 .. Len(mounts[n]), i # Len(mounts[n]) PROVE Layer(mounts'[n], i) = Layer(mounts[n], i)
  <2>1. Len(mounts[n]) + 1 - i \in 2 .. Len(mounts[n])
    BY <1>2, <1>11
  <2>2. Layer(mounts'[n], i) = mounts'[n][Len(mounts[n]) + 1 - i]
    BY <1>5, <1>7 DEF Layer
  <2> QED BY <1>10, <2>1, <2>2 DEF Layer
<1>12. Head(mounts'[n]) = top
  BY <1>5, <1>7
<1> QED BY <1>5, <1>7, <1>9, <1>11, <1>12 DEF OnTop, top

LEMMA MountVolumeFacts ==
  ASSUME MountsTyped, NEW n \in Shares, NEW v \in Volumes, MountVolume(n, v)
  PROVE  Top(n)[v] \in Nat /\ OnTop(n, v, Top(n)[v] + 1)
<1>1. Top(n)[v] \in Nat /\ Top(n) \in [Volumes -> Nat] /\ Top(n)[v] + 1 \in Nat
  BY LayerFacts
<1>2. mounts' = [mounts EXCEPT ![n] = <<[Top(n) EXCEPT ![v] = Top(n)[v] + 1]>> \o Tail(@)]
  BY <1>1 DEF MountVolume
<1> QED BY <1>1, <1>2, HeadFacts

LEMMA UnmountVolumeFacts ==
  ASSUME MountsTyped, NEW n \in Shares, NEW v \in Volumes, UnmountVolume(n, v)
  PROVE  /\ Top(n)[v] \in Nat
         /\ Top(n)[v] > 0 => OnTop(n, v, Top(n)[v] - 1)
         /\ ~(Top(n)[v] > 0) => mounts' = mounts
         /\ MountsTyped'
<1>1. Top(n)[v] \in Nat /\ Top(n) \in [Volumes -> Nat]
  BY LayerFacts
<1>2. CASE Top(n)[v] > 0
  <2>1. Top(n)[v] - 1 \in Nat
    BY <1>1, <1>2
  <2>2. mounts' = [mounts EXCEPT ![n] = <<[Top(n) EXCEPT ![v] = Top(n)[v] - 1]>> \o Tail(@)]
    BY <1>1, <1>2 DEF UnmountVolume
  <2>3. OnTop(n, v, Top(n)[v] - 1)
    BY <2>1, <2>2, HeadFacts
  <2> QED BY <1>1, <1>2, <2>3 DEF OnTop
<1>3. CASE ~(Top(n)[v] > 0)
  BY <1>1, <1>3 DEF UnmountVolume, MountsTyped
<1> QED BY <1>2, <1>3

-----------------------------------------------------------------------------
(* Every step keeps the types and the scenario, and directories, files,    *)
(* thefts and faults only get more.                                        *)

Grows ==
  /\ scenario' = scenario
  /\ \A n \in Shares : dirs[n] \subseteq dirs'[n]
  /\ \A v \in Volumes : files[v] \subseteq files'[v]
  /\ stolen \subseteq stolen'
  /\ faults'.timeouts >= faults.timeouts /\ faults'.errors >= faults.errors

LEMMA FaultFacts ==
  ASSUME ContextTyped
  PROVE  /\ faults \in [timeouts : Nat, crashes : Nat, errors : Nat]
         /\ Error => /\ faults' \in [timeouts : Nat, crashes : Nat, errors : Nat]
                     /\ faults'.timeouts = faults.timeouts /\ faults'.errors = faults.errors + 1
<1>1. faults \in [timeouts : Nat, crashes : Nat, errors : Nat]
  BY DEF ContextTyped
<1> QED BY <1>1 DEF Error

LEMMA MkdirFacts ==
  ASSUME Typed, NEW n \in Shares, NEW v \in Volumes, MkdirAll(n, v)
  PROVE  /\ dirs' \in [Shares -> SUBSET Volumes] /\ local' \in [Shares -> SUBSET Volumes]
         /\ \A m \in Shares : dirs[m] \subseteq dirs'[m]
         /\ Mounted(n) => v \in dirs'[n]
<1>1. dirs \in [Shares -> SUBSET Volumes] /\ local \in [Shares -> SUBSET Volumes]
  BY DEF Typed, TypeOK
<1>2. CASE Mounted(n)
  BY <1>1, <1>2 DEF MkdirAll
<1>3. CASE ~Mounted(n)
  BY <1>1, <1>3 DEF MkdirAll
<1> QED BY <1>2, <1>3

(* A step of a handler is one of its system calls: the next call is known, *)
(* or the handler is done.                                                 *)
LEMMA MoveTyped ==
  ASSUME Typed, scenario' = scenario, NEW h \in Handlers, pc[h] # "idle",
         NEW call, GoTo(h, call), MayGoTo(h, call), UNCHANGED job
  PROVE  RpcTyped'
<1>1. SameRequest(h) /\ job' \in [Handlers -> Jobs \union {None}] /\ job'[h] \in Jobs
  BY TypedParts, SameRequestFacts
<1> QED BY <1>1, TypedParts, GoToTyped

(* The lookups, each with what its answers lead to. *)
LEMMA LookupFaults ==
  ASSUME NEW h \in Handlers, NEW there, NotFound(h, there)
  PROVE  UNCHANGED faults \/ Error
  BY DEF NotFound

LEMMA FindVolumeSteps ==
  ASSUME NEW h \in Handlers, FindVolume(h)
  PROVE  /\ pc[h] = "get" /\ job[h].op = "create"
         /\ \/ Bound(job[h].vol) /\ ReplyCreated(h, TRUE)
            \/ GoTo(h, "mount") /\ job' = [job EXCEPT ![h].missed = Bound(job[h].vol)]
         /\ UNCHANGED faults \/ Error
         /\ UNCHANGED <<kernel, storage, context>>
  BY LookupFaults DEF FindVolume, At

(* What lookups and compress leave alone. *)
LEMMA QuietSteps ==
  ASSUME NEW h \in Handlers, FindVolume(h) \/ SwitchSource(h) \/ FindSource(h) \/ Compress(h)
  PROVE  UNCHANGED <<kernel, storage, context>>
  BY DEF FindVolume, SwitchSource, FindSource, Compress

(* What CreateVolume goes on to with the source it has found. *)
Leads(h) ==
  IF home[Subject(h)] # Below(h) THEN "vmkdir"
  ELSE IF source[job[h].vol] \in Snaps THEN "extract" ELSE "copy"

LEMMA SwitchSourceSteps ==
  ASSUME NEW h \in Handlers, SwitchSource(h)
  PROVE  /\ pc[h] = "source" /\ job[h].op = "create"
         /\ \/ source[job[h].vol] \in Snaps /\ Reply(h)
            \/ GoTo(h, "umount") /\ UNCHANGED job
            \/ /\ source[job[h].vol] # None /\ Bound(Subject(h))
               /\ GoTo(h, Leads(h)) /\ UNCHANGED job
         /\ UNCHANGED faults \/ Error
         /\ UNCHANGED <<kernel, storage, context>>
  BY LookupFaults DEF SwitchSource, At, Leads

LEMMA FindSourceSteps ==
  ASSUME NEW h \in Handlers, FindSource(h)
  PROVE  /\ pc[h] = "get" /\ job[h].op \in {"snapshot", "unsnapshot", "unpublish"}
         /\ \/ /\ Bound(job[h].vol) /\ UNCHANGED job
               /\ GoTo(h, IF job[h].op = "unpublish" THEN "vumount" ELSE "vmkdir")
            \/ Reply(h)
            \/ job[h].op = "unsnapshot" /\ ReplySnapshotGone(h)
         /\ UNCHANGED faults \/ Error
         /\ UNCHANGED <<kernel, storage, context>>
  BY LookupFaults DEF FindSource, At

LEMMA FindVolumeTyped ==
  ASSUME Typed, NEW h \in Handlers, FindVolume(h)
  PROVE  Typed' /\ Grows
<1>1. RpcTyped /\ MountsTyped /\ StoreTyped /\ ContextTyped
  BY TypedParts
<1>2. scenario' = scenario /\ pc[h] # "idle" /\ job[h].op = "create"
  BY FindVolumeSteps DEF context
<1>3. MayGoTo(h, "mount")
  BY <1>2 DEF MayGoTo, Serves
<1>4. RpcTyped'
  <2>1. CASE ReplyCreated(h, TRUE)
    BY <1>1, <1>2, <2>1, ReplyTyped
  <2>2. CASE GoTo(h, "mount") /\ job' = [job EXCEPT ![h].missed = Bound(job[h].vol)]
    <3>1. Bound(job[h].vol) \in BOOLEAN
      BY DEF Bound
    <3>2. SameRequest(h) /\ job' \in [Handlers -> Jobs \union {None}] /\ job'[h] \in Jobs
      BY <1>1, <1>2, <2>2, <3>1, SameRequestFacts
    <3> QED BY <1>1, <1>2, <1>3, <2>2, <3>2, GoToTyped
  <2> QED BY <2>1, <2>2, FindVolumeSteps
<1>5. /\ faults' \in [timeouts : Nat, crashes : Nat, errors : Nat]
      /\ faults'.timeouts >= faults.timeouts /\ faults'.errors >= faults.errors
  <2>1. UNCHANGED faults \/ Error
    BY FindVolumeSteps
  <2> QED BY <1>1, <2>1, FaultFacts
<1>6. MountsTyped' /\ StoreTyped' /\ ContextTyped' /\ Grows
  BY <1>1, <1>5, FindVolumeSteps DEF kernel, storage, context, MountsTyped, StoreTyped, ContextTyped, Grows
<1> QED BY <1>4, <1>6, TypedParts

LEMMA AuthMountShareTyped ==
  ASSUME Typed, NEW h \in Handlers, AuthMountShare(h)
  PROVE  Typed' /\ Grows
<1>1. RpcTyped /\ MountsTyped /\ StoreTyped /\ ContextTyped
  BY TypedParts
<1>2. scenario' = scenario /\ pc[h] # "idle" /\ job[h].op \in Sharing /\ Below(h) \in Shares
  BY <1>1, JobFacts DEF AuthMountShare, At, context
<1>3. MayGoTo(h, "mkdir")
  BY <1>2 DEF MayGoTo, Serves, Sharing
<1>4. RpcTyped'
  BY <1>1, <1>2, <1>3, MoveTyped, ReplyTyped DEF AuthMountShare
<1>5. MountsTyped'
  BY <1>1, <1>2, MountShareFacts DEF AuthMountShare, MountsTyped
<1>6. /\ faults' \in [timeouts : Nat, crashes : Nat, errors : Nat]
      /\ faults'.timeouts >= faults.timeouts /\ faults'.errors >= faults.errors
  BY <1>1, FaultFacts DEF AuthMountShare
<1>7. StoreTyped' /\ ContextTyped' /\ Grows
  BY <1>1, <1>6 DEF AuthMountShare, storage, context, StoreTyped, ContextTyped, Grows
<1> QED BY <1>4, <1>5, <1>7, TypedParts

LEMMA CreateDirTyped ==
  ASSUME Typed, NEW h \in Handlers, CreateDir(h)
  PROVE  Typed' /\ Grows
<1>1. RpcTyped /\ MountsTyped /\ StoreTyped /\ ContextTyped
  BY TypedParts
<1>2. /\ scenario' = scenario /\ pc[h] # "idle" /\ job[h].op \in Sharing
      /\ Below(h) \in Shares /\ job[h].vol \in Volumes
  BY <1>1, JobFacts DEF CreateDir, At, context
<1>3. MayGoTo(h, IF job[h].op = "create" THEN "source" ELSE "umount")
  BY <1>2 DEF MayGoTo, Serves, Sharing
<1>4. RpcTyped'
  BY <1>1, <1>2, <1>3, MoveTyped, ReplyTyped DEF CreateDir
<1>5. /\ dirs' \in [Shares -> SUBSET Volumes] /\ local' \in [Shares -> SUBSET Volumes]
      /\ \A m \in Shares : dirs[m] \subseteq dirs'[m]
  BY <1>1, <1>2, MkdirFacts DEF CreateDir, StoreTyped, ContextTyped
<1>6. /\ faults' \in [timeouts : Nat, crashes : Nat, errors : Nat]
      /\ faults'.timeouts >= faults.timeouts /\ faults'.errors >= faults.errors
  BY <1>1, FaultFacts DEF CreateDir
<1>7. MountsTyped' /\ StoreTyped' /\ ContextTyped' /\ Grows
  BY <1>1, <1>5, <1>6 DEF CreateDir, context, MountsTyped, StoreTyped, ContextTyped, Grows
<1> QED BY <1>4, <1>7, TypedParts

LEMMA SwitchSourceTyped ==
  ASSUME Typed, NEW h \in Handlers, SwitchSource(h)
  PROVE  Typed' /\ Grows
<1>1. RpcTyped /\ MountsTyped /\ StoreTyped /\ ContextTyped
  BY TypedParts
<1>2. scenario' = scenario /\ pc[h] # "idle" /\ job[h].op = "create"
  BY SwitchSourceSteps DEF context
<1>3. job[h].vol \in Volumes
  BY <1>1, <1>2, JobFacts
<1>4. MayGoTo(h, "umount")
  BY <1>2 DEF MayGoTo, Serves
<1>5. source[job[h].vol] # None => MayGoTo(h, Leads(h))
  <2>1. source[job[h].vol] \in Volumes \union Snaps \union {None}
    BY <1>1, <1>3, ScenarioFacts
  <2> QED BY <1>2, <2>1 DEF MayGoTo, Serves, Subject, Below, Leads
<1>6. RpcTyped'
  <2>1. CASE Reply(h)
    BY <1>1, <1>2, <2>1, ReplyTyped
  <2>2. ASSUME NEW call, GoTo(h, call), UNCHANGED job, MayGoTo(h, call) PROVE RpcTyped'
    BY <1>2, <2>2, MoveTyped
  <2> QED BY <1>4, <1>5, <2>1, <2>2, SwitchSourceSteps
<1>7. /\ faults' \in [timeouts : Nat, crashes : Nat, errors : Nat]
      /\ faults'.timeouts >= faults.timeouts /\ faults'.errors >= faults.errors
  BY <1>1, FaultFacts, SwitchSourceSteps
<1>8. MountsTyped' /\ StoreTyped' /\ ContextTyped' /\ Grows
  BY <1>1, <1>7, SwitchSourceSteps
  DEF kernel, storage, context, MountsTyped, StoreTyped, ContextTyped, Grows
<1> QED BY <1>6, <1>8, TypedParts

LEMMA ExtractSnapTyped ==
  ASSUME Typed, NEW h \in Handlers, ExtractSnap(h)
  PROVE  Typed' /\ Grows
<1>1. RpcTyped /\ MountsTyped /\ StoreTyped /\ ContextTyped
  BY TypedParts
<1>2. /\ scenario' = scenario /\ pc[h] = "extract" /\ job[h].op = "create"
      /\ job[h].vol \in Volumes /\ source[job[h].vol] \in Snaps
  BY <1>1, JobFacts DEF ExtractSnap, At, context, RpcTyped, JobFits
<1>3. MayGoTo(h, "umount")
  BY <1>2 DEF MayGoTo, Serves
<1>4. SameRequest(h) /\ job' \in [Handlers -> Jobs \union {None}] /\ job'[h] \in Jobs
  BY <1>1, <1>2, SameRequestFacts DEF ExtractSnap
<1>5. RpcTyped'
  BY <1>1, <1>2, <1>3, <1>4, GoToTyped DEF ExtractSnap
<1>6. files' \in [Volumes -> SUBSET Files] /\ \A v \in Volumes : files[v] \subseteq files'[v]
  <2>1. files \in [Volumes -> SUBSET Files] /\ archive[source[job[h].vol]].holds \subseteq Files
    BY <1>1, <1>2 DEF StoreTyped
  <2>2. \/ files' = files
        \/ files' = [files EXCEPT ![job[h].vol] = @ \union archive[source[job[h].vol]].holds]
    BY DEF ExtractSnap
  <2> QED BY <1>2, <2>1, <2>2
<1>7. /\ faults' \in [timeouts : Nat, crashes : Nat, errors : Nat]
      /\ faults'.timeouts >= faults.timeouts /\ faults'.errors >= faults.errors
  BY <1>1, FaultFacts DEF ExtractSnap
<1>8. MountsTyped' /\ StoreTyped' /\ ContextTyped' /\ Grows
  BY <1>1, <1>6, <1>7 DEF ExtractSnap, kernel, context, MountsTyped, StoreTyped, ContextTyped, Grows
<1> QED BY <1>5, <1>8, TypedParts

LEMMA CopyVolumeTyped ==
  ASSUME Typed, NEW h \in Handlers, CopyVolume(h)
  PROVE  Typed' /\ Grows
<1>1. RpcTyped /\ MountsTyped /\ StoreTyped /\ ContextTyped
  BY TypedParts
<1>2. /\ scenario' = scenario /\ pc[h] = "copy" /\ job[h].op = "create"
      /\ job[h].vol \in Volumes /\ source[job[h].vol] \in Volumes /\ Subject(h) \in Volumes
  BY <1>1, JobFacts DEF CopyVolume, At, context, RpcTyped, JobFits
<1>3. MayGoTo(h, "umount") /\ MayGoTo(h, "vumount")
  BY <1>2 DEF MayGoTo, Serves
<1>4. RpcTyped'
  BY <1>1, <1>2, <1>3, MoveTyped DEF CopyVolume
<1>5. files' \in [Volumes -> SUBSET Files] /\ \A v \in Volumes : files[v] \subseteq files'[v]
  <2>1. files \in [Volumes -> SUBSET Files] /\ files[Subject(h)] \subseteq Files
    BY <1>1, <1>2 DEF StoreTyped
  <2>2. \/ files' = files
        \/ files' = [files EXCEPT ![job[h].vol] = @ \union files[Subject(h)]]
    BY DEF CopyVolume
  <2> QED BY <1>2, <2>1, <2>2
<1>6. /\ faults' \in [timeouts : Nat, crashes : Nat, errors : Nat]
      /\ faults'.timeouts >= faults.timeouts /\ faults'.errors >= faults.errors
  BY <1>1, FaultFacts DEF CopyVolume
<1>7. MountsTyped' /\ StoreTyped' /\ ContextTyped' /\ Grows
  BY <1>1, <1>5, <1>6 DEF CopyVolume, kernel, context, MountsTyped, StoreTyped, ContextTyped, Grows
<1> QED BY <1>4, <1>7, TypedParts

LEMMA UnmountBelowTyped ==
  ASSUME Typed, NEW h \in Handlers, UnmountBelow(h)
  PROVE  Typed' /\ Grows
<1>1. RpcTyped /\ MountsTyped /\ StoreTyped /\ ContextTyped
  BY TypedParts
<1>2. scenario' = scenario /\ pc[h] # "idle" /\ Below(h) \in Shares
  BY <1>1, JobFacts DEF UnmountBelow, At, context
<1>3. RpcTyped'
  BY <1>1, <1>2, ReplyTyped DEF UnmountBelow
<1>4. MountsTyped'
  BY <1>1, <1>2, UnmountShareFacts DEF UnmountBelow, MountsTyped
<1>5. /\ faults' \in [timeouts : Nat, crashes : Nat, errors : Nat]
      /\ faults'.timeouts >= faults.timeouts /\ faults'.errors >= faults.errors
  BY <1>1, FaultFacts DEF UnmountBelow
<1>6. StoreTyped' /\ ContextTyped' /\ Grows
  BY <1>1, <1>5 DEF UnmountBelow, storage, context, StoreTyped, ContextTyped, Grows
<1> QED BY <1>3, <1>4, <1>6, TypedParts

LEMMA FindSourceTyped ==
  ASSUME Typed, NEW h \in Handlers, FindSource(h)
  PROVE  Typed' /\ Grows
<1>1. RpcTyped /\ MountsTyped /\ StoreTyped /\ ContextTyped
  BY TypedParts
<1>2. /\ scenario' = scenario /\ pc[h] # "idle"
      /\ job[h].op \in {"snapshot", "unsnapshot", "unpublish"}
  BY FindSourceSteps DEF context
<1> DEFINE next == IF job[h].op = "unpublish" THEN "vumount" ELSE "vmkdir"
<1>3. MayGoTo(h, next)
  BY <1>2 DEF MayGoTo, Serves
<1>4. RpcTyped'
  <2>1. CASE GoTo(h, next) /\ UNCHANGED job
    <3> HIDE DEF next
    <3> QED BY <1>2, <1>3, <2>1, MoveTyped
  <2>2. CASE Reply(h)
    BY <1>1, <1>2, <2>2, ReplyTyped
  <2>3. CASE job[h].op = "unsnapshot" /\ ReplySnapshotGone(h)
    BY <1>1, <1>2, <2>3, ReplyTyped DEF OfSnapshot
  <2> QED BY <2>1, <2>2, <2>3, FindSourceSteps
<1>5. /\ faults' \in [timeouts : Nat, crashes : Nat, errors : Nat]
      /\ faults'.timeouts >= faults.timeouts /\ faults'.errors >= faults.errors
  BY <1>1, FaultFacts, FindSourceSteps
<1>6. MountsTyped' /\ StoreTyped' /\ ContextTyped' /\ Grows
  BY <1>1, <1>5, FindSourceSteps DEF kernel, storage, context, MountsTyped, StoreTyped, ContextTyped, Grows
<1> QED BY <1>4, <1>6, TypedParts

(* Where an AuthMount of a volume is on its way. *)
LEMMA AuthMountFailsTyped ==
  ASSUME Typed, scenario' = scenario, NEW h \in Handlers, pc[h] # "idle", AuthMountFails(h)
  PROVE  RpcTyped'
<1>1. CASE job[h].op = "create"
  <2>1. MayGoTo(h, "umount")
    BY <1>1 DEF MayGoTo, Serves
  <2> QED BY <1>1, <2>1, MoveTyped DEF AuthMountFails
<1>2. CASE job[h].op # "create"
  BY <1>2, TypedParts, ReplyTyped DEF AuthMountFails
<1> QED BY <1>1, <1>2

LEMMA AuthMountMkdirTyped ==
  ASSUME Typed, NEW h \in Handlers, AuthMountMkdir(h)
  PROVE  Typed' /\ Grows
<1>1. RpcTyped /\ MountsTyped /\ StoreTyped /\ ContextTyped
  BY TypedParts
<1>2. scenario' = scenario /\ pc[h] = "vmkdir"
  BY DEF AuthMountMkdir, At, context
<1>3. Below(h) \in Shares /\ Subject(h) \in Volumes /\ JobFits(h) /\ job[h].op \in Operations
  BY <1>1, <1>2, JobFacts DEF RpcTyped
<1>4. MayGoTo(h, "vmount")
  <2>1. job[h].op \in {"create", "snapshot", "unsnapshot"}
    BY <1>2, <1>3 DEF JobFits, Serves, Operations
  <2> QED BY <1>2, <1>3, <2>1 DEF JobFits, MayGoTo, Serves
<1>5. RpcTyped'
  BY <1>2, <1>4, MoveTyped, AuthMountFailsTyped DEF AuthMountMkdir
<1>6. /\ dirs' \in [Shares -> SUBSET Volumes] /\ local' \in [Shares -> SUBSET Volumes]
      /\ \A m \in Shares : dirs[m] \subseteq dirs'[m]
  BY <1>1, <1>3, MkdirFacts DEF AuthMountMkdir, StoreTyped, ContextTyped
<1>7. /\ faults' \in [timeouts : Nat, crashes : Nat, errors : Nat]
      /\ faults'.timeouts >= faults.timeouts /\ faults'.errors >= faults.errors
  BY <1>1, FaultFacts DEF AuthMountMkdir
<1>8. MountsTyped' /\ StoreTyped' /\ ContextTyped' /\ Grows
  BY <1>1, <1>6, <1>7 DEF AuthMountMkdir, context, MountsTyped, StoreTyped, ContextTyped, Grows
<1> QED BY <1>5, <1>8, TypedParts

(* What follows the mount of a volume. *)
Beyond(h) ==
  IF job[h].op = "create" THEN IF source[job[h].vol] \in Snaps THEN "extract" ELSE "copy"
  ELSE IF job[h].op = "snapshot" THEN "compress" ELSE "rmsnap"

LEMMA AuthMountVolumeSteps ==
  ASSUME NEW h \in Handlers, AuthMountVolume(h)
  PROVE  /\ pc[h] = "vmount" /\ job[h].op \in {"create", "snapshot", "unsnapshot"}
         /\ \/ /\ MountVolume(Below(h), Subject(h)) /\ GoTo(h, Beyond(h)) /\ UNCHANGED <<job, faults>>
            \/ AuthMountFails(h) /\ UNCHANGED <<mounts, faults>>
            \/ Error /\ AuthMountFails(h) /\ UNCHANGED mounts
         /\ UNCHANGED <<local, storage, context>>
  BY DEF AuthMountVolume, At, Beyond

LEMMA AuthMountVolumeTyped ==
  ASSUME Typed, NEW h \in Handlers, AuthMountVolume(h)
  PROVE  Typed' /\ Grows
<1>1. RpcTyped /\ MountsTyped /\ StoreTyped /\ ContextTyped
  BY TypedParts
<1>2. /\ scenario' = scenario /\ pc[h] = "vmount"
      /\ job[h].op \in {"create", "snapshot", "unsnapshot"}
  BY AuthMountVolumeSteps DEF context
<1>3. Below(h) \in Shares /\ Subject(h) \in Volumes /\ JobFits(h) /\ job[h].vol \in Volumes
  BY <1>1, <1>2, JobFacts DEF RpcTyped
<1>4. MayGoTo(h, Beyond(h))
  <2>1. CASE job[h].op = "create"
    <3>1. source[job[h].vol] \in Volumes \union Snaps /\ source[job[h].vol] # None
      BY <1>1, <1>2, <1>3, <2>1, ScenarioFacts DEF JobFits
    <3> QED BY <1>2, <2>1, <3>1 DEF MayGoTo, Serves, Beyond
  <2>2. CASE job[h].op # "create"
    BY <1>2, <2>2 DEF MayGoTo, Serves, Beyond
  <2> QED BY <2>1, <2>2
<1>5. RpcTyped'
  <2> HIDE DEF Beyond
  <2> QED BY <1>2, <1>4, MoveTyped, AuthMountFailsTyped, AuthMountVolumeSteps
<1>6. MountsTyped'
  <2>1. MountVolume(Below(h), Subject(h)) => MountsTyped'
    BY <1>1, <1>3, MountVolumeFacts DEF OnTop
  <2> QED BY <1>1, <2>1, AuthMountVolumeSteps DEF MountsTyped
<1>7. /\ faults' \in [timeouts : Nat, crashes : Nat, errors : Nat]
      /\ faults'.timeouts >= faults.timeouts /\ faults'.errors >= faults.errors
  BY <1>1, FaultFacts, AuthMountVolumeSteps
<1>8. StoreTyped' /\ ContextTyped' /\ Grows
  BY <1>1, <1>7, AuthMountVolumeSteps DEF storage, context, StoreTyped, ContextTyped, Grows
<1> QED BY <1>5, <1>6, <1>8, TypedParts

LEMMA UnmountOwnTyped ==
  ASSUME Typed, NEW h \in Handlers, UnmountOwn(h)
  PROVE  Typed' /\ Grows
<1>1. RpcTyped /\ MountsTyped /\ StoreTyped /\ ContextTyped
  BY TypedParts
<1>2. scenario' = scenario /\ pc[h] = "vumount"
  BY DEF UnmountOwn, At
<1>3. Below(h) \in Shares /\ Subject(h) \in Volumes
  BY <1>1, <1>2, JobFacts
<1>4. RpcTyped'
  <2>1. CASE job[h].op = "create"
    <3>1. job' = [job EXCEPT ![h].full = TRUE] /\ GoTo(h, "umount")
      BY <2>1 DEF UnmountOwn
    <3>2. SameRequest(h) /\ job' \in [Handlers -> Jobs \union {None}] /\ job'[h] \in Jobs
      BY <1>1, <1>2, <3>1, SameRequestFacts
    <3>3. MayGoTo(h, "umount")
      BY <2>1 DEF MayGoTo, Serves
    <3> QED BY <1>1, <1>2, <3>1, <3>2, <3>3, GoToTyped
  <2>2. CASE job[h].op # "create"
    BY <1>1, <1>2, <2>2, ReplyTyped DEF UnmountOwn, OfSnapshot
  <2> QED BY <2>1, <2>2
<1>5. MountsTyped'
  BY <1>1, <1>3, UnmountVolumeFacts DEF UnmountOwn, MountsTyped
<1>6. stolen' \subseteq Volumes /\ stolen \subseteq stolen'
  BY <1>1, <1>3 DEF UnmountOwn, ContextTyped
<1>7. /\ faults' \in [timeouts : Nat, crashes : Nat, errors : Nat]
      /\ faults'.timeouts >= faults.timeouts /\ faults'.errors >= faults.errors
  BY <1>1, FaultFacts DEF UnmountOwn
<1>8. StoreTyped' /\ ContextTyped' /\ Grows
  BY <1>1, <1>6, <1>7 DEF UnmountOwn, storage, StoreTyped, ContextTyped, Grows
<1> QED BY <1>4, <1>5, <1>8, TypedParts

(* What the walk over the volume's path may see. *)
Shown(h) == IF Reaches(Below(h), job[h].vol) THEN files[job[h].vol] ELSE {}

LEMMA CompressSteps ==
  ASSUME NEW h \in Handlers, Compress(h)
  PROVE  /\ pc[h] = "compress" /\ job[h].op = "snapshot"
         /\ \/ /\ Exists(Below(h), job[h].vol) /\ GoTo(h, "open") /\ UNCHANGED faults
               /\ \E walked \in SUBSET Shown(h) :
                    job' = [job EXCEPT ![h] = Walked(job[h], walked, Shown(h))]
            \/ ~Exists(Below(h), job[h].vol) /\ Reply(h) /\ UNCHANGED faults
            \/ Error /\ Reply(h)
         /\ UNCHANGED <<kernel, storage, context>>
  BY DEF Compress, At, Shown

LEMMA CompressPacks ==
  ASSUME Typed, NEW h \in Handlers, Compress(h)
  PROVE  \/ Reply(h)
         \/ /\ GoTo(h, "open") /\ SameRequest(h)
            /\ job' \in [Handlers -> Jobs \union {None}] /\ job'[h] \in Jobs
            /\ job'[h].full = job[h].full /\ job'[h].missed = job[h].missed
            /\ ~job'[h].cut => job'[h].packed = Shown(h)
<1>1. RpcTyped /\ StoreTyped /\ ContextTyped
  BY TypedParts
<1>2. pc[h] # "idle"
  BY CompressSteps
<1>3. job[h].vol \in Volumes /\ job[h] \in Jobs
  BY <1>1, <1>2, JobFacts
<1>4. Shown(h) \in SUBSET Files
  BY <1>1, <1>3 DEF StoreTyped, Shown
<1>5. ASSUME NEW walked \in SUBSET Shown(h), GoTo(h, "open"),
             job' = [job EXCEPT ![h] = Walked(job[h], walked, Shown(h))]
      PROVE  /\ SameRequest(h)
             /\ job' \in [Handlers -> Jobs \union {None}] /\ job'[h] \in Jobs
             /\ job'[h].full = job[h].full /\ job'[h].missed = job[h].missed
             /\ ~job'[h].cut => job'[h].packed = Shown(h)
  <2> DEFINE r == Walked(job[h], walked, Shown(h))
  <2>1. walked \in SUBSET Files /\ (walked # Shown(h)) \in BOOLEAN
    BY <1>4, <1>5
  <2>2. /\ r \in Jobs /\ r.op = job[h].op /\ r.vol = job[h].vol /\ r.snap = job[h].snap
        /\ r.due = job[h].due /\ r.full = job[h].full /\ r.missed = job[h].missed
        /\ r.packed = walked /\ r.cut = (walked # Shown(h))
    BY <1>3, <2>1 DEF Jobs, Walked
  <2>3. job' = [job EXCEPT ![h] = r]
    BY <1>5
  <2> HIDE DEF r
  <2>4. /\ SameRequest(h) /\ job' \in [Handlers -> Jobs \union {None}] /\ job'[h] \in Jobs
        /\ job'[h] = r
    BY <1>1, <1>2, <2>2, <2>3, KeepsRequest
  <2> QED BY <2>2, <2>4
<1> QED BY <1>5, CompressSteps

LEMMA CompressTyped ==
  ASSUME Typed, NEW h \in Handlers, Compress(h)
  PROVE  Typed' /\ Grows
<1>1. RpcTyped /\ MountsTyped /\ StoreTyped /\ ContextTyped
  BY TypedParts
<1>2. scenario' = scenario /\ pc[h] # "idle" /\ job[h].op = "snapshot"
  BY CompressSteps DEF context
<1>3. RpcTyped'
  <2>1. MayGoTo(h, "open")
    BY <1>2 DEF MayGoTo, Serves
  <2> QED BY <1>1, <1>2, <2>1, CompressPacks, GoToTyped, ReplyTyped
<1>4. /\ faults' \in [timeouts : Nat, crashes : Nat, errors : Nat]
      /\ faults'.timeouts >= faults.timeouts /\ faults'.errors >= faults.errors
  BY <1>1, FaultFacts, CompressSteps
<1>5. MountsTyped' /\ StoreTyped' /\ ContextTyped' /\ Grows
  BY <1>1, <1>4, CompressSteps DEF kernel, storage, context, MountsTyped, StoreTyped, ContextTyped, Grows
<1> QED BY <1>3, <1>5, TypedParts

LEMMA OpenArchiveTyped ==
  ASSUME Typed, NEW h \in Handlers, OpenArchive(h)
  PROVE  Typed' /\ Grows
<1>1. RpcTyped /\ MountsTyped /\ StoreTyped /\ ContextTyped
  BY TypedParts
<1>2. /\ scenario' = scenario /\ pc[h] # "idle" /\ job[h].op = "snapshot" /\ job[h].vol \in Volumes
      /\ job[h].snap \in Snaps
  BY <1>1, JobFacts DEF OpenArchive, At, context, OfSnapshot
<1>3. RpcTyped'
  <2>1. MayGoTo(h, "write")
    BY <1>2 DEF MayGoTo, Serves
  <2>2. Reaches(Below(h), job[h].vol) \in BOOLEAN
    BY DEF Reaches
  <2>3. \/ GoTo(h, "write") /\ SameRequest(h)
           /\ job' \in [Handlers -> Jobs \union {None}] /\ job'[h] \in Jobs
        \/ Reply(h)
    BY <1>1, <1>2, <2>2, SameRequestFacts DEF OpenArchive
  <2> QED BY <1>1, <1>2, <2>1, <2>3, GoToTyped, ReplyTyped
<1>4. archive' \in [Snaps -> [state : {"none", "torn"} \union Readable, holds : SUBSET Files]]
  <2>1. archive' = archive \/ archive' = [archive EXCEPT ![job[h].snap] = [state |-> "torn", holds |-> {}]]
    BY DEF OpenArchive
  <2>2. [state |-> "torn", holds |-> {}] \in [state : {"none", "torn"} \union Readable, holds : SUBSET Files]
    BY DEF Readable
  <2> QED BY <1>1, <1>2, <2>1, <2>2 DEF StoreTyped
<1>5. /\ faults' \in [timeouts : Nat, crashes : Nat, errors : Nat]
      /\ faults'.timeouts >= faults.timeouts /\ faults'.errors >= faults.errors
  BY <1>1, FaultFacts DEF OpenArchive
<1>6. MountsTyped' /\ StoreTyped' /\ ContextTyped' /\ Grows
  BY <1>1, <1>4, <1>5 DEF OpenArchive, kernel, context, MountsTyped, StoreTyped, ContextTyped, Grows
<1> QED BY <1>3, <1>6, TypedParts

LEMMA WriteArchiveTyped ==
  ASSUME Typed, NEW h \in Handlers, WriteArchive(h)
  PROVE  Typed' /\ Grows
<1>1. RpcTyped /\ MountsTyped /\ StoreTyped /\ ContextTyped
  BY TypedParts
<1>2. /\ scenario' = scenario /\ pc[h] # "idle" /\ job[h].op = "snapshot"
      /\ job[h].packed \subseteq Files /\ job[h].snap \in Snaps
  BY <1>1, JobFacts DEF WriteArchive, At, context, OfSnapshot
<1>3. MayGoTo(h, "vumount")
  BY <1>2 DEF MayGoTo, Serves
<1>4. RpcTyped'
  BY <1>1, <1>2, <1>3, MoveTyped, ReplyTyped DEF WriteArchive
<1>5. archive' \in [Snaps -> [state : {"none", "torn"} \union Readable, holds : SUBSET Files]]
  <2>1. \/ archive' = archive
        \/ archive' = [archive EXCEPT ![job[h].snap] = Written(h)]
    BY DEF WriteArchive
  <2>2. Written(h) \in [state : {"none", "torn"} \union Readable, holds : SUBSET Files]
    BY <1>2 DEF Written, Readable
  <2> QED BY <1>1, <1>2, <2>1, <2>2 DEF StoreTyped
<1>6. /\ faults' \in [timeouts : Nat, crashes : Nat, errors : Nat]
      /\ faults'.timeouts >= faults.timeouts /\ faults'.errors >= faults.errors
  BY <1>1, FaultFacts DEF WriteArchive
<1>7. MountsTyped' /\ StoreTyped' /\ ContextTyped' /\ Grows
  BY <1>1, <1>5, <1>6 DEF WriteArchive, kernel, context, MountsTyped, StoreTyped, ContextTyped, Grows
<1> QED BY <1>4, <1>7, TypedParts

LEMMA RemoveArchiveTyped ==
  ASSUME Typed, NEW h \in Handlers, RemoveArchive(h)
  PROVE  Typed' /\ Grows
<1>1. RpcTyped /\ MountsTyped /\ StoreTyped /\ ContextTyped
  BY TypedParts
<1>2. /\ scenario' = scenario /\ pc[h] # "idle" /\ job[h].op = "unsnapshot" /\ job[h].snap \in Snaps
  BY <1>1, JobFacts DEF RemoveArchive, At, context, OfSnapshot
<1>3. MayGoTo(h, "vumount")
  BY <1>2 DEF MayGoTo, Serves
<1>4. RpcTyped'
  BY <1>1, <1>2, <1>3, MoveTyped, ReplyTyped DEF RemoveArchive, OfSnapshot
<1>5. archive' \in [Snaps -> [state : {"none", "torn"} \union Readable, holds : SUBSET Files]]
  <2>1. \/ archive' = archive
        \/ archive' = [archive EXCEPT ![job[h].snap] = [state |-> "none", holds |-> {}]]
    BY DEF RemoveArchive
  <2>2. [state |-> "none", holds |-> {}] \in [state : {"none", "torn"} \union Readable, holds : SUBSET Files]
    BY DEF Readable
  <2> QED BY <1>1, <1>2, <2>1, <2>2 DEF StoreTyped
<1>6. /\ faults' \in [timeouts : Nat, crashes : Nat, errors : Nat]
      /\ faults'.timeouts >= faults.timeouts /\ faults'.errors >= faults.errors
  BY <1>1, FaultFacts DEF RemoveArchive
<1>7. MountsTyped' /\ StoreTyped' /\ ContextTyped' /\ Grows
  BY <1>1, <1>5, <1>6 DEF RemoveArchive, kernel, context, MountsTyped, StoreTyped, ContextTyped, Grows
<1> QED BY <1>4, <1>7, TypedParts

LEMMA NoMountsFacts == NoMounts \in Seq([Volumes -> Nat]) /\ NoMounts # <<>> /\ Len(NoMounts) = 1 /\ NoMounts[1] = Bare
<1>1. Bare \in [Volumes -> Nat] /\ NoMounts = <<Bare>>
  BY DEF Bare, NoMounts
<1> QED BY <1>1

LEMMA RestartTyped ==
  ASSUME Typed, Restart, faults' \in [timeouts : Nat, crashes : Nat, errors : Nat],
         faults'.timeouts >= faults.timeouts, faults'.errors >= faults.errors
  PROVE  Typed' /\ Grows
<1>1. RpcTyped /\ MountsTyped /\ StoreTyped /\ ContextTyped
  BY TypedParts
<1>2. RpcTyped'
  BY <1>1 DEF RpcTyped, Restart, api
<1>3. MountsTyped'
  BY NoMountsFacts DEF MountsTyped, Restart
<1>4. StoreTyped' /\ ContextTyped' /\ Grows
  BY <1>1 DEF Restart, storage, StoreTyped, ContextTyped, Grows
<1> QED BY <1>2, <1>3, <1>4, TypedParts

LEMMA PanicTyped ==
  ASSUME Typed, NEW h \in Handlers, Panic(h)
  PROVE  Typed' /\ Grows
<1>1. faults \in [timeouts : Nat, crashes : Nat, errors : Nat]
  BY TypedParts DEF ContextTyped
<1> QED BY <1>1, RestartTyped DEF Panic

LEMMA CrashTyped ==
  ASSUME Typed, Crash
  PROVE  Typed' /\ Grows
<1>1. faults \in [timeouts : Nat, crashes : Nat, errors : Nat]
  BY TypedParts DEF ContextTyped
<1>2. /\ faults' \in [timeouts : Nat, crashes : Nat, errors : Nat]
      /\ faults'.timeouts >= faults.timeouts /\ faults'.errors >= faults.errors
  BY <1>1 DEF Crash
<1> QED BY <1>2, RestartTyped DEF Crash

LEMMA TimeoutTyped ==
  ASSUME Typed, NEW h \in Handlers, Timeout(h)
  PROVE  Typed' /\ Grows
<1>1. RpcTyped /\ MountsTyped /\ StoreTyped /\ ContextTyped
  BY TypedParts
<1>2. /\ faults' \in [timeouts : Nat, crashes : Nat, errors : Nat]
      /\ faults'.timeouts > faults.timeouts /\ faults'.errors >= faults.errors
  <2>1. faults \in [timeouts : Nat, crashes : Nat, errors : Nat]
    BY <1>1 DEF ContextTyped
  <2> QED BY <2>1 DEF Timeout
<1>3. UNCHANGED <<pc, job, claim, content, owed, scenario>> /\ awaited' \subseteq awaited
  BY DEF Timeout, api, context
<1>4. ASSUME NEW g \in Handlers, pc'[g] # "idle" PROVE JobFits(g)'
  <2>1. JobFits(g)
    BY <1>1, <1>3, <1>4 DEF RpcTyped
  <2> QED BY <1>3, <2>1 DEF JobFits, Serves, home, source, Origin
<1>5. RpcTyped'
  BY <1>1, <1>3, <1>4 DEF RpcTyped
<1>6. MountsTyped' /\ StoreTyped' /\ ContextTyped' /\ Grows
  <2>1. faults'.timeouts >= faults.timeouts
    BY <1>2, <1>1 DEF ContextTyped
  <2> QED BY <1>1, <1>2, <2>1 DEF Timeout, kernel, storage, context, MountsTyped, StoreTyped, ContextTyped, Grows
<1> QED BY <1>5, <1>6, TypedParts

(* A sidecar's call: h starts to serve it. *)
Starts(h, op, v, s, due, first) ==
  /\ pc[h] = "idle"
  /\ pc' = [pc EXCEPT ![h] = first]
  /\ job' = [job EXCEPT ![h] = Job(op, v, s, due)]
  /\ awaited' = awaited \union {h}
  /\ overlapped' = (overlapped \/ \E g \in Handlers \ {h} : pc[g] # "idle")
  /\ \A g \in awaited : <<job[g].op, job[g].vol, job[g].snap>> # <<op, v, s>>
  /\ UNCHANGED <<kernel, storage, api, scenario, stolen, faults>>

LEMMA CallStarts ==
  ASSUME NEW op, NEW v, NEW s, NEW due, NEW first, Call(op, v, s, due, first)
  PROVE  \E h \in Handlers : Starts(h, op, v, s, due, first)
  BY DEF Call, Starts

LEMMA StartsTyped ==
  ASSUME Typed, NEW h \in Handlers, NEW op \in Operations, NEW v \in Volumes,
         NEW s \in Snaps \union {None}, NEW due \in SUBSET Files, NEW first,
         Starts(h, op, v, s, due, first),
         first \in {"get", "mount"}, first \in Serves(op),
         op \in OfSnapshot => s \in Snaps /\ v = SnapOf[s],
         op \notin OfSnapshot => s = None
  PROVE  /\ Typed' /\ Grows
         /\ pc'[h] = first /\ job'[h] = Job(op, v, s, due)
         /\ \A g \in Handlers : g # h => pc'[g] = pc[g] /\ job'[g] = job[g]
<1>1. RpcTyped /\ MountsTyped /\ StoreTyped /\ ContextTyped
  BY TypedParts
<1>2. Job(op, v, s, due) \in Jobs /\ Job(op, v, s, due).op = op /\ Job(op, v, s, due).vol = v
      /\ Job(op, v, s, due).snap = s
  BY DEF Jobs, Job
<1>3. /\ pc' \in [Handlers -> Steps \union {"idle"}]
      /\ job' \in [Handlers -> Jobs \union {None}]
      /\ pc'[h] = first /\ job'[h] = Job(op, v, s, due)
      /\ \A g \in Handlers : g # h => pc'[g] = pc[g] /\ job'[g] = job[g]
  BY <1>1, <1>2 DEF RpcTyped, Starts, Steps
<1>4. UNCHANGED <<claim, content, owed, scenario>>
  BY DEF Starts, api
<1>5. ASSUME NEW g \in Handlers, pc'[g] # "idle" PROVE JobFits(g)'
  <2>1. CASE g = h
    BY <1>2, <1>3, <2>1 DEF JobFits, Serves
  <2>2. CASE g # h
    <3>1. JobFits(g) /\ job'[g] = job[g] /\ pc'[g] = pc[g]
      BY <1>1, <1>3, <1>5, <2>2 DEF RpcTyped
    <3> QED BY <1>4, <3>1 DEF JobFits, Serves, home, source, Origin
  <2> QED BY <2>1, <2>2
<1>6. awaited' \subseteq Handlers /\ \A g \in awaited' : pc'[g] # "idle"
  BY <1>1, <1>3 DEF RpcTyped, Starts
<1>7. RpcTyped'
  BY <1>1, <1>3, <1>4, <1>5, <1>6 DEF RpcTyped
<1>8. MountsTyped' /\ StoreTyped' /\ Grows
  BY <1>1, FaultFacts DEF Starts, kernel, storage, MountsTyped, StoreTyped, ContextTyped, Grows
<1>9. overlapped' \in BOOLEAN
  BY <1>1 DEF Starts, ContextTyped
<1>10. ContextTyped'
  BY <1>1, <1>9 DEF Starts, kernel, ContextTyped
<1> QED BY <1>3, <1>7, <1>8, <1>10, TypedParts

(* Each call of a sidecar starts a handler on a request that fits it.      *)
Request(h) ==
  \/ \E v \in Volumes, due \in SUBSET Files :
       /\ Starts(h, "create", v, None, due, "get")
       /\ claim[v] # "deleted"
       /\ \/ source[v] = None
          \/ source[v] \in Snaps /\ content[source[v]] = "ready" /\ due = archive[source[v]].holds
          \/ source[v] \in Volumes /\ Bound(source[v]) /\ due = files[source[v]]
  \/ \E v \in Volumes : Starts(h, "publish", v, None, {}, "mount")
  \/ \E v \in Volumes : Starts(h, "unpublish", v, None, {}, "get")
  \/ \E s \in Snaps : /\ Starts(h, "snapshot", SnapOf[s], s, files[SnapOf[s]], "get")
                      /\ content[s] = "created"
  \/ \E s \in Snaps : Starts(h, "unsnapshot", SnapOf[s], s, {}, "get") /\ content[s] = "deleting"

LEMMA SidecarRequests ==
  ASSUME Typed, Sidecar
  PROVE  \E h \in Handlers : Request(h)
<1>1. RpcTyped /\ MountsTyped /\ StoreTyped /\ ContextTyped
  BY TypedParts
<1>2. ASSUME NEW v \in Volumes, CallCreate(v) PROVE \E h \in Handlers : Request(h)
  <2>1. CASE source[v] = None /\ Call("create", v, None, {}, "get")
    <3>1. PICK h \in Handlers : Starts(h, "create", v, None, {}, "get")
      BY <2>1, CallStarts
    <3>2. {} \in SUBSET Files
      OBVIOUS
    <3> QED BY <1>2, <2>1, <3>1, <3>2 DEF Request, CallCreate
  <2>2. CASE /\ source[v] \in Snaps /\ content[source[v]] = "ready"
             /\ Call("create", v, None, archive[source[v]].holds, "get")
    <3>1. PICK h \in Handlers : Starts(h, "create", v, None, archive[source[v]].holds, "get")
      BY <2>2, CallStarts
    <3>2. archive[source[v]].holds \in SUBSET Files
      BY <1>1, <2>2 DEF StoreTyped
    <3> QED BY <1>2, <2>2, <3>1, <3>2 DEF Request, CallCreate
  <2>3. CASE /\ source[v] \in Volumes /\ Bound(source[v])
             /\ Call("create", v, None, files[source[v]], "get")
    <3>1. PICK h \in Handlers : Starts(h, "create", v, None, files[source[v]], "get")
      BY <2>3, CallStarts
    <3>2. files[source[v]] \in SUBSET Files
      BY <1>1, <2>3 DEF StoreTyped
    <3> QED BY <1>2, <2>3, <3>1, <3>2 DEF Request, CallCreate
  <2> QED BY <1>2, <2>1, <2>2, <2>3 DEF CallCreate
<1>3. ASSUME NEW v \in Volumes, CallPublish(v) PROVE \E h \in Handlers : Request(h)
  <2>1. PICK h \in Handlers : Starts(h, "publish", v, None, {}, "mount")
    BY <1>3, CallStarts DEF CallPublish
  <2> QED BY <2>1 DEF Request
<1>4. ASSUME NEW v \in Volumes, CallUnpublish(v) PROVE \E h \in Handlers : Request(h)
  <2>1. PICK h \in Handlers : Starts(h, "unpublish", v, None, {}, "get")
    BY <1>4, CallStarts DEF CallUnpublish
  <2> QED BY <2>1 DEF Request
<1>5. ASSUME NEW s \in Snaps, CallSnapshot(s) PROVE \E h \in Handlers : Request(h)
  <2>1. PICK h \in Handlers : Starts(h, "snapshot", SnapOf[s], s, files[SnapOf[s]], "get")
    BY <1>5, CallStarts DEF CallSnapshot
  <2> QED BY <1>5, <2>1 DEF Request, CallSnapshot
<1>6. ASSUME NEW s \in Snaps, CallUnsnapshot(s) PROVE \E h \in Handlers : Request(h)
  <2>1. PICK h \in Handlers : Starts(h, "unsnapshot", SnapOf[s], s, {}, "get")
    BY <1>6, CallStarts DEF CallUnsnapshot
  <2> QED BY <1>6, <2>1 DEF Request, CallUnsnapshot
<1> QED BY <1>2, <1>3, <1>4, <1>5, <1>6 DEF Sidecar

(* What every request has in common. *)
LEMMA RequestFacts ==
  ASSUME Typed, NEW h \in Handlers, Request(h)
  PROVE  /\ Typed' /\ Grows
         /\ pc[h] = "idle" /\ pc'[h] \in {"get", "mount"} /\ awaited' = awaited \union {h}
         /\ job'[h] \in Jobs /\ ~job'[h].full
         /\ \A g \in Handlers : g # h => pc'[g] = pc[g] /\ job'[g] = job[g]
         /\ UNCHANGED <<mounts, storage, api, scenario, stolen, faults>>
<1>1. RpcTyped /\ MountsTyped /\ StoreTyped /\ ContextTyped
  BY TypedParts
<1>2. ASSUME NEW op \in Operations, NEW v \in Volumes,
             NEW s \in Snaps \union {None}, NEW due \in SUBSET Files, NEW first,
             Starts(h, op, v, s, due, first),
             first \in {"get", "mount"}, first \in Serves(op),
             op \in OfSnapshot => s \in Snaps /\ v = SnapOf[s],
             op \notin OfSnapshot => s = None
      PROVE  /\ Typed' /\ Grows
             /\ pc[h] = "idle" /\ pc'[h] \in {"get", "mount"} /\ awaited' = awaited \union {h}
             /\ job'[h] \in Jobs /\ ~job'[h].full
             /\ \A g \in Handlers : g # h => pc'[g] = pc[g] /\ job'[g] = job[g]
             /\ UNCHANGED <<mounts, storage, api, scenario, stolen, faults>>
  <2>1. Job(op, v, s, due) \in Jobs /\ ~Job(op, v, s, due).full
    BY <1>2 DEF Jobs, Job
  <2>2. UNCHANGED <<mounts, storage, api, scenario, stolen, faults>> /\ pc[h] = "idle"
        /\ awaited' = awaited \union {h}
    BY <1>2 DEF Starts, kernel
  <2> QED BY <1>2, <2>1, <2>2, StartsTyped
<1>3. /\ {"create", "publish", "unpublish", "snapshot", "unsnapshot"} \subseteq Operations
      /\ None \in Snaps \union {None} /\ {} \in SUBSET Files
      /\ \A s \in Snaps : s \in Snaps \union {None} /\ SnapOf[s] \in Volumes
                          /\ files[SnapOf[s]] \in SUBSET Files
  BY <1>1, ControllerAssumption DEF Operations, StoreTyped
<1>4. /\ "get" \in Serves("create") /\ "mount" \in Serves("publish") /\ "get" \in Serves("unpublish")
      /\ "get" \in Serves("snapshot") /\ "get" \in Serves("unsnapshot")
  BY DEF Serves
<1>5. /\ "create" \notin OfSnapshot /\ "publish" \notin OfSnapshot /\ "unpublish" \notin OfSnapshot
      /\ "snapshot" \in OfSnapshot /\ "unsnapshot" \in OfSnapshot
  BY DEF OfSnapshot
<1>6. CASE \E v \in Volumes, due \in SUBSET Files : Starts(h, "create", v, None, due, "get")
  BY <1>2, <1>3, <1>4, <1>5, <1>6
<1>7. CASE \E v \in Volumes : Starts(h, "publish", v, None, {}, "mount")
  BY <1>2, <1>3, <1>4, <1>5, <1>7
<1>8. CASE \E v \in Volumes : Starts(h, "unpublish", v, None, {}, "get")
  BY <1>2, <1>3, <1>4, <1>5, <1>8
<1>9. CASE \E s \in Snaps : Starts(h, "snapshot", SnapOf[s], s, files[SnapOf[s]], "get")
  BY <1>2, <1>3, <1>4, <1>5, <1>9
<1>10. CASE \E s \in Snaps : Starts(h, "unsnapshot", SnapOf[s], s, {}, "get")
  BY <1>2, <1>3, <1>4, <1>5, <1>10
<1> QED BY <1>6, <1>7, <1>8, <1>9, <1>10 DEF Request

(* The users' and the pods' steps. *)
Outside ==
  \/ \E v \in Volumes : DeleteVolume(v) \/ \E f \in Files : PodWrites(v, f)
  \/ \E s \in Snaps : SnapshotRequested(s) \/ SnapshotUnwanted(s)

LEMMA OutsideTyped ==
  ASSUME Typed, Outside
  PROVE  Typed' /\ Grows /\ UNCHANGED <<kernel, rpc, dirs, archive, owed, context, faults>>
<1>1. RpcTyped /\ MountsTyped /\ StoreTyped /\ ContextTyped
  BY TypedParts
<1>2. UNCHANGED <<kernel, rpc, dirs, archive, owed, context, faults>>
  BY DEF Outside, DeleteVolume, PodWrites, SnapshotRequested, SnapshotUnwanted, storage, api
<1>3. claim' \in [Volumes -> {"new", "bound", "deleted"}]
  BY <1>1 DEF Outside, DeleteVolume, PodWrites, SnapshotRequested, SnapshotUnwanted, api, RpcTyped
<1>4. content' \in [Snaps -> {"new", "created", "ready", "deleting", "deleted"}]
  BY <1>1 DEF Outside, DeleteVolume, PodWrites, SnapshotRequested, SnapshotUnwanted, api, RpcTyped
<1>5. files' \in [Volumes -> SUBSET Files] /\ \A v \in Volumes : files[v] \subseteq files'[v]
  BY <1>1 DEF Outside, DeleteVolume, PodWrites, SnapshotRequested, SnapshotUnwanted, storage, StoreTyped
<1>6. \A g \in Handlers : pc'[g] # "idle" => JobFits(g)'
  BY <1>1, <1>2 DEF RpcTyped, rpc, context, JobFits, Serves, home, source, Origin
<1>7. RpcTyped'
  BY <1>1, <1>2, <1>3, <1>4, <1>6 DEF RpcTyped, rpc
<1>8. MountsTyped' /\ StoreTyped' /\ ContextTyped' /\ Grows
  BY <1>1, <1>2, <1>5, FaultFacts DEF kernel, context, MountsTyped, StoreTyped, ContextTyped, Grows
<1> QED BY <1>2, <1>7, <1>8, TypedParts

LEMMA HandlerTyped ==
  ASSUME Typed, NEW h \in Handlers, Works(h)
  PROVE  Typed' /\ Grows
  BY FindVolumeTyped, AuthMountShareTyped, CreateDirTyped, SwitchSourceTyped, ExtractSnapTyped,
     CopyVolumeTyped, UnmountBelowTyped, FindSourceTyped, AuthMountMkdirTyped, AuthMountVolumeTyped,
     UnmountOwnTyped, CompressTyped, OpenArchiveTyped, WriteArchiveTyped, RemoveArchiveTyped
  DEF Works

(* The six kinds of steps. *)
LEMMA NextCases ==
  ASSUME Typed, Next
  PROVE  \/ \E h \in Handlers : Works(h)
         \/ \E h \in Handlers : Timeout(h)
         \/ \E h \in Handlers : Request(h)
         \/ Outside
         \/ Restart /\ (Crash \/ \E h \in Handlers : Panic(h))
<1>1. \A h \in Handlers : Handler(h) => Works(h)
  BY DEF Handler, CreateVolume, ControllerPublishVolume, ControllerUnpublishVolume, CreateSnapshot,
         DeleteSnapshot, Works
<1> QED BY <1>1, SidecarRequests DEF Next, Outside, Crash, Panic

LEMMA TypedInit ==
  ASSUME Init
  PROVE  Typed
<1>1. RpcTyped
  BY DEF Init, RpcTyped
<1>2. MountsTyped
  BY NoMountsFacts DEF Init, MountsTyped
<1>3. StoreTyped /\ ContextTyped
  BY DEF Init, StoreTyped, ContextTyped
<1> QED BY <1>1, <1>2, <1>3, TypedParts

LEMMA TypedStep ==
  ASSUME Typed, [Next]_vars
  PROVE  Typed' /\ Grows
<1>1. CASE Next
  BY <1>1, NextCases, HandlerTyped, TimeoutTyped, RequestFacts, OutsideTyped, PanicTyped, CrashTyped
<1>2. CASE UNCHANGED vars
  <2>1. RpcTyped /\ MountsTyped /\ StoreTyped /\ ContextTyped
    BY TypedParts
  <2>2. \A g \in Handlers : pc'[g] # "idle" => JobFits(g)'
    BY <1>2, <2>1 DEF RpcTyped, vars, rpc, context, JobFits, Serves, home, source, Origin
  <2>3. RpcTyped'
    BY <1>2, <2>1, <2>2 DEF RpcTyped, vars, rpc, api
  <2>4. MountsTyped' /\ StoreTyped' /\ ContextTyped' /\ Grows
    BY <1>2, <2>1, FaultFacts
    DEF vars, kernel, storage, context, MountsTyped, StoreTyped, ContextTyped, Grows
  <2> QED BY <2>3, <2>4, TypedParts
<1> QED BY <1>1, <1>2

LEMMA InductiveTyped == Spec => []Typed
<1>1. Init => Typed
  BY TypedInit
<1>2. Typed /\ [Next]_vars => Typed'
  BY TypedStep
<1> QED BY <1>1, <1>2, PTL DEF Spec

(* Every variable keeps its type: every handler serves a request of the    *)
(* API with the steps of controller.go.                                    *)
THEOREM TypeCorrect == Spec => []TypeOK
<1>1. Typed => TypeOK
  BY DEF Typed
<1> QED BY <1>1, InductiveTyped, PTL

-----------------------------------------------------------------------------
(* Handlers one by one: a step of one leaves the others where they are,    *)
(* and either keeps its request or ends.                                   *)

Others(h) == \A g \in Handlers : g # h => pc'[g] = pc[g] /\ job'[g] = job[g]

Goes(h, call) ==
  /\ Others(h) /\ pc'[h] = call /\ SameRequest(h)
  /\ UNCHANGED <<awaited, claim, content, owed>>

Ends(h) == Others(h) /\ pc'[h] = "idle" /\ awaited' = awaited \ {h}

LEMMA ReplyEnds ==
  ASSUME Typed, NEW h \in Handlers
  PROVE  /\ Reply(h) => Ends(h) /\ UNCHANGED <<claim, content, owed>>
         /\ \A full : ReplyCreated(h, full) => Ends(h)
         /\ ReplySnapshot(h) => Ends(h)
         /\ ReplySnapshotGone(h) => Ends(h)
<1>1. Finish(h) => Ends(h)
  BY DEF Typed, TypeOK, Finish, Ends, Others
<1> QED BY <1>1 DEF Reply, ReplyCreated, ReplySnapshot, ReplySnapshotGone, api

LEMMA GoToGoes ==
  ASSUME Typed, NEW h \in Handlers, NEW call, GoTo(h, call), SameRequest(h),
         \A g \in Handlers : g # h => job'[g] = job[g]
  PROVE  Goes(h, call)
  BY DEF Typed, TypeOK, GoTo, Goes, Others, api

LEMMA MoveGoes ==
  ASSUME Typed, NEW h \in Handlers, NEW call, GoTo(h, call), UNCHANGED job
  PROVE  Goes(h, call)
<1>1. SameRequest(h) /\ \A g \in Handlers : g # h => job'[g] = job[g]
  BY DEF SameRequest
<1> QED BY <1>1, GoToGoes

LEMMA HandlerMoves ==
  ASSUME Typed, NEW h \in Handlers, Works(h)
  PROVE  pc[h] # "idle" /\ (Ends(h) \/ \E call : Goes(h, call))
<1>1. RpcTyped /\ MountsTyped /\ StoreTyped /\ ContextTyped
  BY TypedParts
<1>2. pc[h] # "idle"
  BY DEF Works, At, FindVolume, AuthMountShare, CreateDir, SwitchSource, ExtractSnap, CopyVolume,
         UnmountBelow, FindSource, AuthMountMkdir, AuthMountVolume, UnmountOwn, Compress, OpenArchive,
         WriteArchive, RemoveArchive
<1> SUFFICES Ends(h) \/ \E call : Goes(h, call)
  BY <1>2
<1>3. ASSUME NEW call, GoTo(h, call), UNCHANGED job PROVE \E c : Goes(h, c)
  BY <1>3, MoveGoes
<1>4. ASSUME NEW call, GoTo(h, call), SameRequest(h) PROVE \E c : Goes(h, c)
  BY <1>4, GoToGoes DEF SameRequest
<1>5. AuthMountFails(h) => Ends(h) \/ \E call : Goes(h, call)
  BY <1>3, ReplyEnds DEF AuthMountFails
<1>6. CASE FindVolume(h)
  <2>1. Bound(job[h].vol) \in BOOLEAN
    BY DEF Bound
  <2>2. ReplyCreated(h, TRUE) \/ (GoTo(h, "mount") /\ SameRequest(h))
    BY <1>1, <1>2, <1>6, <2>1, SameRequestFacts, FindVolumeSteps
  <2> QED BY <1>4, <2>2, ReplyEnds
<1>7. CASE AuthMountShare(h)
  BY <1>3, <1>7, ReplyEnds DEF AuthMountShare
<1>8. CASE CreateDir(h)
  BY <1>3, <1>8, ReplyEnds DEF CreateDir
<1>9. CASE SwitchSource(h)
  <2>1. CASE Reply(h)
    BY <2>1, ReplyEnds
  <2>2. CASE ~Reply(h)
    <3>1. PICK call : GoTo(h, call) /\ UNCHANGED job
      BY <1>9, <2>2, SwitchSourceSteps
    <3> QED BY <1>3, <3>1
  <2> QED BY <2>1, <2>2
<1>10. CASE ExtractSnap(h)
  <2>1. SameRequest(h)
    BY <1>1, <1>2, <1>10, SameRequestFacts DEF ExtractSnap
  <2> QED BY <1>4, <1>10, <2>1 DEF ExtractSnap
<1>11. CASE CopyVolume(h)
  BY <1>3, <1>11 DEF CopyVolume
<1>12. CASE UnmountBelow(h)
  BY <1>12, ReplyEnds DEF UnmountBelow
<1>13. CASE FindSource(h)
  BY <1>3, <1>13, ReplyEnds, FindSourceSteps
<1>14. CASE AuthMountMkdir(h)
  BY <1>3, <1>5, <1>14 DEF AuthMountMkdir
<1>15. CASE AuthMountVolume(h)
  BY <1>3, <1>5, <1>15, AuthMountVolumeSteps
<1>16. CASE UnmountOwn(h)
  <2>1. job[h].op = "create" => SameRequest(h)
    BY <1>1, <1>2, <1>16, SameRequestFacts DEF UnmountOwn
  <2> QED BY <1>4, <1>16, <2>1, ReplyEnds DEF UnmountOwn
<1>17. CASE Compress(h)
  BY <1>4, <1>17, ReplyEnds, CompressPacks
<1>18. CASE OpenArchive(h)
  <2>1. Reaches(Below(h), job[h].vol) \in BOOLEAN
    BY DEF Reaches
  <2>2. Reply(h) \/ (GoTo(h, "write") /\ SameRequest(h))
    BY <1>1, <1>2, <1>18, <2>1, SameRequestFacts DEF OpenArchive
  <2> QED BY <1>4, <2>2, ReplyEnds
<1>19. CASE WriteArchive(h)
  BY <1>3, <1>19, ReplyEnds DEF WriteArchive
<1>20. CASE RemoveArchive(h)
  BY <1>3, <1>20, ReplyEnds DEF RemoveArchive
<1> QED BY <1>6, <1>7, <1>8, <1>9, <1>10, <1>11, <1>12, <1>13, <1>14, <1>15, <1>16, <1>17, <1>18,
           <1>19, <1>20 DEF Works

-----------------------------------------------------------------------------
(* Shares: mounts against the handlers that made them.                     *)

(* Only AuthMountShare begins to hold a mount of a share. *)
LEMMA HandlerHolds ==
  ASSUME Typed, NEW h \in Handlers, Works(h), ~AuthMountShare(h), NEW g \in Handlers, Holds(g)'
  PROVE  /\ Holds(g) /\ Below(g)' = Below(g)
         /\ job'[g].op = job[g].op /\ job'[g].vol = job[g].vol
         /\ UnmountBelow(h) => g # h
<1>1. RpcTyped /\ ContextTyped /\ scenario' = scenario
  BY TypedParts, HandlerTyped DEF Grows
<1>2. Others(h) /\ (pc'[h] = "idle" \/ SameRequest(h)) /\ pc[h] # "idle"
  BY HandlerMoves DEF Ends, Goes
<1>3. CASE g # h
  BY <1>1, <1>2, <1>3 DEF Others, Holds, Below, home
<1>4. CASE g = h
  <2>1. pc'[h] \notin {"idle", "get", "mount"} /\ SameRequest(h) /\ job[h].op \in Sharing
    BY <1>2, <1>4 DEF Holds, SameRequest
  <2>2. ~UnmountBelow(h) /\ ~FindVolume(h)
    <3>1. UnmountBelow(h) => Ends(h)
      BY ReplyEnds DEF UnmountBelow
    <3>2. FindVolume(h) => ReplyCreated(h, TRUE) \/ GoTo(h, "mount")
      BY FindVolumeSteps
    <3>3. GoTo(h, "mount") => pc'[h] = "mount"
      BY <1>1 DEF GoTo, RpcTyped
    <3> QED BY <2>1, <3>1, <3>2, <3>3, ReplyEnds DEF Ends
  <2>3. pc[h] # "mount"
    BY <2>1 DEF Works, At, FindVolume, AuthMountShare, CreateDir, SwitchSource, ExtractSnap, CopyVolume,
         UnmountBelow, FindSource, AuthMountMkdir, AuthMountVolume, UnmountOwn, Compress, OpenArchive,
         WriteArchive, RemoveArchive
  <2>4. pc[h] # "get"
    BY <2>1, <2>2 DEF Sharing, Works, At, AuthMountShare, CreateDir, SwitchSource, ExtractSnap, CopyVolume,
         UnmountBelow, FindSource, AuthMountMkdir, AuthMountVolume, UnmountOwn, Compress, OpenArchive,
         WriteArchive, RemoveArchive
  <2> QED BY <1>1, <1>2, <1>4, <2>1, <2>2, <2>3, <2>4 DEF Holds, Below, SameRequest, home
<1> QED BY <1>3, <1>4

(* Only UnmountBelow takes off a mount of a share. *)
LEMMA HandlerLayers ==
  ASSUME Typed, NEW h \in Handlers, Works(h), ~UnmountBelow(h), NEW n \in Shares
  PROVE  Len(mounts'[n]) >= Len(mounts[n])
<1>1. RpcTyped /\ ContextTyped /\ MountsTyped
  BY TypedParts
<1>2. Len(mounts[n]) \in Nat
  BY <1>1, LayerFacts
<1>3. CASE UNCHANGED mounts
  BY <1>2, <1>3
<1>4. CASE AuthMountShare(h)
  <2>1. Below(h) \in Shares
    BY <1>1, <1>4, JobFacts DEF AuthMountShare, At
  <2>2. UNCHANGED mounts \/ MountShare(Below(h))
    BY <1>4 DEF AuthMountShare
  <2> QED BY <1>1, <1>2, <2>1, <2>2, MountShareFacts DEF Elsewhere
<1>5. CASE AuthMountVolume(h)
  <2>1. Below(h) \in Shares /\ Subject(h) \in Volumes
    BY <1>1, <1>5, JobFacts DEF AuthMountVolume, At
  <2>2. UNCHANGED mounts \/ MountVolume(Below(h), Subject(h))
    BY <1>5 DEF AuthMountVolume
  <2>3. MountVolume(Below(h), Subject(h)) => OnTop(Below(h), Subject(h), Top(Below(h))[Subject(h)] + 1)
    BY <1>1, <2>1, MountVolumeFacts
  <2> QED BY <1>2, <2>2, <2>3 DEF OnTop, Elsewhere
<1>6. CASE UnmountOwn(h)
  <2>1. Below(h) \in Shares /\ Subject(h) \in Volumes
    BY <1>1, <1>6, JobFacts DEF UnmountOwn, At
  <2>2. UNCHANGED mounts \/ UnmountVolume(Below(h), Subject(h))
    BY <1>6 DEF UnmountOwn
  <2>3. UnmountVolume(Below(h), Subject(h)) =>
          UNCHANGED mounts \/ OnTop(Below(h), Subject(h), Top(Below(h))[Subject(h)] - 1)
    BY <1>1, <2>1, UnmountVolumeFacts
  <2> QED BY <1>2, <2>2, <2>3 DEF OnTop, Elsewhere
<1> QED BY <1>3, <1>4, <1>5, <1>6 DEF Works, FindVolume, CreateDir, SwitchSource, ExtractSnap,
           CopyVolume, FindSource, AuthMountMkdir, Compress, OpenArchive, WriteArchive, RemoveArchive,
           kernel

LEMMA OneMore ==
  ASSUME NEW S, IsFiniteSet(S), NEW x
  PROVE  /\ IsFiniteSet(S \union {x}) /\ Cardinality(S) \in Nat
         /\ Cardinality(S \union {x}) <= Cardinality(S) + 1
<1>1. /\ IsFiniteSet(S \union {x}) /\ Cardinality(S) \in Nat
      /\ Cardinality(S \union {x}) = IF x \in S THEN Cardinality(S) ELSE Cardinality(S) + 1
  BY FS_AddElement, FS_CardinalityType
<1> QED BY <1>1

LEMMA FewerHolders ==
  ASSUME MountsTyped, SharesHeld, NEW n \in Shares, Holders(n)' \subseteq Holders(n),
         Len(mounts'[n]) >= Len(mounts[n]), Len(mounts'[n]) \in Nat
  PROVE  IsFiniteSet(Holders(n)') /\ Cardinality(Holders(n)') < Len(mounts'[n])
<1>1. IsFiniteSet(Holders(n)) /\ Cardinality(Holders(n)) < Len(mounts[n]) /\ Len(mounts[n]) \in Nat
  BY LayerFacts DEF SharesHeld
<1>2. IsFiniteSet(Holders(n)') /\ Cardinality(Holders(n)') <= Cardinality(Holders(n))
  BY <1>1, FS_Subset
<1>3. Cardinality(Holders(n)') \in Nat /\ Cardinality(Holders(n)) \in Nat
  BY <1>1, <1>2, FS_CardinalityType
<1> QED BY <1>1, <1>2, <1>3

LEMMA HoldersStep ==
  ASSUME Typed, SharesHeld, [Next]_vars, NEW n \in Shares
  PROVE  IsFiniteSet(Holders(n)') /\ Cardinality(Holders(n)') < Len(mounts'[n])
<1>1. RpcTyped /\ ContextTyped /\ MountsTyped /\ scenario' = scenario
  BY TypedParts, TypedStep DEF Grows
<1>2. MountsTyped' /\ Len(mounts'[n]) \in Nat /\ Len(mounts'[n]) >= 1
  <2>1. MountsTyped'
    BY TypedParts, TypedStep
  <2>2. mounts'[n] \in Seq([Volumes -> Nat]) /\ mounts'[n] # <<>>
    BY <2>1 DEF MountsTyped
  <2> QED BY <2>1, <2>2
<1>3. /\ IsFiniteSet(Holders(n)) /\ Cardinality(Holders(n)) < Len(mounts[n])
      /\ Len(mounts[n]) \in Nat /\ Cardinality(Holders(n)) \in Nat
  BY <1>1, LayerFacts, FS_CardinalityType DEF SharesHeld
<1>5. ASSUME NEW h \in Handlers, AuthMountShare(h)
      PROVE  IsFiniteSet(Holders(n)') /\ Cardinality(Holders(n)') < Len(mounts'[n])
  <2>1. Others(h) /\ Below(h) \in Shares
    BY <1>1, <1>5, HandlerMoves, JobFacts DEF Works, Ends, Goes, AuthMountShare, At
  <2>2. CASE Reply(h) /\ UNCHANGED mounts
    <3>1. Holders(n)' \subseteq Holders(n)
      BY <1>1, <2>1, <2>2, ReplyEnds DEF Ends, Others, Holders, Holds, Below, home
    <3> QED BY <1>1, <1>2, <1>3, <2>2, <3>1, FewerHolders
  <2>3. CASE MountShare(Below(h)) /\ GoTo(h, "mkdir") /\ UNCHANGED job
    <3>1. CASE n = Below(h)
      <4>1. Holders(n)' \subseteq Holders(n) \union {h}
        BY <1>1, <2>1 DEF Others, Holders, Holds, Below, home
      <4>2. Len(mounts'[n]) = Len(mounts[n]) + 1
        BY <1>1, <2>1, <2>3, <3>1, MountShareFacts
      <4>3. /\ IsFiniteSet(Holders(n) \union {h})
            /\ Cardinality(Holders(n) \union {h}) <= Cardinality(Holders(n)) + 1
        BY <1>3, OneMore
      <4>4. /\ IsFiniteSet(Holders(n)')
            /\ Cardinality(Holders(n)') <= Cardinality(Holders(n) \union {h})
        BY <4>1, <4>3, FS_Subset
      <4>5. Cardinality(Holders(n)') \in Nat /\ Cardinality(Holders(n) \union {h}) \in Nat
        BY <4>3, <4>4, FS_CardinalityType
      <4> QED BY <1>3, <4>2, <4>3, <4>4, <4>5
    <3>2. CASE n # Below(h)
      <4>1. Holders(n)' \subseteq Holders(n)
        BY <1>1, <2>1, <2>3, <3>2 DEF Others, Holders, Holds, Below, home
      <4>2. mounts'[n] = mounts[n]
        BY <1>1, <2>1, <2>3, <3>2, MountShareFacts DEF Elsewhere
      <4> QED BY <1>1, <1>2, <1>3, <4>1, <4>2, FewerHolders
    <3> QED BY <3>1, <3>2
  <2> QED BY <1>5, <2>2, <2>3 DEF AuthMountShare
<1>6. ASSUME NEW h \in Handlers, UnmountBelow(h)
      PROVE  IsFiniteSet(Holders(n)') /\ Cardinality(Holders(n)') < Len(mounts'[n])
  <2>1. Works(h) /\ ~AuthMountShare(h) /\ Below(h) \in Shares /\ h \in Holders(Below(h))
    BY <1>1, <1>6, JobFacts DEF Works, UnmountBelow, At, AuthMountShare, Holders, Holds
  <2>2. Holders(n)' \subseteq Holders(n) \ {h}
    BY <1>6, <2>1, HandlerHolds DEF Holders
  <2>3. UNCHANGED mounts \/ UnmountShare(Below(h))
    BY <1>6 DEF UnmountBelow
  <2>4. CASE n # Below(h)
    <3>1. mounts'[n] = mounts[n]
      BY <1>1, <2>1, <2>3, <2>4, UnmountShareFacts DEF Elsewhere
    <3> QED BY <1>1, <1>2, <1>3, <2>2, <3>1, FewerHolders
  <2>5. CASE n = Below(h)
    <3>1. Len(mounts'[n]) >= Len(mounts[n]) - 1
      BY <1>1, <1>3, <2>1, <2>3, <2>5, UnmountShareFacts
    <3>2. /\ IsFiniteSet(Holders(n) \ {h})
          /\ Cardinality(Holders(n) \ {h}) = Cardinality(Holders(n)) - 1
      BY <1>3, <2>1, <2>5, FS_RemoveElement
    <3>3. /\ IsFiniteSet(Holders(n)')
          /\ Cardinality(Holders(n)') <= Cardinality(Holders(n) \ {h})
      BY <2>2, <3>2, FS_Subset
    <3>4. Cardinality(Holders(n)') \in Nat
      BY <3>3, FS_CardinalityType
    <3> QED BY <1>2, <1>3, <3>1, <3>2, <3>3, <3>4
  <2> QED BY <2>4, <2>5
<1>7. ASSUME NEW h \in Handlers, Works(h)
      PROVE  IsFiniteSet(Holders(n)') /\ Cardinality(Holders(n)') < Len(mounts'[n])
  <2>1. CASE ~AuthMountShare(h) /\ ~UnmountBelow(h)
    <3>1. Holders(n)' \subseteq Holders(n)
      BY <1>7, <2>1, HandlerHolds DEF Holders
    <3> QED BY <1>1, <1>2, <1>7, <2>1, <3>1, HandlerLayers, FewerHolders
  <2> QED BY <1>5, <1>6, <2>1
<1>8. CASE mounts'[n] = mounts[n] /\ \A g \in Handlers : Holds(g)' => Holds(g) /\ job'[g] = job[g]
  <2>1. Holders(n)' \subseteq Holders(n)
    BY <1>1, <1>8 DEF Holders, Below, home
  <2> QED BY <1>1, <1>2, <1>3, <1>8, <2>1, FewerHolders
<1>9. CASE \E h \in Handlers : Timeout(h)
  BY <1>8, <1>9 DEF Timeout, kernel, Holds
<1>10. CASE \E h \in Handlers : Request(h)
  BY <1>8, <1>10, RequestFacts DEF Holds
<1>11. CASE Outside
  BY <1>8, <1>11, OutsideTyped DEF kernel, rpc, Holds
<1>12. CASE Restart
  <2>1. Holders(n)' = {}
    BY <1>12 DEF Restart, Holders, Holds
  <2> QED BY <1>2, <2>1, FS_EmptySet
<1>13. CASE UNCHANGED vars
  BY <1>8, <1>13 DEF vars, kernel, rpc, Holds
<1> QED BY <1>7, <1>9, <1>10, <1>11, <1>12, <1>13, NextCases

(* The kernel refuses one mount of a share too many. *)
LEMMA HandlerStacks ==
  ASSUME Typed, NEW h \in Handlers, Works(h), NEW n \in Shares, Len(mounts[n]) <= scenario.stack + 1
  PROVE  Len(mounts'[n]) <= scenario.stack + 1
<1>1. RpcTyped /\ ContextTyped /\ MountsTyped
  BY TypedParts
<1>2. Len(mounts[n]) \in Nat /\ scenario.stack \in Nat
  BY <1>1, LayerFacts, ScenarioFacts
<1>3. Below(h) \in Shares /\ (AuthMountVolume(h) \/ UnmountOwn(h) => Subject(h) \in Volumes)
  BY <1>1, HandlerMoves, JobFacts DEF AuthMountVolume, UnmountOwn, At
<1>4. CASE UNCHANGED mounts
  BY <1>4
<1>5. CASE MountShare(Below(h))
  BY <1>1, <1>2, <1>3, <1>5, MountShareFacts DEF Elsewhere
<1>6. CASE UnmountShare(Below(h))
  BY <1>1, <1>2, <1>3, <1>6, UnmountShareFacts DEF Elsewhere
<1>7. CASE AuthMountVolume(h) /\ MountVolume(Below(h), Subject(h))
  BY <1>1, <1>3, <1>7, MountVolumeFacts DEF OnTop, Elsewhere
<1>8. CASE UnmountOwn(h) /\ UnmountVolume(Below(h), Subject(h))
  BY <1>1, <1>3, <1>8, UnmountVolumeFacts DEF OnTop, Elsewhere
<1> QED BY <1>4, <1>5, <1>6, <1>7, <1>8 DEF Works, FindVolume, AuthMountShare, CreateDir, SwitchSource,
           ExtractSnap, CopyVolume, UnmountBelow, FindSource, AuthMountMkdir, AuthMountVolume, UnmountOwn,
           Compress, OpenArchive, WriteArchive, RemoveArchive, kernel

LEMMA SharesHeldStep ==
  ASSUME Typed, SharesHeld, [Next]_vars
  PROVE  SharesHeld'
<1>1. ContextTyped /\ scenario' = scenario
  BY TypedParts, TypedStep DEF Grows
<1>2. ASSUME NEW n \in Shares PROVE Len(mounts'[n]) <= scenario.stack + 1
  <2>1. Len(mounts[n]) <= scenario.stack + 1
    BY DEF SharesHeld
  <2>2. CASE Restart
    <3>1. Len(mounts'[n]) = 1
      BY <2>2, NoMountsFacts DEF Restart
    <3>2. scenario.stack \in Nat
      BY <1>1, ScenarioFacts
    <3> QED BY <3>1, <3>2
  <2>3. CASE UNCHANGED mounts
    BY <2>1, <2>3
  <2> QED BY <2>1, <2>2, <2>3, NextCases, HandlerStacks, RequestFacts, OutsideTyped
          DEF Timeout, kernel, vars
<1> QED BY <1>1, <1>2, HoldersStep DEF SharesHeld

LEMMA HolderMounted ==
  ASSUME Typed, SharesHeld, NEW h \in Handlers, Holds(h)
  PROVE  Below(h) \in Shares /\ Mounted(Below(h)) /\ Len(mounts[Below(h)]) \in Nat
<1>1. Below(h) \in Shares /\ h \in Holders(Below(h))
  BY TypedParts, JobFacts DEF Holders, Holds
<1>2. /\ IsFiniteSet(Holders(Below(h))) /\ Cardinality(Holders(Below(h))) < Len(mounts[Below(h)])
      /\ Len(mounts[Below(h)]) \in Nat
  BY <1>1, TypedParts, LayerFacts DEF SharesHeld
<1>3. Cardinality(Holders(Below(h))) \in Nat /\ Cardinality(Holders(Below(h))) # 0
  BY <1>1, <1>2, FS_CardinalityType, FS_EmptySet
<1> QED BY <1>1, <1>2, <1>3 DEF Mounted

LEMMA DirsMadeStep ==
  ASSUME Typed, SharesHeld, DirsMade, [Next]_vars
  PROVE  DirsMade'
<1>1. RpcTyped /\ ContextTyped /\ MountsTyped /\ Grows
  BY TypedParts, TypedStep
<1>2. SUFFICES ASSUME NEW g \in Handlers, Holds(g)', job'[g].op = "create", pc'[g] # "mkdir"
               PROVE  job'[g].vol \in dirs'[home[job'[g].vol]]
  BY <1>1 DEF DirsMade, Grows, home
<1>3. CASE /\ Holds(g) /\ job[g].op = "create" /\ pc[g] # "mkdir"
           /\ job'[g].vol = job[g].vol
  <2>1. job[g].vol \in dirs[home[job[g].vol]] /\ home[job[g].vol] \in Shares
    BY <1>1, <1>3, JobFacts DEF DirsMade, Holds, Below
  <2> QED BY <1>1, <1>3, <2>1 DEF Grows
<1>4. CASE \E h \in Handlers : Works(h)
  <2>1. PICK h \in Handlers : Works(h)
    BY <1>4
  <2>2. CASE AuthMountShare(h)
    <3>1. g # h
      BY <1>2, <2>2, ReplyEnds, MoveGoes DEF AuthMountShare, Holds, Ends, Goes
    <3>2. Others(h)
      BY <2>1, HandlerMoves DEF Ends, Goes
    <3> QED BY <1>2, <1>3, <3>1, <3>2 DEF Others, Holds
  <2>3. CASE ~AuthMountShare(h)
    <3>1. Holds(g) /\ job'[g].op = job[g].op /\ job'[g].vol = job[g].vol
      BY <1>2, <2>1, <2>3, HandlerHolds
    <3>2. CASE pc[g] = "mkdir"
      <4>1. Others(h)
        BY <2>1, HandlerMoves DEF Ends, Goes
      <4>2. g = h
        BY <1>2, <3>2, <4>1 DEF Others
      <4>3. CreateDir(h)
        BY <2>1, <3>2, <4>2 DEF Works, At, FindVolume, AuthMountShare, SwitchSource, ExtractSnap, CopyVolume,
           UnmountBelow, FindSource, AuthMountMkdir, AuthMountVolume, UnmountOwn, Compress, OpenArchive,
           WriteArchive, RemoveArchive
      <4>4. MkdirAll(Below(h), job[h].vol)
        BY <1>2, <4>2, <4>3, ReplyEnds DEF CreateDir, Ends, Holds
      <4>5. Below(h) \in Shares /\ Mounted(Below(h)) /\ job[h].vol \in Volumes
        BY <1>1, <3>1, <4>2, HolderMounted, JobFacts DEF Holds
      <4> QED BY <3>1, <4>2, <4>4, <4>5, MkdirFacts DEF Below
    <3> QED BY <1>2, <1>3, <3>1, <3>2
  <2> QED BY <2>2, <2>3
<1>5. CASE \E h \in Handlers : Timeout(h)
  BY <1>2, <1>3, <1>5 DEF Timeout, Holds
<1>6. CASE \E h \in Handlers : Request(h)
  BY <1>2, <1>3, <1>6, RequestFacts DEF Holds
<1>7. CASE Outside
  BY <1>2, <1>3, <1>7, OutsideTyped DEF rpc, Holds
<1>8. CASE Restart
  BY <1>2, <1>8 DEF Restart, Holds
<1>9. CASE UNCHANGED vars
  BY <1>2, <1>3, <1>9 DEF vars, rpc, Holds
<1> QED BY <1>4, <1>5, <1>6, <1>7, <1>8, <1>9, NextCases

-----------------------------------------------------------------------------
(* Which handlers change what the API server has: CreateVolume on its last *)
(* step binds a new volume, CreateSnapshot and DeleteSnapshot settle their *)
(* own snapshot.                                                           *)

Binds(h, v) ==
  /\ UnmountBelow(h) /\ h \in awaited /\ job[h].op = "create" /\ job[h].vol = v
  /\ claim[v] = "new" /\ (source[v] = None \/ job[h].full)
  /\ owed'[v] = job[h].due

LEMMA ReplyCreatedClaims ==
  ASSUME RpcTyped, ContextTyped, NEW h \in Handlers, pc[h] # "idle", NEW full, ReplyCreated(h, full),
         NEW v \in Volumes
  PROVE  \/ claim'[v] = claim[v] /\ owed'[v] = owed[v]
         \/ /\ h \in awaited /\ job[h].vol = v /\ claim[v] = "new" /\ (source[v] = None \/ full)
            /\ owed'[v] = job[h].due
<1>1. job[h].vol \in Volumes
  BY JobFacts
<1>2. /\ claim \in [Volumes -> {"new", "bound", "deleted"}]
      /\ owed \in [Volumes \union Snaps -> SUBSET Files]
  BY DEF RpcTyped
<1> QED BY <1>1, <1>2 DEF ReplyCreated

LEMMA ReplySnapshotOwes ==
  ASSUME RpcTyped, ContextTyped, NEW h \in Handlers, pc[h] # "idle", job[h].op \in OfSnapshot
  PROVE  /\ ReplySnapshot(h) =>
              /\ \A v \in Volumes : owed'[v] = owed[v]
              /\ \A s \in Snaps : \/ content'[s] = content[s] /\ owed'[s] = owed[s]
                                  \/ /\ job[h].snap = s /\ content[s] = "created"
                                     /\ content'[s] = "ready" /\ owed'[s] = job[h].due
         /\ ReplySnapshotGone(h) =>
              \A s \in Snaps : \/ content'[s] = content[s] /\ owed'[s] = owed[s]
                               \/ job[h].snap = s /\ content'[s] = "deleted" /\ owed'[s] = owed[s]
<1>1. job[h].snap \in Snaps /\ \A v \in Volumes : v \notin Snaps
  BY JobFacts, ControllerAssumption
<1>2. /\ content \in [Snaps -> {"new", "created", "ready", "deleting", "deleted"}]
      /\ owed \in [Volumes \union Snaps -> SUBSET Files]
  BY DEF RpcTyped
<1> QED BY <1>1, <1>2 DEF ReplySnapshot, ReplySnapshotGone

LEMMA HandlerClaims ==
  ASSUME Typed, NEW h \in Handlers, Works(h), NEW v \in Volumes
  PROVE  (claim'[v] = claim[v] /\ owed'[v] = owed[v]) \/ Binds(h, v)
<1>1. RpcTyped /\ ContextTyped /\ pc[h] # "idle" /\ job[h].op \in Operations
  BY TypedParts, HandlerMoves, JobFacts
<1>2. CASE UNCHANGED <<claim, owed>>
  BY <1>2
<1>3. CASE FindVolume(h)
  <2>1. CASE Bound(job[h].vol) /\ ReplyCreated(h, TRUE)
    BY <2>1 DEF ReplyCreated, Bound
  <2>2. CASE GoTo(h, "mount")
    BY <2>2 DEF GoTo, api
  <2> QED BY <1>3, <2>1, <2>2, FindVolumeSteps
<1>4. CASE UnmountBelow(h)
  <2>1. CASE job[h].op = "create"
    <3>1. ReplyCreated(h, job[h].full)
      BY <1>4, <2>1 DEF UnmountBelow
    <3> QED BY <1>1, <1>4, <2>1, <3>1, ReplyCreatedClaims DEF Binds
  <2>2. CASE job[h].op # "create"
    BY <1>4, <2>2 DEF UnmountBelow, Reply, api
  <2> QED BY <2>1, <2>2
<1>5. CASE ReplySnapshot(h) /\ job[h].op = "snapshot"
  BY <1>1, <1>5, ReplySnapshotOwes DEF ReplySnapshot, OfSnapshot
<1>6. CASE ReplySnapshotGone(h)
  BY <1>6 DEF ReplySnapshotGone
<1>7. AuthMountFails(h) => UNCHANGED <<claim, owed>>
  BY DEF AuthMountFails, GoTo, Reply, api
<1>8. \/ UNCHANGED <<claim, owed>> \/ FindVolume(h) \/ UnmountBelow(h)
      \/ (ReplySnapshot(h) /\ job[h].op = "snapshot") \/ ReplySnapshotGone(h)
  BY <1>7, AuthMountVolumeSteps DEF Works, AuthMountShare, CreateDir, SwitchSource,
     ExtractSnap, CopyVolume, FindSource, AuthMountMkdir, UnmountOwn,
     Compress, OpenArchive, WriteArchive, RemoveArchive, GoTo, Reply, api
<1> QED BY <1>2, <1>3, <1>4, <1>5, <1>6, <1>8

LEMMA HandlerContents ==
  ASSUME Typed, NEW h \in Handlers, Works(h), NEW s \in Snaps
  PROVE  \/ content'[s] = content[s] /\ owed'[s] = owed[s]
         \/ /\ UnmountOwn(h) /\ job[h].op = "snapshot" /\ job[h].snap = s
            /\ content[s] = "created" /\ content'[s] = "ready" /\ owed'[s] = job[h].due
         \/ /\ job[h].op = "unsnapshot" /\ job[h].snap = s
            /\ content'[s] = "deleted" /\ owed'[s] = owed[s]
<1>1. RpcTyped /\ ContextTyped /\ pc[h] # "idle" /\ job[h].op \in Operations
  BY TypedParts, HandlerMoves, JobFacts
<1>2. CASE UNCHANGED <<content, owed>>
  BY <1>2
<1>3. CASE job[h].op = "create" /\ \E full : ReplyCreated(h, full)
  <2>1. job[h].vol \in Volumes /\ s \notin Volumes
    BY <1>1, JobFacts, ControllerAssumption
  <2>2. owed \in [Volumes \union Snaps -> SUBSET Files]
    BY <1>1 DEF RpcTyped
  <2> QED BY <1>3, <2>1, <2>2 DEF ReplyCreated
<1>4. CASE UnmountOwn(h) /\ ReplySnapshot(h) /\ job[h].op = "snapshot"
  BY <1>1, <1>4, ReplySnapshotOwes DEF OfSnapshot
<1>5. CASE ReplySnapshotGone(h) /\ job[h].op = "unsnapshot"
  BY <1>1, <1>5, ReplySnapshotOwes DEF OfSnapshot
<1>6. AuthMountFails(h) => UNCHANGED <<content, owed>>
  BY DEF AuthMountFails, GoTo, Reply, api
<1>7. \/ UNCHANGED <<content, owed>>
      \/ job[h].op = "create" /\ \E full : ReplyCreated(h, full)
      \/ UnmountOwn(h) /\ ReplySnapshot(h) /\ job[h].op = "snapshot"
      \/ ReplySnapshotGone(h) /\ job[h].op = "unsnapshot"
  BY <1>6, AuthMountVolumeSteps DEF Works, At, FindVolume, AuthMountShare, CreateDir, SwitchSource,
     ExtractSnap, CopyVolume, UnmountBelow, FindSource, AuthMountMkdir, UnmountOwn,
     Compress, OpenArchive, WriteArchive, RemoveArchive, GoTo, Reply, api
<1> QED BY <1>2, <1>3, <1>4, <1>5, <1>7

LEMMA VolumesOnShareStep ==
  ASSUME Typed, DirsMade, VolumesOnShare, [Next]_vars
  PROVE  VolumesOnShare'
<1>1. RpcTyped /\ ContextTyped /\ Grows
  BY TypedParts, TypedStep
<1>2. SUFFICES ASSUME NEW v \in Volumes, Bound(v)' PROVE v \in dirs'[home[v]]
  BY <1>1 DEF VolumesOnShare, Grows, home
<1>3. CASE v \in dirs[home[v]]
  BY <1>1, <1>3, ScenarioFacts DEF Grows
<1>4. CASE claim'[v] = claim[v]
  BY <1>2, <1>3, <1>4 DEF VolumesOnShare, Bound
<1>5. ASSUME NEW h \in Handlers, Works(h) PROVE v \in dirs'[home[v]]
  <2>1. CASE Binds(h, v)
    <3>1. Holds(h) /\ job[h].op = "create" /\ pc[h] # "mkdir" /\ job[h].vol = v
      BY <2>1 DEF Binds, UnmountBelow, At, Holds
    <3> QED BY <1>3, <3>1 DEF DirsMade
  <2> QED BY <1>4, <1>5, <2>1, HandlerClaims
<1>6. CASE Outside
  <2>1. claim'[v] = claim[v] \/ claim'[v] = "deleted"
    BY <1>1, <1>6 DEF Outside, DeleteVolume, PodWrites, SnapshotRequested, SnapshotUnwanted, api, RpcTyped
  <2> QED BY <1>2, <1>4, <2>1 DEF Bound
<1> QED BY <1>4, <1>5, <1>6, NextCases, RequestFacts DEF Timeout, Restart, vars, api

-----------------------------------------------------------------------------
(* Which request a handler serves, and whether a call has timed out.       *)

LEMMA KnownStep ==
  ASSUME Typed, [Next]_vars, Known'
  PROVE  Known /\ \A h \in Handlers : ~Timeout(h)
<1>1. faults.timeouts \in Nat /\ faults'.timeouts \in Nat /\ faults'.timeouts >= faults.timeouts
  BY TypedParts, TypedStep DEF ContextTyped, Grows
<1>2. ASSUME NEW h \in Handlers, Timeout(h) PROVE FALSE
  <2>1. faults \in [timeouts : Nat, crashes : Nat, errors : Nat]
    BY TypedParts DEF ContextTyped
  <2>2. faults'.timeouts = faults.timeouts + 1
    BY <1>2, <2>1 DEF Timeout
  <2> QED BY <1>1, <2>2 DEF Known
<1> QED BY <1>1, <1>2 DEF Known

(* The conjuncts of Single. *)
AllAwaited == \A h \in Handlers : pc[h] # "idle" => h \in awaited
NoTwins ==
  \A g, h \in Handlers :
    /\ pc[g] # "idle" /\ pc[h] # "idle"
    /\ <<job[g].op, job[g].vol, job[g].snap>> = <<job[h].op, job[h].vol, job[h].snap>>
    => g = h
Timely(h) ==
  /\ job[h].op = "create" /\ source[job[h].vol] \in Snaps =>
       content[source[job[h].vol]] \in {"ready", "deleting", "deleted"}
  /\ job[h].op = "snapshot" => content[job[h].snap] = "created"
  /\ job[h].op = "unsnapshot" => content[job[h].snap] = "deleting"

LEMMA SingleParts ==
  /\ Single <=> AllAwaited /\ NoTwins /\ \A h \in Handlers : pc[h] # "idle" => Timely(h)
  /\ Single' <=> AllAwaited' /\ NoTwins' /\ \A h \in Handlers : pc'[h] # "idle" => Timely(h)'
  BY DEF Single, AllAwaited, NoTwins, Timely

LEMMA HandlerActive ==
  ASSUME Typed, NEW h \in Handlers, Works(h), NEW g \in Handlers, pc'[g] # "idle"
  PROVE  /\ pc[g] # "idle"
         /\ job'[g].op = job[g].op /\ job'[g].vol = job[g].vol
         /\ job'[g].snap = job[g].snap /\ job'[g].due = job[g].due
         /\ g # h => pc'[g] = pc[g] /\ job'[g] = job[g]
  BY HandlerMoves DEF Ends, Goes, Others, SameRequest

LEMMA RequestNames ==
  ASSUME Typed, NEW h \in Handlers, Request(h)
  PROVE  /\ \A g \in awaited :
              <<job[g].op, job[g].vol, job[g].snap>> # <<job'[h].op, job'[h].vol, job'[h].snap>>
         /\ job'[h].op = "create" =>
              /\ pc'[h] = "get"
              /\ source[job'[h].vol] \in Snaps => /\ content[source[job'[h].vol]] = "ready"
                                                  /\ job'[h].due = archive[source[job'[h].vol]].holds
              /\ source[job'[h].vol] \in Volumes => job'[h].due = files[source[job'[h].vol]]
         /\ job'[h].op = "snapshot" => /\ content[job'[h].snap] = "created"
                                       /\ job'[h].due = files[job'[h].vol] /\ pc'[h] = "get"
         /\ job'[h].op = "unsnapshot" => content[job'[h].snap] = "deleting" /\ pc'[h] = "get"
<1>1. RpcTyped /\ ContextTyped
  BY TypedParts
<1>2. ASSUME NEW op, NEW v, NEW s, NEW due, NEW first, Starts(h, op, v, s, due, first)
      PROVE  /\ \A g \in awaited :
                  <<job[g].op, job[g].vol, job[g].snap>> # <<job'[h].op, job'[h].vol, job'[h].snap>>
             /\ job'[h].op = op /\ job'[h].vol = v /\ job'[h].snap = s /\ job'[h].due = due
             /\ pc'[h] = first
  <2>1. job'[h] = Job(op, v, s, due) /\ pc'[h] = first
    BY <1>1, <1>2 DEF Starts, RpcTyped
  <2>2. Job(op, v, s, due).op = op /\ Job(op, v, s, due).vol = v /\ Job(op, v, s, due).snap = s
        /\ Job(op, v, s, due).due = due
    BY DEF Job
  <2>3. \A g \in awaited : <<job[g].op, job[g].vol, job[g].snap>> # <<op, v, s>>
    BY <1>2 DEF Starts
  <2> QED BY <2>1, <2>2, <2>3
<1>3. CASE \E v \in Volumes, due \in SUBSET Files :
             /\ Starts(h, "create", v, None, due, "get")
             /\ claim[v] # "deleted"
             /\ \/ source[v] = None
                \/ source[v] \in Snaps /\ content[source[v]] = "ready" /\ due = archive[source[v]].holds
                \/ source[v] \in Volumes /\ Bound(source[v]) /\ due = files[source[v]]
  <2>1. PICK v \in Volumes, due \in SUBSET Files :
             /\ Starts(h, "create", v, None, due, "get")
             /\ \/ source[v] = None
                \/ source[v] \in Snaps /\ content[source[v]] = "ready" /\ due = archive[source[v]].holds
                \/ source[v] \in Volumes /\ Bound(source[v]) /\ due = files[source[v]]
    BY <1>3
  <2>2. source[v] \in Snaps => source[v] # None /\ source[v] \notin Volumes
    BY <1>1, ScenarioFacts
  <2>3. source[v] \in Volumes => source[v] # None
    BY <1>1, ScenarioFacts
  <2> QED BY <1>2, <2>1, <2>2, <2>3
<1>4. CASE \E v \in Volumes : Starts(h, "publish", v, None, {}, "mount")
  BY <1>2, <1>4
<1>5. CASE \E v \in Volumes : Starts(h, "unpublish", v, None, {}, "get")
  BY <1>2, <1>5
<1>6. CASE \E s \in Snaps : /\ Starts(h, "snapshot", SnapOf[s], s, files[SnapOf[s]], "get")
                            /\ content[s] = "created"
  BY <1>2, <1>6
<1>7. CASE \E s \in Snaps : Starts(h, "unsnapshot", SnapOf[s], s, {}, "get") /\ content[s] = "deleting"
  BY <1>2, <1>7
<1> QED BY <1>3, <1>4, <1>5, <1>6, <1>7 DEF Request

-----------------------------------------------------------------------------
(* At all times: one awaited handler for each object, and no CreateVolume  *)
(* that goes on although its lookup has found the volume.                  *)

LEMMA HandlerMissed ==
  ASSUME Typed, NEW h \in Handlers, Works(h), pc'[h] # "idle", pc[h] # "get"
  PROVE  job'[h].missed = job[h].missed
<1>1. job[h] \in Jobs /\ job \in [Handlers -> Jobs \union {None}]
  BY TypedParts, HandlerMoves, JobFacts DEF RpcTyped
<1>2. CASE ExtractSnap(h) \/ UnmountOwn(h)
  <2>1. job' = job \/ job' = [job EXCEPT ![h].full = TRUE] \/ Ends(h)
    BY <1>2, ReplyEnds DEF ExtractSnap, UnmountOwn
  <2>2. ASSUME job' = [job EXCEPT ![h].full = TRUE] PROVE job'[h].missed = job[h].missed
    BY <1>1, <2>2 DEF Jobs
  <2> QED BY <2>1, <2>2 DEF Ends
<1>3. CASE OpenArchive(h)
  <2>1. job' = [job EXCEPT ![h].shared = Reaches(Below(h), job[h].vol)] \/ Ends(h)
    BY <1>3, ReplyEnds DEF OpenArchive
  <2> DEFINE b == Reaches(Below(h), job[h].vol)
  <2> HIDE DEF b
  <2>2. ASSUME job' = [job EXCEPT ![h].shared = b] PROVE job'[h].missed = job[h].missed
    BY <1>1, <2>2 DEF Jobs
  <2> QED BY <2>1, <2>2 DEF Ends, b
<1>4. CASE Compress(h)
  BY <1>4, CompressPacks, ReplyEnds DEF Ends
<1>5. CASE ~ExtractSnap(h) /\ ~UnmountOwn(h) /\ ~OpenArchive(h) /\ ~Compress(h)
  <2>1. ~FindVolume(h)
    BY FindVolumeSteps
  <2>2. AuthMountFails(h) => job' = job \/ Ends(h)
    BY ReplyEnds DEF AuthMountFails
  <2>3. job' = job \/ Ends(h)
    BY <1>5, <2>1, <2>2, ReplyEnds, SwitchSourceSteps, FindSourceSteps, AuthMountVolumeSteps
    DEF Works, AuthMountShare, CreateDir, CopyVolume, UnmountBelow, AuthMountMkdir, WriteArchive,
        RemoveArchive
  <2> QED BY <2>3 DEF Ends
<1> QED BY <1>2, <1>3, <1>4, <1>5

LEMMA PromptHandler ==
  ASSUME Typed, Prompt, NEW h \in Handlers, Works(h)
  PROVE  Prompt'
<1>1. RpcTyped /\ ContextTyped /\ RpcTyped' /\ scenario' = scenario
  BY TypedParts, HandlerTyped DEF Grows
<1>2. awaited' \subseteq awaited
  BY HandlerMoves DEF Ends, Goes
<1>3. ASSUME NEW g \in awaited'
      PROVE  /\ g \in Handlers /\ g \in awaited /\ pc'[g] # "idle" /\ pc[g] # "idle"
             /\ Ours(g)' = Ours(g) /\ job'[g].op = job[g].op /\ job'[g].vol = job[g].vol
  BY <1>1, <1>2, <1>3, HandlerActive DEF RpcTyped, Ours
<1>4. OneAwaited'
  BY <1>3 DEF Prompt, OneAwaited
<1>5. ASSUME NEW g \in awaited', job'[g].op = "create", pc'[g] # "get", ~job'[g].missed,
             claim'[job'[g].vol] = "bound"
      PROVE  FALSE
  <2>1. job[g].op = "create" /\ job[g].vol \in Volumes /\ claim'[job[g].vol] = "bound" /\ NotAgain(g)
    <3>1. job[g].vol \in Volumes
      BY <1>1, <1>3, JobFacts
    <3>2. NotAgain(g)
      BY <1>3 DEF Prompt
    <3>3. job[g].op = "create" /\ claim'[job[g].vol] = "bound"
      BY <1>3, <1>5
    <3> QED BY <3>1, <3>2, <3>3
  <2>2. CASE Binds(h, job[g].vol)
    <3>1. h \in awaited /\ Ours(h) = Ours(g)
      <4>1. h \in awaited /\ job[h].op = "create" /\ job[h].vol = job[g].vol
        BY <2>2 DEF Binds
      <4>2. job[h].snap = None /\ job[g].snap = None
        BY <1>1, <1>3, <2>1, <4>1 DEF RpcTyped, JobFits, OfSnapshot
      <4> QED BY <2>1, <4>1, <4>2 DEF Ours
    <3>2. h = g
      BY <1>3, <3>1 DEF Prompt, OneAwaited
    <3>3. Ends(h)
      BY <2>2, ReplyEnds DEF Binds, UnmountBelow
    <3> QED BY <1>3, <3>2, <3>3 DEF Ends
  <2>3. CASE claim'[job[g].vol] = claim[job[g].vol]
    <3>1. Bound(job[g].vol)
      BY <2>1, <2>3 DEF Bound
    <3>2. g = h
      BY <1>3, <1>5, <2>1, <3>1, HandlerActive DEF NotAgain
    <3>3. CASE pc[h] # "get"
      BY <1>3, <1>5, <2>1, <3>1, <3>2, <3>3, HandlerMissed DEF NotAgain
    <3>4. CASE pc[h] = "get"
      <4>1. FindVolume(h)
        BY <2>1, <3>2, <3>4 DEF Works, At, AuthMountShare, CreateDir, SwitchSource, ExtractSnap, CopyVolume,
             UnmountBelow, FindSource, AuthMountMkdir, AuthMountVolume, UnmountOwn, Compress, OpenArchive,
             WriteArchive, RemoveArchive
      <4>2. job' = [job EXCEPT ![h].missed = Bound(job[h].vol)]
        BY <1>3, <3>2, <4>1, FindVolumeSteps, ReplyEnds DEF Ends
      <4>3. job[h] \in Jobs /\ job \in [Handlers -> Jobs \union {None}]
        BY <1>1, <1>3, <3>2, JobFacts DEF RpcTyped
      <4> DEFINE b == Bound(job[h].vol)
      <4>4. b
        BY <3>1, <3>2
      <4> HIDE DEF b
      <4>5. ASSUME job' = [job EXCEPT ![h].missed = b] PROVE job'[h].missed = b
        BY <4>3, <4>5 DEF Jobs
      <4> QED BY <1>5, <3>2, <4>2, <4>4, <4>5 DEF b
    <3> QED BY <3>3, <3>4
  <2> QED BY <2>1, <2>2, <2>3, HandlerClaims
<1> QED BY <1>4, <1>5 DEF Prompt, NotAgain, Bound

LEMMA PromptStep ==
  ASSUME Typed, Prompt, [Next]_vars
  PROVE  Prompt'
<1>1. RpcTyped
  BY TypedParts
<1>2. ASSUME NEW h \in Handlers, Request(h) PROVE Prompt'
  <2>1. /\ pc'[h] \in {"get", "mount"} /\ awaited' = awaited \union {h} /\ UNCHANGED claim
        /\ \A g \in Handlers : g # h => pc'[g] = pc[g] /\ job'[g] = job[g]
        /\ pc[h] = "idle"
    BY <1>2, RequestFacts DEF api
  <2>2. h \notin awaited /\ awaited \subseteq Handlers
    BY <1>1, <2>1 DEF RpcTyped
  <2>3. \A g \in awaited : Ours(g)' = Ours(g) /\ Ours(g) # Ours(h)'
    BY <1>2, <2>1, <2>2, RequestNames DEF Ours
  <2>4. OneAwaited'
    BY <2>1, <2>3 DEF Prompt, OneAwaited
  <2>5. ASSUME NEW g \in awaited' PROVE NotAgain(g)'
    <3>1. CASE g = h
      BY <1>2, <3>1, RequestNames DEF NotAgain
    <3>2. CASE g # h
      BY <2>1, <2>2, <2>5, <3>2 DEF Prompt, NotAgain, Bound
    <3> QED BY <3>1, <3>2
  <2> QED BY <2>4, <2>5 DEF Prompt
<1>3. CASE Outside
  <2>1. UNCHANGED <<pc, job, awaited>>
    BY <1>3, OutsideTyped DEF rpc
  <2>2. \A v \in Volumes : Bound(v)' => Bound(v)
    BY <1>1, <1>3 DEF Outside, DeleteVolume, PodWrites, SnapshotRequested, SnapshotUnwanted, api, RpcTyped,
         Bound
  <2>3. \A g \in awaited : job[g].vol \in Volumes
    BY <1>1, TypedParts, JobFacts DEF RpcTyped
  <2> QED BY <2>1, <2>2, <2>3 DEF Prompt, OneAwaited, NotAgain, Ours
<1>4. ASSUME NEW h \in Handlers, Timeout(h) PROVE Prompt'
  <2>1. UNCHANGED <<pc, job, claim>> /\ awaited' \subseteq awaited
    BY <1>4 DEF Timeout, api
  <2> QED BY <2>1 DEF Prompt, OneAwaited, NotAgain, Ours, Bound
<1>5. CASE Restart
  BY <1>5 DEF Restart, Prompt, OneAwaited
<1>6. CASE UNCHANGED vars
  BY <1>6 DEF vars, rpc, api, Prompt, OneAwaited, NotAgain, Ours, Bound
<1> QED BY <1>2, <1>3, <1>4, <1>5, <1>6, NextCases, PromptHandler

-----------------------------------------------------------------------------
(* As long as no call has timed out: one handler for each object.          *)

LEMMA SameSnapshot ==
  ASSUME Typed, Single, NEW g \in Handlers, NEW h \in Handlers, pc[g] # "idle", pc[h] # "idle",
         job[g].op = job[h].op, job[g].op \in OfSnapshot, job[g].snap = job[h].snap
  PROVE  g = h
<1>1. job[g].vol = SnapOf[job[g].snap] /\ job[h].vol = SnapOf[job[h].snap]
  BY TypedParts DEF RpcTyped, JobFits
<1> QED BY <1>1 DEF Single

LEMMA SameVolume ==
  ASSUME Typed, Single, NEW g \in Handlers, NEW h \in Handlers, pc[g] # "idle", pc[h] # "idle",
         job[g].op = job[h].op, job[g].op \notin OfSnapshot, job[g].vol = job[h].vol
  PROVE  g = h
<1>1. job[g].snap = None /\ job[h].snap = None
  BY TypedParts DEF RpcTyped, JobFits
<1> QED BY <1>1 DEF Single

LEMMA SingleHandler ==
  ASSUME Typed, Single, NEW h \in Handlers, Works(h)
  PROVE  Single'
<1>1. RpcTyped /\ ContextTyped /\ RpcTyped' /\ scenario' = scenario
  BY TypedParts, HandlerTyped DEF Grows
<1>2. AllAwaited'
  <2>1. awaited' = awaited \/ (awaited' = awaited \ {h} /\ pc'[h] = "idle")
    BY HandlerMoves DEF Ends, Goes
  <2> QED BY <2>1, HandlerActive, SingleParts DEF AllAwaited
<1>3. NoTwins'
  <2>1. NoTwins
    BY SingleParts
  <2> QED BY <2>1, HandlerActive DEF NoTwins
<1>4. ASSUME NEW g \in Handlers, pc'[g] # "idle" PROVE Timely(g)'
  <2>1. /\ pc[g] # "idle" /\ Timely(g) /\ pc[h] # "idle"
        /\ job'[g].op = job[g].op /\ job'[g].vol = job[g].vol /\ job'[g].snap = job[g].snap
    BY <1>4, HandlerActive, HandlerMoves, SingleParts
  <2>2. job[g].vol \in Volumes /\ (job[g].op \in OfSnapshot => job[g].snap \in Snaps)
    BY <1>1, <2>1, JobFacts
  <2>3. ASSUME job'[g].op = "create", source[job[g].vol] \in Snaps
        PROVE  content'[source[job[g].vol]] \in {"ready", "deleting", "deleted"}
    <3>1. content[source[job[g].vol]] \in {"ready", "deleting", "deleted"}
      BY <2>1, <2>3 DEF Timely
    <3> QED BY <2>3, <3>1, HandlerContents
  <2>4. ASSUME job'[g].op \in OfSnapshot PROVE content'[job[g].snap] = content[job[g].snap]
    <3>1. job[g].snap \in Snaps
      BY <2>1, <2>2, <2>4
    <3>2. CASE UnmountOwn(h) /\ job[h].op = "snapshot" /\ job[h].snap = job[g].snap
               /\ content[job[g].snap] = "created"
      <4>1. job[g].op = "snapshot"
        BY <2>1, <2>4, <3>2 DEF Timely, OfSnapshot
      <4>2. g = h
        BY <2>1, <3>2, <4>1, SameSnapshot DEF OfSnapshot
      <4>3. Ends(h)
        BY <3>2, ReplyEnds DEF UnmountOwn
      <4> QED BY <1>4, <4>2, <4>3 DEF Ends
    <3>3. CASE job[h].op = "unsnapshot" /\ job[h].snap = job[g].snap
      <4>1. content[job[g].snap] = "deleting"
        BY <2>1, <3>3, SingleParts DEF Timely
      <4>2. job[g].op = "unsnapshot"
        BY <2>1, <2>4, <4>1 DEF Timely, OfSnapshot
      <4>3. g = h
        BY <2>1, <3>3, <4>2, SameSnapshot DEF OfSnapshot
      <4>4. \A call : ~Ends(h) /\ Goes(h, call) => UNCHANGED content
        BY DEF Goes
      <4> QED BY <1>4, <4>3, <4>4, HandlerMoves DEF Ends
    <3> QED BY <3>1, <3>2, <3>3, HandlerContents
  <2> QED BY <1>1, <2>1, <2>3, <2>4 DEF Timely, source, OfSnapshot
<1> QED BY <1>2, <1>3, <1>4, SingleParts

LEMMA SingleRequest ==
  ASSUME Typed, Single, NEW h \in Handlers, Request(h)
  PROVE  Single'
<1>1. /\ pc[h] = "idle" /\ pc'[h] \in {"get", "mount"} /\ awaited' = awaited \union {h}
      /\ \A g \in Handlers : g # h => pc'[g] = pc[g] /\ job'[g] = job[g]
      /\ UNCHANGED <<claim, content, scenario>>
  BY RequestFacts DEF api
<1>2. AllAwaited /\ NoTwins /\ \A g \in Handlers : pc[g] # "idle" => Timely(g)
  BY SingleParts
<1>3. AllAwaited'
  BY <1>1, <1>2 DEF AllAwaited
<1>4. NoTwins'
  <2>1. ASSUME NEW f \in Handlers, NEW g \in Handlers, pc'[f] # "idle", pc'[g] # "idle",
               <<job'[f].op, job'[f].vol, job'[f].snap>> = <<job'[g].op, job'[g].vol, job'[g].snap>>
        PROVE  f = g
    <3>1. CASE f = h /\ g # h
      BY <1>1, <1>2, <2>1, <3>1, RequestNames DEF AllAwaited
    <3>2. CASE f # h /\ g = h
      BY <1>1, <1>2, <2>1, <3>2, RequestNames DEF AllAwaited
    <3>3. CASE f # h /\ g # h
      BY <1>1, <1>2, <2>1, <3>3 DEF NoTwins
    <3> QED BY <3>1, <3>2, <3>3
  <2> QED BY <2>1 DEF NoTwins
<1>5. ASSUME NEW g \in Handlers, pc'[g] # "idle" PROVE Timely(g)'
  <2>1. CASE g = h
    BY <1>1, <2>1, RequestNames DEF Timely, source
  <2>2. CASE g # h
    BY <1>1, <1>2, <1>5, <2>2 DEF Timely, source
  <2> QED BY <2>1, <2>2
<1> QED BY <1>3, <1>4, <1>5, SingleParts

LEMMA SingleOutside ==
  ASSUME Typed, Single, Outside
  PROVE  Single'
<1>1. UNCHANGED <<pc, job, awaited, scenario>> /\ RpcTyped
  BY OutsideTyped, TypedParts DEF rpc, context
<1>2. AllAwaited /\ NoTwins /\ \A g \in Handlers : pc[g] # "idle" => Timely(g)
  BY SingleParts
<1>3. AllAwaited' /\ NoTwins'
  BY <1>1, <1>2 DEF AllAwaited, NoTwins
<1>4. \A s \in Snaps : \/ content'[s] = content[s]
                       \/ content[s] = "new" /\ content'[s] = "created"
                       \/ /\ content[s] \in {"created", "ready"} /\ content'[s] = "deleting"
                          /\ \A g \in awaited : job[g].snap # s
  BY <1>1 DEF Outside, DeleteVolume, PodWrites, SnapshotRequested, SnapshotUnwanted, api, RpcTyped
<1>5. ASSUME NEW g \in Handlers, pc'[g] # "idle" PROVE Timely(g)'
  <2>1. /\ Timely(g) /\ g \in awaited /\ job[g].vol \in Volumes
        /\ job[g].op \in OfSnapshot => job[g].snap \in Snaps
    BY <1>1, <1>2, <1>5, TypedParts, JobFacts DEF AllAwaited
  <2>2. job[g].op \in OfSnapshot => content'[job[g].snap] = content[job[g].snap]
    BY <1>4, <2>1 DEF Timely, OfSnapshot
  <2>3. job[g].op = "create" /\ source[job[g].vol] \in Snaps =>
          content'[source[job[g].vol]] \in {"ready", "deleting", "deleted"}
    BY <1>4, <2>1 DEF Timely
  <2> QED BY <1>1, <2>1, <2>2, <2>3 DEF Timely, source, OfSnapshot
<1> QED BY <1>3, <1>5, SingleParts

LEMMA SingleStep ==
  ASSUME Typed, Single, [Next]_vars, Known'
  PROVE  Single'
<1>1. CASE Restart
  BY <1>1 DEF Restart, Single
<1>2. CASE UNCHANGED vars
  BY <1>2 DEF vars, rpc, api, context, Single, source
<1> QED BY <1>1, <1>2, NextCases, KnownStep, SingleHandler, SingleRequest, SingleOutside

(* What the parts proved so far make up.                                   *)

LEMMA FramedInit ==
  ASSUME Init
  PROVE  Framed
<1>1. Typed
  BY TypedInit
<1>2. ASSUME NEW n \in Shares
      PROVE  /\ IsFiniteSet(Holders(n)) /\ Cardinality(Holders(n)) < Len(mounts[n])
             /\ Len(mounts[n]) <= scenario.stack + 1
  <2>1. Holders(n) = {} /\ Len(mounts[n]) = 1
    BY NoMountsFacts DEF Init, Holders, Holds
  <2>2. scenario.stack \in Nat
    BY <1>1, TypedParts, ScenarioFacts
  <2> QED BY <2>1, <2>2, FS_EmptySet
<1> QED BY <1>1, <1>2 DEF Framed, SharesHeld, Init, DirsMade, Holds, VolumesOnShare, Bound, Prompt, OneAwaited, Single

LEMMA FramedStep ==
  ASSUME Framed, [Next]_vars
  PROVE  Framed'
  BY TypedStep, SharesHeldStep, DirsMadeStep, VolumesOnShareStep, PromptStep, KnownStep, SingleStep
  DEF Framed

LEMMA InductiveFramed == Spec => []Framed
<1>1. Init => Framed
  BY FramedInit
<1>2. Framed /\ [Next]_vars => Framed'
  BY FramedStep
<1> QED BY <1>1, <1>2, PTL DEF Spec

(* An acknowledged volume has its directory on its server, not on the      *)
(* container's disk, however CreateVolume and ControllerPublishVolume      *)
(* overlap, fail, time out or are cut short by a restart.                  *)
THEOREM VolumesAreOnTheShare == Spec => []VolumesOnShare
<1>1. Framed => VolumesOnShare
  BY DEF Framed
<1> QED BY <1>1, InductiveFramed, PTL

(* No CreateVolume whose caller still waits unpacks or copies over an      *)
(* acknowledged volume, unless its own lookup of the volume failed.        *)
THEOREM NoRestoreIsLate == Spec => []NoLateRestore
<1>1. ASSUME Framed PROVE NoLateRestore
  <2>1. ASSUME NEW h \in Handlers, pc[h] \in {"extract", "copy"}, Bound(job[h].vol), h \in awaited
        PROVE  job[h].missed
    <3>1. JobFits(h) /\ pc[h] # "idle" /\ job[h].op \in Operations
      BY <1>1, <2>1, TypedParts, JobFacts DEF Framed, RpcTyped
    <3>2. job[h].op = "create"
      BY <2>1, <3>1 DEF JobFits, Serves, Operations
    <3> QED BY <1>1, <2>1, <3>2 DEF Framed, Prompt, NotAgain
  <2> QED BY <2>1 DEF NoLateRestore
<1> QED BY <1>1, InductiveFramed, PTL

-----------------------------------------------------------------------------
(* Volumes: mounts against the handlers that made them.                    *)

LEMMA InSlots ==
  ASSUME NEW q, NEW v, NEW x
  PROVE  x \in SlotsIn(q, v) <=> \E i \in 1 .. Len(q) : \E k \in 1 .. Layer(q, i)[v] : x = <<i, k>>
  BY DEF SlotsIn

(* A mount of a share, and its removal, leave the volumes' mounts alone.   *)
LEMMA SlotsSame ==
  ASSUME MountsTyped, MountsTyped', NEW v \in Volumes, NEW n \in Shares, n = home[v], home' = home,
         mounts'[n] = mounts[n] \/ MountShare(n) \/ UnmountShare(n)
  PROVE  Slots(v)' = Slots(v)
<1> DEFINE Old == SlotsIn(mounts[n], v)
           New == SlotsIn(mounts'[n], v)
<1>1. /\ Slots(v) = Old /\ Slots(v)' = New
      /\ \A x : /\ x \in Old <=>
                     \E i \in 1 .. Len(mounts[n]) : \E k \in 1 .. Layer(mounts[n], i)[v] : x = <<i, k>>
                /\ x \in New <=>
                     \E i \in 1 .. Len(mounts'[n]) : \E k \in 1 .. Layer(mounts'[n], i)[v] : x = <<i, k>>
  BY InSlots DEF Slots
<1> HIDE DEF Old, New
<1>2. 1 .. Bare[v] = {}
  BY DEF Bare
<1>3. CASE mounts'[n] = mounts[n]
  <2>1. \A x : x \in New <=> x \in Old
    BY <1>1, <1>3
  <2> QED BY <1>1, <2>1
<1>4. CASE MountShare(n)
  <2>1. /\ Len(mounts[n]) \in Nat /\ Len(mounts'[n]) = Len(mounts[n]) + 1
        /\ \A i \in 1 .. Len(mounts[n]) : Layer(mounts'[n], i) = Layer(mounts[n], i)
        /\ Head(mounts'[n]) = Bare
    BY <1>4, LayerFacts, MountShareFacts
  <2>2. Layer(mounts'[n], Len(mounts[n]) + 1) = Bare
    <3>1. mounts'[n] \in Seq([Volumes -> Nat]) /\ mounts'[n] # <<>>
      BY DEF MountsTyped
    <3>2. Head(mounts'[n]) = mounts'[n][1]
      BY <3>1
    <3>3. Len(mounts'[n]) + 1 - (Len(mounts[n]) + 1) = 1
      BY <2>1
    <3> QED BY <2>1, <3>2, <3>3 DEF Layer
  <2>3. \A i \in 1 .. Len(mounts'[n]) : i \in 1 .. Len(mounts[n]) \/ i = Len(mounts[n]) + 1
    BY <2>1
  <2>4. \A i \in 1 .. Len(mounts[n]) : i \in 1 .. Len(mounts'[n])
    BY <2>1
  <2>5. ASSUME NEW x, x \in New PROVE x \in Old
    BY <1>1, <1>2, <2>1, <2>2, <2>3, <2>5
  <2>6. ASSUME NEW x, x \in Old PROVE x \in New
    BY <1>1, <2>1, <2>4, <2>6
  <2> QED BY <1>1, <2>5, <2>6
<1>5. CASE UnmountShare(n) /\ mounts'[n] # mounts[n]
  <2>1. /\ Len(mounts[n]) \in Nat /\ Len(mounts'[n]) = Len(mounts[n]) - 1 /\ Len(mounts[n]) > 1
        /\ \A i \in 1 .. Len(mounts'[n]) : Layer(mounts'[n], i) = Layer(mounts[n], i)
        /\ Layer(mounts[n], Len(mounts[n])) = Bare
    BY <1>5, LayerFacts, UnmountShareFacts DEF Mounted
  <2>2. \A i \in 1 .. Len(mounts[n]) : i \in 1 .. Len(mounts'[n]) \/ i = Len(mounts[n])
    BY <2>1
  <2>3. \A i \in 1 .. Len(mounts'[n]) : i \in 1 .. Len(mounts[n])
    BY <2>1
  <2>4. ASSUME NEW x, x \in New PROVE x \in Old
    BY <1>1, <2>1, <2>3, <2>4
  <2>5. ASSUME NEW x, x \in Old PROVE x \in New
    BY <1>1, <1>2, <2>1, <2>2, <2>5
  <2> QED BY <1>1, <2>4, <2>5
<1> QED BY <1>3, <1>4, <1>5

(* A mount of another volume does, too, and one of v adds or takes one.    *)
LEMMA SlotsOnTop ==
  ASSUME MountsTyped, ContextTyped, scenario' = scenario, NEW n \in Shares, NEW u \in Volumes,
         NEW c \in Nat, OnTop(n, u, c), NEW v \in Volumes
  PROVE  /\ n # home[v] \/ u # v => Slots(v)' = Slots(v)
         /\ n = home[v] /\ u = v /\ c = Top(n)[v] + 1 =>
              Slots(v)' = Slots(v) \union {<<Len(mounts[n]), c>>} /\ <<Len(mounts[n]), c>> \notin Slots(v)
         /\ n = home[v] /\ u = v /\ c = Top(n)[v] - 1 =>
              Slots(v)' = Slots(v) \ {<<Len(mounts[n]), c + 1>>}
<1>1. home[v] \in Shares /\ home' = home
  BY ScenarioFacts DEF home
<1>2. CASE n # home[v]
  <2>1. mounts'[home[v]] = mounts[home[v]] /\ MountsTyped'
    BY <1>1, <1>2 DEF OnTop, Elsewhere
  <2>2. Slots(v)' = Slots(v)
    BY <1>1, <2>1, SlotsSame
  <2> QED BY <1>2, <2>2
<1>3. CASE n = home[v]
  <2> DEFINE L == Len(mounts[n])
  <2>1. /\ L \in Nat /\ L >= 1 /\ Len(mounts'[n]) = L
        /\ Top(n) = Layer(mounts[n], L) /\ Top(n) \in [Volumes -> Nat]
        /\ \A i \in 1 .. L : i # L => Layer(mounts'[n], i) = Layer(mounts[n], i)
    BY LayerFacts DEF OnTop
  <2>2. Layer(mounts'[n], L) = [Top(n) EXCEPT ![u] = c]
    <3>1. mounts'[n] \in Seq([Volumes -> Nat]) /\ mounts'[n] # <<>>
      BY DEF OnTop, MountsTyped
    <3>2. Head(mounts'[n]) = mounts'[n][1]
      BY <3>1
    <3>3. L + 1 - L = 1
      BY <2>1
    <3>4. Layer(mounts'[n], L) = mounts'[n][L + 1 - L]
      BY <2>1 DEF Layer
    <3> QED BY <3>2, <3>3, <3>4 DEF OnTop
  <2> DEFINE Old == SlotsIn(mounts[n], v)
             New == SlotsIn(mounts'[n], v)
  <2>3. /\ Slots(v) = Old /\ Slots(v)' = New
        /\ \A x : /\ x \in Old <=> \E i \in 1 .. L : \E k \in 1 .. Layer(mounts[n], i)[v] : x = <<i, k>>
                  /\ x \in New <=> \E i \in 1 .. L : \E k \in 1 .. Layer(mounts'[n], i)[v] : x = <<i, k>>
    BY <1>1, <1>3, <2>1, InSlots DEF Slots
  <2>4. L \in 1 .. L
    BY <2>1
  <2> HIDE DEF L, Old, New
  <2>5. CASE u # v
    <3>1. Layer(mounts'[n], L)[v] = Layer(mounts[n], L)[v]
      BY <2>1, <2>2, <2>5
    <3>2. \A i \in 1 .. L : Layer(mounts'[n], i)[v] = Layer(mounts[n], i)[v]
      BY <2>1, <3>1
    <3>3. \A x : x \in New <=> x \in Old
      BY <2>3, <3>2
    <3> QED BY <2>3, <2>5, <3>3
  <2>6. CASE u = v
    <3>1. Layer(mounts'[n], L)[v] = c /\ Layer(mounts[n], L)[v] = Top(n)[v] /\ Top(n)[v] \in Nat
      BY <2>1, <2>2, <2>6
    <3>2. ASSUME c = Top(n)[v] + 1
          PROVE  Slots(v)' = Slots(v) \union {<<L, c>>} /\ <<L, c>> \notin Slots(v)
      <4>1. \A k : k \in 1 .. Layer(mounts'[n], L)[v] <=> k \in 1 .. Layer(mounts[n], L)[v] \/ k = c
        BY <3>1, <3>2
      <4>2. c \notin 1 .. Layer(mounts[n], L)[v]
        BY <3>1, <3>2
      <4>3. ASSUME NEW x PROVE x \in New <=> x \in Old \/ x = <<L, c>>
        BY <2>1, <2>3, <2>4, <4>1
      <4>4. <<L, c>> \notin Old
        BY <2>3, <4>2
      <4> QED BY <2>3, <4>3, <4>4
    <3>3. ASSUME c = Top(n)[v] - 1
          PROVE  Slots(v)' = Slots(v) \ {<<L, c + 1>>}
      <4>1. \A k : k \in 1 .. Layer(mounts'[n], L)[v] <=> k \in 1 .. Layer(mounts[n], L)[v] /\ k # c + 1
        BY <3>1, <3>3
      <4>2. ASSUME NEW i \in 1 .. L, NEW k
            PROVE  k \in 1 .. Layer(mounts'[n], i)[v] <=>
                     k \in 1 .. Layer(mounts[n], i)[v] /\ <<i, k>> # <<L, c + 1>>
        BY <2>1, <4>1
      <4>3. ASSUME NEW x PROVE x \in New <=> x \in Old /\ x # <<L, c + 1>>
        BY <2>3, <4>2
      <4> QED BY <2>3, <4>3
    <3> QED BY <1>3, <2>6, <3>2, <3>3 DEF L
  <2> QED BY <1>3, <2>5, <2>6
<1> QED BY <1>2, <1>3

(* Only AuthMountVolume makes a handler one of those that mounted v.       *)
LEMMA HandlerMounters ==
  ASSUME Typed, NEW h \in Handlers, Works(h), NEW v \in Volumes, NEW g \in Mounters(v)'
  PROVE  /\ g \in Mounters(v) \/ (/\ g = h /\ AuthMountVolume(h) /\ MountVolume(Below(h), Subject(h))
                                  /\ job[h].op \in OfSnapshot /\ job[h].vol = v)
         /\ UnmountOwn(h) => g # h
<1>1. /\ g \in Handlers /\ pc'[g] \notin {"idle", "get", "vmkdir", "vmount"}
      /\ job'[g].op \in OfSnapshot /\ job'[g].vol = v
  BY DEF Mounters
<1>2. pc[g] # "idle" /\ job[g].op \in OfSnapshot /\ job[g].vol = v /\ (g # h => pc'[g] = pc[g])
  BY <1>1, HandlerActive
<1>3. CASE g # h
  BY <1>1, <1>2, <1>3 DEF Mounters
<1>4. CASE g = h
  <2>1. ~UnmountOwn(h)
    BY <1>1, <1>2, <1>4, ReplyEnds DEF UnmountOwn, OfSnapshot, Ends
  <2>2. pc[h] # "get"
    <3>1. ASSUME pc[h] = "get" PROVE FALSE
      <4>1. FindSource(h)
        BY <1>2, <1>4, <3>1 DEF OfSnapshot, Works, At, FindVolume, AuthMountShare, CreateDir, SwitchSource,
           ExtractSnap, CopyVolume, UnmountBelow, AuthMountMkdir, AuthMountVolume, UnmountOwn, Compress,
           OpenArchive, WriteArchive, RemoveArchive
      <4>2. Ends(h) \/ Goes(h, "vmkdir")
        BY <1>2, <1>4, <4>1, ReplyEnds, MoveGoes DEF FindSource, OfSnapshot
      <4> QED BY <1>1, <1>4, <4>2 DEF Ends, Goes
    <3> QED BY <3>1
  <2>3. AuthMountFails(h) => Ends(h)
    BY <1>2, <1>4, ReplyEnds DEF AuthMountFails, OfSnapshot
  <2>4. pc[h] # "vmkdir"
    <3>1. ASSUME pc[h] = "vmkdir" PROVE FALSE
      <4>1. AuthMountMkdir(h)
        BY <3>1 DEF Works, At, FindVolume, AuthMountShare, CreateDir, SwitchSource,
           ExtractSnap, CopyVolume, UnmountBelow, FindSource, AuthMountVolume, UnmountOwn, Compress,
           OpenArchive, WriteArchive, RemoveArchive
      <4>2. Ends(h) \/ Goes(h, "vmount")
        BY <2>3, <4>1, MoveGoes DEF AuthMountMkdir
      <4> QED BY <1>1, <1>4, <4>2 DEF Ends, Goes
    <3> QED BY <3>1
  <2>5. CASE pc[h] = "vmount"
    <3>1. AuthMountVolume(h)
      BY <2>5 DEF Works, At, FindVolume, AuthMountShare, CreateDir, SwitchSource,
           ExtractSnap, CopyVolume, UnmountBelow, FindSource, AuthMountMkdir, UnmountOwn, Compress,
           OpenArchive, WriteArchive, RemoveArchive
    <3>2. ~AuthMountFails(h)
      BY <1>1, <1>4, <2>3 DEF Ends
    <3> QED BY <1>2, <1>4, <2>1, <3>1, <3>2, AuthMountVolumeSteps
  <2> QED BY <1>1, <1>2, <1>4, <2>1, <2>2, <2>4, <2>5 DEF Mounters
<1> QED BY <1>3, <1>4

(* Who mounts v, and who unmounts it.                                      *)
LEMMA HandlerSlots ==
  ASSUME Typed, NEW h \in Handlers, Works(h), NEW v \in Volumes
  PROVE  \/ /\ Slots(v)' = Slots(v)
            /\ ~(/\ AuthMountVolume(h) /\ MountVolume(Below(h), Subject(h))
                 /\ Below(h) = home[v] /\ Subject(h) = v)
         \/ \E x : Slots(v)' = Slots(v) \union {x} /\ x \notin Slots(v) /\ AuthMountVolume(h)
         \/ \E x : /\ Slots(v)' = Slots(v) \ {x}
                   /\ UnmountOwn(h) /\ Subject(h) = v
                   /\ job[h].op \in OfSnapshot \/ v \in stolen'
<1>1. RpcTyped /\ ContextTyped /\ MountsTyped /\ MountsTyped' /\ scenario' = scenario /\ home' = home
  BY TypedParts, HandlerTyped DEF Grows, home
<1>2. /\ pc[h] # "idle" /\ Below(h) \in Shares /\ home[v] \in Shares
      /\ AuthMountVolume(h) \/ UnmountOwn(h) => Subject(h) \in Volumes
  BY <1>1, HandlerMoves, JobFacts, ScenarioFacts DEF AuthMountVolume, UnmountOwn, At
<1>3. CASE UNCHANGED mounts /\ ~AuthMountVolume(h)
  BY <1>1, <1>2, <1>3, SlotsSame
<1>4. CASE MountShare(Below(h)) /\ ~AuthMountVolume(h)
  <2>1. home[v] = Below(h) \/ mounts'[home[v]] = mounts[home[v]]
    BY <1>1, <1>2, <1>4, MountShareFacts DEF Elsewhere
  <2> QED BY <1>1, <1>2, <1>4, <2>1, SlotsSame
<1>5. CASE UnmountShare(Below(h)) /\ ~AuthMountVolume(h)
  <2>1. home[v] = Below(h) \/ mounts'[home[v]] = mounts[home[v]]
    BY <1>1, <1>2, <1>5, UnmountShareFacts DEF Elsewhere
  <2> QED BY <1>1, <1>2, <1>5, <2>1, SlotsSame
<1>6. CASE AuthMountVolume(h)
  <2>1. CASE MountVolume(Below(h), Subject(h))
    <3> DEFINE c == Top(Below(h))[Subject(h)] + 1
    <3>1. c \in Nat /\ OnTop(Below(h), Subject(h), c)
      BY <1>1, <1>2, <1>6, <2>1, MountVolumeFacts
    <3>2. CASE Below(h) = home[v] /\ Subject(h) = v
      <4>1. c = Top(Below(h))[v] + 1
        BY <3>2
      <4> HIDE DEF c
      <4> QED BY <1>1, <1>2, <1>6, <3>1, <3>2, <4>1, SlotsOnTop
    <3>3. CASE ~(Below(h) = home[v] /\ Subject(h) = v)
      <4> HIDE DEF c
      <4> QED BY <1>1, <1>2, <1>6, <3>1, <3>3, SlotsOnTop
    <3> QED BY <3>2, <3>3
  <2>2. CASE ~MountVolume(Below(h), Subject(h))
    <3>1. UNCHANGED mounts
      BY <1>6, <2>2, AuthMountVolumeSteps
    <3> QED BY <1>1, <1>2, <2>2, <3>1, SlotsSame
  <2> QED BY <2>1, <2>2
<1>7. CASE UnmountOwn(h) /\ ~AuthMountVolume(h)
  <2>1. CASE UNCHANGED mounts
    BY <1>3, <1>7, <2>1
  <2>2. CASE mounts' # mounts
    <3> DEFINE n == Below(h)
               c == Top(n)[Subject(h)] - 1
    <3>1. UnmountVolume(n, Subject(h))
      BY <1>7, <2>2 DEF UnmountOwn
    <3>2. Top(n)[Subject(h)] > 0 /\ Top(n)[Subject(h)] \in Nat /\ OnTop(n, Subject(h), c)
      BY <1>1, <1>2, <1>7, <2>2, <3>1, UnmountVolumeFacts
    <3>3. c \in Nat
      BY <3>2
    <3>4. CASE n = home[v] /\ Subject(h) = v
      <4>1. \E x : Slots(v)' = Slots(v) \ {x}
        <5>1. c = Top(n)[v] - 1 /\ n \in Shares /\ n = home[v] /\ OnTop(n, v, c)
          BY <1>2, <1>7, <3>2, <3>4
        <5> HIDE DEF c
        <5>2. Slots(v)' = Slots(v) \ {<<Len(mounts[n]), c + 1>>}
          BY <1>1, <3>3, <5>1, SlotsOnTop
        <5> QED BY <5>2
      <4>2. job[h].op \in OfSnapshot \/ v \in stolen'
        BY <1>7, <2>2, <3>2, <3>4 DEF UnmountOwn, OwnMount, OfSnapshot
      <4> QED BY <1>7, <3>4, <4>1, <4>2
    <3>5. CASE ~(n = home[v] /\ Subject(h) = v)
      <4> HIDE DEF c
      <4> QED BY <1>1, <1>2, <1>7, <3>2, <3>3, <3>5, SlotsOnTop
    <3> QED BY <3>4, <3>5
  <2> QED BY <2>1, <2>2
<1>8. CASE FindVolume(h) \/ SwitchSource(h) \/ FindSource(h) \/ Compress(h)
  <2>1. UNCHANGED mounts
    BY <1>8, QuietSteps DEF kernel
  <2> QED BY <1>3, <1>6, <2>1
<1> QED BY <1>3, <1>4, <1>5, <1>6, <1>7, <1>8 DEF Works, AuthMountShare, CreateDir,
           ExtractSnap, CopyVolume, UnmountBelow, AuthMountMkdir, UnmountOwn,
           OpenArchive, WriteArchive, RemoveArchive, kernel

LEMMA Fewer ==
  ASSUME NEW S, IsFiniteSet(S), NEW T, T \subseteq S
  PROVE  /\ IsFiniteSet(T) /\ Cardinality(T) \in Nat /\ Cardinality(S) \in Nat
         /\ Cardinality(T) <= Cardinality(S)
<1>1. IsFiniteSet(T) /\ Cardinality(T) <= Cardinality(S)
  BY FS_Subset
<1> QED BY <1>1, FS_CardinalityType

LEMMA VolumesHeldHandler ==
  ASSUME Typed, VolumesHeld, NEW h \in Handlers, Works(h)
  PROVE  VolumesHeld'
<1>1. RpcTyped /\ ContextTyped /\ Grows
  BY TypedParts, HandlerTyped
<1>2. SUFFICES ASSUME NEW v \in Volumes
               PROVE  /\ IsFiniteSet(Slots(v)') /\ IsFiniteSet(Mounters(v)')
                      /\ v \notin stolen' => Cardinality(Mounters(v)') <= Cardinality(Slots(v)')
  BY DEF VolumesHeld
<1>3. /\ IsFiniteSet(Slots(v)) /\ IsFiniteSet(Mounters(v))
      /\ Cardinality(Slots(v)) \in Nat /\ Cardinality(Mounters(v)) \in Nat
      /\ v \notin stolen' => Cardinality(Mounters(v)) <= Cardinality(Slots(v))
  BY <1>1, FS_CardinalityType DEF VolumesHeld, Grows
<1>4. CASE /\ Slots(v)' = Slots(v)
           /\ ~(/\ AuthMountVolume(h) /\ MountVolume(Below(h), Subject(h))
                /\ Below(h) = home[v] /\ Subject(h) = v)
  <2>1. ~(/\ AuthMountVolume(h) /\ MountVolume(Below(h), Subject(h))
          /\ job[h].op \in OfSnapshot /\ job[h].vol = v)
    BY <1>1, <1>4, HandlerMoves DEF Below, Subject, OfSnapshot
  <2>2. Mounters(v)' \subseteq Mounters(v)
    BY <2>1, HandlerMounters
  <2> QED BY <1>3, <1>4, <2>2, Fewer
<1>5. CASE \E x : Slots(v)' = Slots(v) \union {x} /\ x \notin Slots(v) /\ AuthMountVolume(h)
  <2>1. PICK x : Slots(v)' = Slots(v) \union {x} /\ x \notin Slots(v)
    BY <1>5
  <2>2. IsFiniteSet(Slots(v)') /\ Cardinality(Slots(v)') = Cardinality(Slots(v)) + 1
    BY <1>3, <2>1, FS_AddElement
  <2>3. Mounters(v)' \subseteq Mounters(v) \union {h}
    BY HandlerMounters
  <2>4. /\ IsFiniteSet(Mounters(v) \union {h})
        /\ Cardinality(Mounters(v) \union {h}) <= Cardinality(Mounters(v)) + 1
    BY <1>3, OneMore
  <2>5. /\ IsFiniteSet(Mounters(v)') /\ Cardinality(Mounters(v)') \in Nat
        /\ Cardinality(Mounters(v) \union {h}) \in Nat
        /\ Cardinality(Mounters(v)') <= Cardinality(Mounters(v) \union {h})
    BY <2>3, <2>4, Fewer
  <2> QED BY <1>3, <2>2, <2>4, <2>5
<1>6. CASE \E x : /\ Slots(v)' = Slots(v) \ {x}
                  /\ UnmountOwn(h) /\ Subject(h) = v
                  /\ job[h].op \in OfSnapshot \/ v \in stolen'
  <2>1. PICK x : Slots(v)' = Slots(v) \ {x}
    BY <1>6
  <2>2. /\ IsFiniteSet(Slots(v)')
        /\ Cardinality(Slots(v)') = IF x \in Slots(v) THEN Cardinality(Slots(v)) - 1
                                    ELSE Cardinality(Slots(v))
    BY <1>3, <2>1, FS_RemoveElement
  <2>3. ASSUME NEW g \in Mounters(v)' PROVE g \in Mounters(v) \ {h}
    <3>1. ~AuthMountVolume(h)
      BY <1>6 DEF UnmountOwn, AuthMountVolume, At
    <3> QED BY <1>6, <3>1, HandlerMounters
  <2>4. /\ IsFiniteSet(Mounters(v) \ {h})
        /\ Cardinality(Mounters(v) \ {h}) = IF h \in Mounters(v) THEN Cardinality(Mounters(v)) - 1
                                            ELSE Cardinality(Mounters(v))
    BY <1>3, FS_RemoveElement
  <2>5. /\ IsFiniteSet(Mounters(v)') /\ Cardinality(Mounters(v)') \in Nat
        /\ Cardinality(Mounters(v)') <= Cardinality(Mounters(v) \ {h})
    BY <2>3, <2>4, Fewer
  <2>6. v \notin stolen' => h \in Mounters(v)
    BY <1>1, <1>6 DEF UnmountOwn, At, Mounters, Subject, OfSnapshot
  <2> QED BY <1>3, <2>2, <2>4, <2>5, <2>6
<1> QED BY <1>4, <1>5, <1>6, HandlerSlots

LEMMA VolumesHeldStep ==
  ASSUME Typed, VolumesHeld, [Next]_vars
  PROVE  VolumesHeld'
<1>1. RpcTyped /\ ContextTyped /\ MountsTyped /\ MountsTyped' /\ Grows /\ home' = home
  BY TypedParts, TypedStep DEF Grows, home
<1>2. CASE Restart
  <2>1. ASSUME NEW v \in Volumes PROVE Slots(v)' = {} /\ Mounters(v)' = {}
    <3>1. Mounters(v)' = {}
      BY <1>2 DEF Restart, Mounters
    <3>2. mounts'[home[v]] = NoMounts
      BY <1>1, <1>2, ScenarioFacts DEF Restart
    <3>3. Slots(v)' = SlotsIn(NoMounts, v)
      BY <1>1, <3>2 DEF Slots
    <3>4. \A i \in 1 .. Len(NoMounts) : Layer(NoMounts, i)[v] = 0
      BY NoMountsFacts DEF Layer, Bare
    <3>5. \A x : x \notin SlotsIn(NoMounts, v)
      BY <3>4, InSlots
    <3> QED BY <3>1, <3>3, <3>5
  <2> QED BY <2>1, FS_EmptySet DEF VolumesHeld
<1>3. CASE /\ UNCHANGED <<mounts, stolen>>
           /\ \A g \in Handlers : pc'[g] \notin {"idle", "get", "mount"} => pc'[g] = pc[g] /\ job'[g] = job[g]
  <2>1. SUFFICES ASSUME NEW v \in Volumes
                 PROVE  /\ IsFiniteSet(Slots(v)') /\ IsFiniteSet(Mounters(v)')
                        /\ v \notin stolen' => Cardinality(Mounters(v)') <= Cardinality(Slots(v)')
    BY DEF VolumesHeld
  <2>2. Slots(v)' = Slots(v)
    BY <1>1, <1>3, ScenarioFacts, SlotsSame
  <2>3. ASSUME NEW g \in Mounters(v)' PROVE g \in Mounters(v)
    <3>1. g \in Handlers /\ job'[g].op \in OfSnapshot /\ pc'[g] \notin {"idle", "get", "vmkdir", "vmount"}
      BY DEF Mounters
    <3>2. pc'[g] # "mount"
      <4>1. JobFits(g)'
        BY <3>1, TypedParts, TypedStep DEF RpcTyped
      <4> QED BY <3>1, <4>1 DEF JobFits, Serves, OfSnapshot
    <3> QED BY <1>3, <3>1, <3>2 DEF Mounters
  <2>4. IsFiniteSet(Slots(v)) /\ IsFiniteSet(Mounters(v))
        /\ (v \notin stolen => Cardinality(Mounters(v)) <= Cardinality(Slots(v)))
        /\ Cardinality(Slots(v)) \in Nat
    BY FS_CardinalityType DEF VolumesHeld
  <2> QED BY <1>3, <2>2, <2>3, <2>4, Fewer
<1>4. CASE \E h \in Handlers : Timeout(h)
  BY <1>3, <1>4 DEF Timeout, kernel, context
<1>5. CASE \E h \in Handlers : Request(h)
  BY <1>3, <1>5, RequestFacts
<1>6. CASE Outside
  BY <1>3, <1>6, OutsideTyped DEF kernel, rpc, context
<1>7. CASE UNCHANGED vars
  BY <1>3, <1>7 DEF vars, kernel, rpc, context
<1> QED BY <1>2, <1>4, <1>5, <1>6, <1>7, NextCases, VolumesHeldHandler

-----------------------------------------------------------------------------
(* CreateSnapshot: what it packs reaches the share.                        *)

(* The path of a volume that CreateSnapshot or DeleteSnapshot has mounted  *)
(* leads to the volume, if not by that mount then by the share's.          *)
LEMMA MountedReaches ==
  ASSUME Typed, VolumesHeld, NEW v \in Volumes, v \notin stolen, v \in dirs[home[v]],
         NEW h \in Mounters(v)
  PROVE  Reaches(home[v], v)
<1> DEFINE n == home[v]
<1>1. RpcTyped /\ ContextTyped /\ MountsTyped /\ n \in Shares
  BY TypedParts, ScenarioFacts
<1>2. CASE Mounted(n)
  BY <1>2 DEF Reaches
<1>3. CASE ~(Len(mounts[n]) > 1)
  <2>1. Len(mounts[n]) = 1 /\ Top(n) = Layer(mounts[n], 1) /\ Top(n)[v] \in Nat
    <3>1. Len(mounts[n]) \in Nat /\ Len(mounts[n]) >= 1
      BY <1>1, LayerFacts
    <3>2. Top(n) = Layer(mounts[n], Len(mounts[n])) /\ Top(n) \in [Volumes -> Nat]
      BY <1>1, LayerFacts
    <3> HIDE DEF n
    <3>3. Len(mounts[n]) = 1
      <4>1. \A k \in Nat : k >= 1 /\ ~(k > 1) => k = 1
        OBVIOUS
      <4> QED BY <1>3, <3>1, <4>1, Zenon
    <3> QED BY <3>1, <3>2, <3>3
  <2>2. Slots(v) # {}
    <3>1. /\ IsFiniteSet(Slots(v)) /\ IsFiniteSet(Mounters(v))
          /\ Cardinality(Mounters(v)) <= Cardinality(Slots(v))
      BY DEF VolumesHeld
    <3>2. Cardinality(Mounters(v)) # 0 /\ Cardinality(Mounters(v)) \in Nat /\ Cardinality(Slots(v)) \in Nat
      BY <3>1, FS_EmptySet, FS_CardinalityType
    <3> QED BY <3>1, <3>2, FS_EmptySet
  <2>3. PICK x : x \in Slots(v)
    BY <2>2
  <2>4. \E i \in 1 .. Len(mounts[n]) : \E k \in 1 .. Layer(mounts[n], i)[v] : x = <<i, k>>
    BY <2>3, InSlots DEF Slots
  <2>5. \E k \in 1 .. Layer(mounts[n], 1)[v] : TRUE
    BY <2>1, <2>4
  <2>6. Top(n)[v] > 0
    BY <2>1, <2>5
  <2> QED BY <2>6 DEF Reaches
<1> QED BY <1>2, <1>3 DEF Mounted

LEMMA SnapshotFlow ==
  ASSUME Typed, NEW h \in Handlers, Works(h), job[h].op = "snapshot", pc'[h] # "idle"
  PROVE  \/ pc[h] = "get" /\ pc'[h] = "vmkdir" /\ Bound(job[h].vol) /\ UNCHANGED job
         \/ pc[h] = "vmkdir" /\ pc'[h] = "vmount" /\ UNCHANGED job
         \/ pc[h] = "vmount" /\ pc'[h] = "compress" /\ UNCHANGED job
         \/ /\ pc[h] = "compress" /\ pc'[h] = "open"
            /\ ~job'[h].cut => job'[h].packed = Shown(h)
         \/ /\ pc[h] = "open" /\ pc'[h] = "write"
            /\ job'[h].packed = job[h].packed /\ job'[h].cut = job[h].cut
            /\ job'[h].shared = Reaches(Below(h), job[h].vol)
         \/ /\ pc[h] = "write" /\ pc'[h] = "vumount" /\ UNCHANGED job
            /\ job[h].shared => archive'[job[h].snap] = Written(h)
<1>1. RpcTyped /\ ContextTyped /\ StoreTyped /\ pc[h] # "idle"
  BY TypedParts, HandlerMoves
<1>2. job[h] \in Jobs /\ job[h].snap \in Snaps /\ job \in [Handlers -> Jobs \union {None}]
  BY <1>1, JobFacts DEF OfSnapshot, RpcTyped
<1>3. ~Ends(h) /\ ~Reply(h) /\ ~ReplySnapshot(h) /\ ~AuthMountFails(h)
  BY ReplyEnds DEF Ends, AuthMountFails
<1>4. CASE FindSource(h)
  BY <1>3, <1>4, FindSourceSteps, MoveGoes DEF Goes
<1>5. CASE AuthMountMkdir(h)
  BY <1>3, <1>5, MoveGoes DEF AuthMountMkdir, At, Goes
<1>6. CASE AuthMountVolume(h)
  BY <1>3, <1>6, AuthMountVolumeSteps, MoveGoes DEF Beyond, Goes
<1>7. CASE Compress(h)
  <2>1. GoTo(h, "open") /\ pc[h] = "compress" /\ (~job'[h].cut => job'[h].packed = Shown(h))
    BY <1>3, <1>7, CompressSteps, CompressPacks
  <2>2. pc'[h] = "open"
    BY <1>1, <2>1 DEF GoTo, RpcTyped
  <2> QED BY <2>1, <2>2
<1>8. CASE OpenArchive(h)
  <2>1. /\ job' = [job EXCEPT ![h].shared = Reaches(Below(h), job[h].vol)]
        /\ GoTo(h, "write") /\ pc[h] = "open"
    BY <1>3, <1>8 DEF OpenArchive, At
  <2>2. /\ job'[h].packed = job[h].packed /\ job'[h].cut = job[h].cut
        /\ job'[h].shared = Reaches(Below(h), job[h].vol)
    BY <1>2, <2>1 DEF Jobs
  <2>3. pc'[h] = "write"
    BY <1>1, <2>1 DEF GoTo, RpcTyped
  <2> QED BY <2>1, <2>2, <2>3
<1>9. CASE WriteArchive(h)
  <2>1. /\ archive' = IF job[h].shared THEN [archive EXCEPT ![job[h].snap] = Written(h)] ELSE archive
        /\ GoTo(h, "vumount") /\ pc[h] = "write" /\ UNCHANGED job
    BY <1>3, <1>9 DEF WriteArchive, At
  <2>2. job[h].shared => archive'[job[h].snap] = Written(h)
    BY <1>1, <1>2, <2>1 DEF StoreTyped
  <2> QED BY <2>1, <2>2, MoveGoes DEF Goes
<1>10. CASE UnmountOwn(h)
  BY <1>3, <1>10 DEF UnmountOwn
<1> QED BY <1>4, <1>5, <1>6, <1>7, <1>8, <1>9, <1>10 DEF Works, At, Sharing, FindVolume, AuthMountShare,
           CreateDir, SwitchSource, ExtractSnap, CopyVolume, UnmountBelow, RemoveArchive

(* Archives are written and removed for their own snapshots.               *)
LEMMA HandlerArchives ==
  ASSUME Typed, NEW h \in Handlers, Works(h), NEW s \in Snaps
  PROVE  \/ archive'[s] = archive[s]
         \/ /\ job[h].snap = s /\ job[h].op = "snapshot" /\ pc[h] \in {"open", "write"}
         \/ job[h].snap = s /\ job[h].op = "unsnapshot" /\ archive'[s].state = "none"
<1>1. archive \in [Snaps -> [state : {"none", "torn"} \union Readable, holds : SUBSET Files]]
  BY TypedParts DEF StoreTyped
<1>2. CASE OpenArchive(h)
  BY <1>1, <1>2 DEF OpenArchive, At
<1>3. CASE WriteArchive(h)
  BY <1>1, <1>3 DEF WriteArchive, At
<1>4. CASE RemoveArchive(h)
  BY <1>1, <1>4 DEF RemoveArchive, At
<1>5. UNCHANGED archive \/ OpenArchive(h) \/ WriteArchive(h) \/ RemoveArchive(h)
  BY AuthMountVolumeSteps DEF Works, FindVolume, AuthMountShare, CreateDir, SwitchSource,
           ExtractSnap, CopyVolume, UnmountBelow, FindSource, AuthMountMkdir, UnmountOwn, Compress, storage
<1> QED BY <1>2, <1>3, <1>4, <1>5

Packs(h) ==
  LET v == job[h].vol  s == job[h].snap IN
  /\ job[h].due \subseteq files[v]
  /\ pc[h] # "get" => v \in dirs[home[v]]
  /\ v \notin stolen =>
       /\ pc[h] \in {"open", "write"} /\ ~job[h].cut => job[h].due \subseteq job[h].packed
       /\ pc[h] = "write" => job[h].shared
       /\ pc[h] = "vumount" =>
            /\ archive[s].state \in Readable
            /\ archive[s].state = "whole" => job[h].due \subseteq archive[s].holds

LEMMA PackingParts ==
  /\ Packing <=> \A h \in Handlers : pc[h] # "idle" /\ job[h].op = "snapshot" => Packs(h)
  /\ Packing' <=> \A h \in Handlers : pc'[h] # "idle" /\ job'[h].op = "snapshot" => Packs(h)'
  BY DEF Packing, Packs

LEMMA PackingHandler ==
  ASSUME Framed, Known, VolumesHeld, Packing, NEW h \in Handlers, Works(h)
  PROVE  Packing'
<1>1. Typed /\ VolumesOnShare /\ Single /\ RpcTyped /\ ContextTyped /\ StoreTyped /\ Grows
  BY TypedParts, HandlerTyped DEF Framed
<1>2. SUFFICES ASSUME NEW g \in Handlers, pc'[g] # "idle", job'[g].op = "snapshot"
               PROVE  Packs(g)'
  BY PackingParts
<1>3. /\ pc[g] # "idle" /\ job[g].op = "snapshot" /\ Packs(g) /\ pc[h] # "idle"
      /\ job'[g].vol = job[g].vol /\ job'[g].snap = job[g].snap /\ job'[g].due = job[g].due
      /\ g # h => pc'[g] = pc[g] /\ job'[g] = job[g]
  BY <1>1, <1>2, HandlerActive, HandlerMoves, PackingParts
<1>4. job[g].vol \in Volumes /\ job[g].snap \in Snaps /\ home[job[g].vol] \in Shares
  BY <1>1, <1>3, JobFacts, ScenarioFacts DEF OfSnapshot
<1>5. job'[g].due \subseteq files'[job'[g].vol]
  BY <1>1, <1>3, <1>4 DEF Packs, Grows
<1>6. pc'[g] # "get" => job[g].vol \in dirs'[home[job[g].vol]]
  <2>1. pc'[g] # "get" => job[g].vol \in dirs[home[job[g].vol]]
    BY <1>1, <1>2, <1>3, <1>4, SnapshotFlow DEF VolumesOnShare, Packs
  <2> QED BY <1>1, <1>4, <2>1 DEF Grows
<1>7. ASSUME job[g].vol \notin stolen'
      PROVE  /\ pc'[g] \in {"open", "write"} /\ ~job'[g].cut => job'[g].due \subseteq job'[g].packed
             /\ pc'[g] = "write" => job'[g].shared
             /\ pc'[g] = "vumount" =>
                  /\ archive'[job[g].snap].state \in Readable
                  /\ archive'[job[g].snap].state = "whole" => job'[g].due \subseteq archive'[job[g].snap].holds
  <2>1. job[g].vol \notin stolen
    BY <1>1, <1>7 DEF Grows
  <2>2. CASE g # h
    <3>1. archive'[job[g].snap] = archive[job[g].snap]
      <4>1. CASE job[h].snap = job[g].snap /\ job[h].op = "snapshot"
        BY <1>1, <1>3, <2>2, <4>1, SameSnapshot DEF OfSnapshot
      <4>2. CASE job[h].snap = job[g].snap /\ job[h].op = "unsnapshot"
        BY <1>1, <1>3, <4>2 DEF Single
      <4> QED BY <1>1, <1>4, <4>1, <4>2, HandlerArchives
    <3> QED BY <1>3, <2>1, <2>2, <3>1 DEF Packs
  <2>3. CASE g = h
    <3>1. pc[g] \in {"compress", "open"} => Reaches(Below(g), job[g].vol)
      <4>1. ASSUME pc[g] \in {"compress", "open"} PROVE Reaches(Below(g), job[g].vol)
        <5>1. g \in Mounters(job[g].vol) /\ job[g].vol \in dirs[home[job[g].vol]]
          BY <1>3, <4>1 DEF Mounters, OfSnapshot, Packs
        <5> QED BY <1>1, <1>4, <2>1, <5>1, MountedReaches DEF Below
      <4> QED BY <4>1
    <3>2. CASE /\ pc[g] = "compress" /\ pc'[g] = "open"
               /\ ~job'[g].cut => job'[g].packed = files[job[g].vol]
      BY <1>3, <3>2 DEF Packs
    <3>3. CASE /\ pc[g] = "open" /\ pc'[g] = "write" /\ job'[g].shared
               /\ job'[g].packed = job[g].packed /\ job'[g].cut = job[g].cut
      BY <1>3, <2>1, <3>3 DEF Packs
    <3>4. CASE pc[g] = "write" /\ pc'[g] = "vumount" /\ archive'[job[g].snap] = Written(g)
      BY <1>3, <2>1, <3>4 DEF Packs, Written, Readable
    <3>5. CASE pc'[g] \in {"vmkdir", "vmount", "compress"}
      BY <3>5
    <3>6. pc[g] = "compress" => Shown(g) = files[job[g].vol]
      BY <3>1 DEF Shown
    <3>7. pc[g] = "write" => job[g].shared
      BY <1>3, <2>1 DEF Packs
    <3> QED BY <1>1, <1>2, <1>3, <2>3, <3>1, <3>2, <3>3, <3>4, <3>5, <3>6, <3>7, SnapshotFlow
  <2> QED BY <2>2, <2>3
<1> QED BY <1>1, <1>3, <1>5, <1>6, <1>7 DEF Packs, Grows, home

LEMMA PackingRequest ==
  ASSUME Typed, Packing, NEW h \in Handlers, Request(h)
  PROVE  Packing'
<1>1. SUFFICES ASSUME NEW g \in Handlers, pc'[g] # "idle", job'[g].op = "snapshot"
               PROVE  Packs(g)'
  BY PackingParts
<1>2. UNCHANGED <<dirs, files, archive, scenario, stolen>>
  BY RequestFacts DEF storage
<1>3. CASE g = h
  BY <1>1, <1>2, <1>3, RequestNames DEF Packs
<1>4. CASE g # h
  <2>1. pc'[g] = pc[g] /\ job'[g] = job[g]
    BY <1>4, RequestFacts
  <2>2. Packs(g)
    BY <1>1, <2>1, PackingParts
  <2> QED BY <1>2, <2>1, <2>2 DEF Packs, home
<1> QED BY <1>3, <1>4

LEMMA PackingStep ==
  ASSUME Framed, Known, VolumesHeld, Packing, [Next]_vars, Known'
  PROVE  Packing'
<1>1. Typed
  BY DEF Framed
<1>2. CASE Restart
  BY <1>2 DEF Restart, Packing
<1>3. CASE UNCHANGED <<pc, job, dirs, archive, scenario, stolen>> /\ \A v \in Volumes : files[v] \subseteq files'[v]
  <2>1. SUFFICES ASSUME NEW g \in Handlers, pc'[g] # "idle", job'[g].op = "snapshot"
                 PROVE  Packs(g)'
    BY PackingParts
  <2>2. Packs(g) /\ job[g].vol \in Volumes
    BY <1>1, <1>3, <2>1, PackingParts, TypedParts, JobFacts
  <2> QED BY <1>3, <2>2 DEF Packs, home
<1>4. CASE Outside
  BY <1>1, <1>3, <1>4, OutsideTyped DEF rpc, context, Grows
<1>5. CASE UNCHANGED vars
  BY <1>3, <1>5 DEF vars, rpc, context, storage
<1> QED BY <1>1, <1>2, <1>4, <1>5, NextCases, KnownStep, PackingHandler, PackingRequest

Delivered(s) ==
  /\ archive[s].state \in Readable
  /\ archive[s].state = "whole" => owed[s] \subseteq archive[s].holds

LEMMA SnapshotCompleteStep ==
  ASSUME Framed, Packing, SnapshotComplete, [Next]_vars, Known, Known'
  PROVE  SnapshotComplete'
<1>1. Typed /\ Single /\ RpcTyped /\ ContextTyped /\ Grows /\ (Known => faults.timeouts = 0)
  BY TypedParts, TypedStep DEF Framed, Known
<1>2. SUFFICES ASSUME NEW s \in Snaps, content'[s] = "ready", SnapOf[s] \notin stolen'
               PROVE  Delivered(s)'
  BY DEF SnapshotComplete, Delivered
<1>3. SnapOf[s] \notin stolen
  BY <1>1, <1>2 DEF Grows
<1>4. CASE content[s] = "ready" /\ archive'[s] = archive[s] /\ owed'[s] = owed[s]
  BY <1>1, <1>2, <1>3, <1>4 DEF SnapshotComplete, Known, Delivered
<1>5. ASSUME NEW h \in Handlers, Works(h)
      PROVE  Delivered(s)'
  <2>1. pc[h] # "idle"
    BY <1>1, <1>5, HandlerMoves
  <2>2. CASE /\ UnmountOwn(h) /\ job[h].op = "snapshot" /\ job[h].snap = s /\ owed'[s] = job[h].due
    <3>1. UNCHANGED archive /\ pc[h] = "vumount"
      BY <2>2 DEF UnmountOwn, storage, At
    <3>2. Packs(h) /\ job[h].vol = SnapOf[s]
      BY <1>1, <2>1, <2>2, PackingParts DEF RpcTyped, JobFits, OfSnapshot
    <3> QED BY <1>3, <2>2, <3>1, <3>2 DEF Packs, Delivered
  <2>3. CASE content'[s] = content[s] /\ owed'[s] = owed[s]
    <3>1. job[h].op \in OfSnapshot => job[h].snap # s
      BY <1>1, <1>2, <2>1, <2>3 DEF Single, OfSnapshot
    <3>2. archive'[s] = archive[s]
      BY <1>1, <1>5, <3>1, HandlerArchives DEF OfSnapshot
    <3> QED BY <1>2, <1>4, <2>3, <3>2
  <2> QED BY <1>1, <1>2, <1>5, <2>2, <2>3, HandlerContents
<1>6. CASE Outside
  <2>1. content[s] = "ready"
    BY <1>1, <1>2, <1>6 DEF Outside, DeleteVolume, PodWrites, SnapshotRequested, SnapshotUnwanted, api, RpcTyped
  <2> QED BY <1>1, <1>4, <1>6, <2>1, OutsideTyped
<1> QED BY <1>1, <1>2, <1>4, <1>5, <1>6, NextCases, KnownStep, RequestFacts
        DEF Restart, vars, api, storage

-----------------------------------------------------------------------------
(* CreateVolume: what it was asked to restore reaches the new volume.      *)

Keeps(h) == job'[h].full = job[h].full

LEMMA CreateFlow ==
  ASSUME Typed, NEW h \in Handlers, Works(h), job[h].op = "create", pc'[h] # "idle"
  PROVE  \/ pc'[h] \in {"mount", "mkdir", "source", "umount"} /\ Keeps(h)
         \/ /\ SwitchSource(h) /\ pc'[h] \in {"vmkdir", "extract", "copy"} /\ Keeps(h)
            /\ Bound(Subject(h)) /\ (pc'[h] = "copy" => home[Subject(h)] = Below(h))
         \/ pc[h] = "vmkdir" /\ pc'[h] = "vmount" /\ Keeps(h)
         \/ /\ pc[h] = "vmount" /\ pc'[h] \in {"extract", "copy"} /\ Keeps(h)
            /\ MountVolume(Below(h), Subject(h))
         \/ /\ pc[h] = "extract" /\ pc'[h] = "umount"
            /\ archive[source[job[h].vol]].state \in Readable
            /\ Reaches(Below(h), job[h].vol) =>
                 archive[source[job[h].vol]].holds \subseteq files'[job[h].vol]
         \/ /\ pc[h] = "copy" /\ pc'[h] = "vumount" /\ Keeps(h)
            /\ Reaches(Below(h), Subject(h)) /\ Reaches(Below(h), job[h].vol) =>
                 files[Subject(h)] \subseteq files'[job[h].vol]
         \/ pc[h] = "vumount" /\ pc'[h] = "umount"
<1>1. RpcTyped /\ ContextTyped /\ StoreTyped /\ pc[h] # "idle" /\ job[h].vol \in Volumes
  BY TypedParts, HandlerMoves, JobFacts
<1>2. ~Ends(h) /\ ~Reply(h) /\ \A full : ~ReplyCreated(h, full)
  BY ReplyEnds DEF Ends
<1>3. UNCHANGED job => Keeps(h)
  BY DEF Keeps
<1>4. CASE AuthMountShare(h) \/ CreateDir(h)
  BY <1>2, <1>3, <1>4, MoveGoes DEF AuthMountShare, CreateDir, Goes
<1>5. CASE SwitchSource(h)
  <2>1. CASE GoTo(h, "umount") /\ UNCHANGED job
    BY <1>3, <2>1, MoveGoes DEF Goes
  <2>2. CASE Bound(Subject(h)) /\ GoTo(h, Leads(h)) /\ UNCHANGED job
    <3>1. pc'[h] = Leads(h) /\ Keeps(h)
      <4> HIDE DEF Leads
      <4> QED BY <1>3, <2>2, MoveGoes DEF Goes
    <3>2. /\ Leads(h) \in {"vmkdir", "extract", "copy"}
          /\ Leads(h) = "copy" => home[Subject(h)] = Below(h)
      BY DEF Leads
    <3> QED BY <1>5, <2>2, <3>1, <3>2
  <2> QED BY <1>2, <1>5, <2>1, <2>2, SwitchSourceSteps
<1>6. AuthMountFails(h) => pc'[h] = "umount" /\ Keeps(h)
  BY <1>3, MoveGoes DEF AuthMountFails, Goes
<1>7. CASE AuthMountMkdir(h)
  BY <1>3, <1>6, <1>7, MoveGoes DEF AuthMountMkdir, At, Goes
<1>8. CASE AuthMountVolume(h)
  BY <1>3, <1>6, <1>8, AuthMountVolumeSteps, MoveGoes DEF Beyond, Goes
<1>9. CASE ExtractSnap(h)
  <2>1. pc[h] = "extract" /\ GoTo(h, "umount") /\ pc'[h] = "umount"
    BY <1>1, <1>9 DEF ExtractSnap, At, GoTo, RpcTyped
  <2>2. CASE UNCHANGED job
    BY <1>3, <2>1, <2>2
  <2>3. CASE /\ archive[source[job[h].vol]].state \in Readable
             /\ files' = IF Reaches(Below(h), job[h].vol)
                           THEN [files EXCEPT ![job[h].vol] = @ \union archive[source[job[h].vol]].holds]
                           ELSE files
    BY <1>1, <2>1, <2>3 DEF StoreTyped
  <2>4. \/ UNCHANGED job
        \/ /\ archive[source[job[h].vol]].state \in Readable
           /\ files' = IF Reaches(Below(h), job[h].vol)
                         THEN [files EXCEPT ![job[h].vol] = @ \union archive[source[job[h].vol]].holds]
                         ELSE files
    BY <1>9 DEF ExtractSnap
  <2> QED BY <2>2, <2>3, <2>4
<1>10. CASE CopyVolume(h)
  <2>1. pc[h] = "copy" /\ UNCHANGED job
    BY <1>10 DEF CopyVolume, At
  <2>2. CASE GoTo(h, "umount")
    BY <1>3, <2>1, <2>2, MoveGoes DEF Goes
  <2>3. CASE /\ GoTo(h, "vumount")
             /\ files' = IF Reaches(Below(h), Subject(h)) /\ Reaches(Below(h), job[h].vol)
                           THEN [files EXCEPT ![job[h].vol] = @ \union files[Subject(h)]] ELSE files
    <3>1. pc'[h] = "vumount"
      BY <2>1, <2>3, MoveGoes DEF Goes
    <3> QED BY <1>1, <1>3, <2>1, <2>3, <3>1 DEF StoreTyped
  <2> QED BY <1>10, <2>2, <2>3 DEF CopyVolume
<1>11. CASE UnmountBelow(h)
  BY <1>2, <1>11 DEF UnmountBelow
<1>12. CASE UnmountOwn(h)
  BY <1>1, <1>12 DEF UnmountOwn, At, GoTo, RpcTyped
<1>13. CASE FindVolume(h)
  <2>1. GoTo(h, "mount") /\ job' = [job EXCEPT ![h].missed = Bound(job[h].vol)]
    BY <1>2, <1>13, FindVolumeSteps
  <2>2. pc'[h] = "mount" /\ job'[h].full = job[h].full
    BY <1>1, <2>1 DEF GoTo, RpcTyped
  <2> QED BY <2>2 DEF Keeps
<1> QED BY <1>4, <1>5, <1>7, <1>8, <1>9, <1>10, <1>11, <1>12, <1>13 DEF Works, At, FindSource, Compress,
           OpenArchive, WriteArchive, RemoveArchive

(* Where the kernel does not stack mounts, a mounted share keeps others    *)
(* from mounting it, and there is one handler that holds it.               *)
LEMMA LoneHolder ==
  ASSUME Typed, SharesHeld, scenario.stack = 1, NEW g \in Handlers, NEW h \in Handlers,
         Holds(g), Holds(h), Below(g) = Below(h)
  PROVE  g = h
<1> DEFINE n == Below(h)
<1>1. n \in Shares /\ g \in Holders(n) /\ h \in Holders(n)
  BY TypedParts, JobFacts DEF Holders, Holds
<1>2. /\ IsFiniteSet(Holders(n)) /\ Cardinality(Holders(n)) < Len(mounts[n])
      /\ Len(mounts[n]) <= 2 /\ Len(mounts[n]) \in Nat
  BY <1>1, TypedParts, LayerFacts DEF SharesHeld
<1>3. Cardinality(Holders(n)) \in Nat /\ Cardinality(Holders(n)) # 0
  BY <1>1, <1>2, FS_EmptySet, FS_CardinalityType
<1>4. Cardinality(Holders(n)) = 1
  BY <1>2, <1>3
<1> QED BY <1>1, <1>2, <1>4, FS_Singleton

Copies(h) ==
  scenario.stack = 1 /\ pc[h] = "copy" /\ home[Subject(h)] # Below(h) => Top(Below(h))[Subject(h)] > 0

LEMMA SourceHeldHandler ==
  ASSUME Typed, SharesHeld, SourceHeld, NEW h \in Handlers, Works(h), NEW g \in Handlers
  PROVE  Copies(g)'
<1>1. /\ RpcTyped /\ ContextTyped /\ MountsTyped /\ scenario' = scenario /\ home' = home
      /\ source' = source /\ MountsTyped'
  BY TypedParts, HandlerTyped DEF Grows, home, source
<1>2. SUFFICES ASSUME scenario.stack = 1, pc'[g] = "copy", (home[Subject(g)] # Below(g))'
               PROVE  (Top(Below(g))[Subject(g)] > 0)'
  BY <1>1 DEF Copies
<1>3. /\ pc[g] # "idle" /\ job'[g].op = job[g].op /\ job'[g].vol = job[g].vol
      /\ g # h => pc'[g] = pc[g]
  BY <1>2, HandlerActive
<1>4. job[g].op = "create"
  <2>1. JobFits(g)' /\ job[g].op \in Operations
    BY <1>1, <1>2, <1>3, TypedParts, HandlerTyped, JobFacts DEF RpcTyped
  <2> QED BY <1>2, <1>3, <2>1 DEF JobFits, Serves, Operations
<1> DEFINE n == Below(g)
           w == Subject(g)
<1>5. /\ Below(g)' = n /\ Subject(g)' = w /\ (Top(Below(g))[Subject(g)] > 0)' = (Head(mounts'[n])[w] > 0)
      /\ home[w] # n /\ n \in Shares /\ w = Origin(job[g].vol)
  <2>1. Below(g)' = n /\ Subject(g)' = w
    BY <1>1, <1>3 DEF Below, Subject, Origin
  <2>2. (home[Subject(g)] # Below(g))' <=> home[w] # n
    BY <1>1, <2>1
  <2>3. (Top(Below(g))[Subject(g)] > 0)' = (Head(mounts'[n])[w] > 0)
    BY <2>1 DEF Top
  <2> QED BY <1>1, <1>2, <1>3, <1>4, <2>1, <2>2, <2>3, JobFacts
<1>6. w \in Volumes
  <2>1. JobFits(g)'
    BY <1>1, <1>2, TypedParts, HandlerTyped DEF RpcTyped
  <2>2. source[job[g].vol] \in Volumes
    BY <1>1, <1>2, <1>3, <1>4, <2>1 DEF JobFits
  <2> QED BY <1>1, <1>3, <1>5, <2>2, ScenarioFacts, JobFacts
<1>7. \A u \in Volumes : Top(n)[u] \in Nat
  BY <1>1, <1>5, LayerFacts
<1>8. CASE g = h
  <2>1. MountVolume(n, w)
    BY <1>2, <1>4, <1>5, <1>8, CreateFlow
  <2>2. OnTop(n, w, Top(n)[w] + 1) /\ Top(n)[w] \in Nat
    BY <1>1, <1>5, <1>6, <2>1, MountVolumeFacts
  <2>3. Head(mounts'[n]) = [Top(n) EXCEPT ![w] = Top(n)[w] + 1]
    BY <2>2 DEF OnTop
  <2>4. Top(n) \in [Volumes -> Nat]
    BY <1>1, <1>5, LayerFacts
  <2>5. Head(mounts'[n])[w] = Top(n)[w] + 1
    BY <1>6, <2>3, <2>4
  <2> HIDE DEF n, w
  <2> QED BY <1>5, <2>2, <2>5
<1>9. CASE g # h
  <2>1. pc[g] = "copy" /\ Holds(g) /\ Top(n)[w] > 0
    BY <1>2, <1>3, <1>4, <1>5, <1>9 DEF SourceHeld, Holds, Sharing
  <2>2. Mounted(n) /\ Len(mounts[n]) \in Nat
    BY <2>1, HolderMounted
  <2>3. CASE mounts'[n] = mounts[n]
    BY <1>5, <2>1, <2>3 DEF Top
  <2>4. pc[h] # "idle" /\ Below(h) \in Shares
    BY <1>1, HandlerMoves, JobFacts
  <2>5. CASE AuthMountShare(h)
    <3>1. UNCHANGED mounts \/ MountShare(Below(h))
      BY <2>5 DEF AuthMountShare
    <3>2. ASSUME MountShare(Below(h)) PROVE Below(h) # n
      <4>1. Len(mounts[Below(h)]) <= 1
        BY <1>2, <3>2 DEF MountShare
      <4> QED BY <2>2, <4>1 DEF Mounted
    <3> QED BY <1>1, <1>5, <2>3, <2>4, <3>1, <3>2, MountShareFacts DEF Elsewhere
  <2>6. CASE UnmountBelow(h)
    <3>1. Holds(h)
      BY <2>6 DEF UnmountBelow, At, Holds
    <3>2. Below(h) # n
      BY <1>2, <1>9, <2>1, <3>1, LoneHolder
    <3>3. UNCHANGED mounts \/ UnmountShare(Below(h))
      BY <2>6 DEF UnmountBelow
    <3> QED BY <1>1, <1>5, <2>3, <2>4, <3>2, <3>3, UnmountShareFacts DEF Elsewhere
  <2>7. CASE AuthMountVolume(h)
    <3>1. Subject(h) \in Volumes
      BY <1>1, <2>7, JobFacts DEF AuthMountVolume, At
    <3>2. CASE MountVolume(Below(h), Subject(h)) /\ Below(h) = n
      <4>1. OnTop(n, Subject(h), Top(n)[Subject(h)] + 1) /\ Top(n)[Subject(h)] \in Nat
        BY <1>1, <1>5, <3>1, <3>2, MountVolumeFacts
      <4>2. Head(mounts'[n]) = [Top(n) EXCEPT ![Subject(h)] = Top(n)[Subject(h)] + 1]
        BY <4>1 DEF OnTop
      <4>3. Top(n) \in [Volumes -> Nat]
        BY <1>1, <1>5, LayerFacts
      <4>4. CASE Subject(h) = w
        <5>1. Head(mounts'[n])[w] = Top(n)[w] + 1
          BY <1>6, <4>2, <4>3, <4>4
        <5> HIDE DEF n, w
        <5> QED BY <1>5, <1>6, <1>7, <5>1
      <4>5. CASE Subject(h) # w
        <5>1. Head(mounts'[n])[w] = Top(n)[w]
          BY <1>6, <4>2, <4>3, <4>5
        <5> QED BY <1>5, <2>1, <5>1
      <4> QED BY <4>4, <4>5
    <3>3. CASE ~(MountVolume(Below(h), Subject(h)) /\ Below(h) = n)
      <4>1. mounts'[n] = mounts[n]
        BY <1>1, <1>5, <2>4, <2>7, <3>1, <3>3, AuthMountVolumeSteps, MountVolumeFacts DEF OnTop, Elsewhere
      <4> QED BY <2>3, <4>1
    <3> QED BY <3>2, <3>3
  <2>8. CASE UnmountOwn(h)
    <3>1. Subject(h) \in Volumes /\ job[h].op \in Operations
      BY <1>1, <2>8, JobFacts DEF UnmountOwn, At
    <3>2. ASSUME Below(h) = n PROVE Subject(h) # w
      <4>1. job[h].op # "create"
        <5>1. ASSUME job[h].op = "create" PROVE FALSE
          <6>1. Holds(h)
            BY <2>8, <5>1 DEF UnmountOwn, At, Holds, Sharing
          <6> QED BY <1>2, <1>9, <2>1, <3>2, <6>1, LoneHolder
        <5> QED BY <5>1
      <4>2. home[Subject(h)] = Below(h)
        BY <4>1 DEF Subject, Below
      <4> QED BY <1>5, <3>2, <4>2
    <3>3. CASE mounts'[Below(h)] # mounts[Below(h)] /\ Below(h) = n
      <4>1. UnmountVolume(n, Subject(h))
        BY <2>8, <3>3 DEF UnmountOwn
      <4>2. OnTop(n, Subject(h), Top(n)[Subject(h)] - 1)
        BY <1>1, <1>5, <3>1, <3>3, <4>1, UnmountVolumeFacts
      <4>3. Head(mounts'[n]) = [Top(n) EXCEPT ![Subject(h)] = Top(n)[Subject(h)] - 1]
        BY <4>2 DEF OnTop
      <4>4. Top(n) \in [Volumes -> Nat]
        BY <1>1, <1>5, LayerFacts
      <4>5. Head(mounts'[n])[w] = Top(n)[w]
        BY <1>6, <3>2, <3>3, <4>3, <4>4
      <4> QED BY <1>5, <2>1, <4>5
    <3>4. CASE mounts'[Below(h)] = mounts[Below(h)] \/ Below(h) # n
      <4>1. UNCHANGED mounts \/ UnmountVolume(Below(h), Subject(h))
        BY <2>8 DEF UnmountOwn
      <4>2. mounts'[n] = mounts[n]
        BY <1>1, <1>5, <2>4, <3>1, <3>4, <4>1, UnmountVolumeFacts DEF OnTop, Elsewhere
      <4> QED BY <2>3, <4>2
    <3> QED BY <3>3, <3>4
  <2>9. UNCHANGED mounts \/ AuthMountShare(h) \/ UnmountBelow(h) \/ AuthMountVolume(h) \/ UnmountOwn(h)
    BY QuietSteps DEF Works, CreateDir, ExtractSnap, CopyVolume, AuthMountMkdir, OpenArchive, WriteArchive,
           RemoveArchive, kernel
  <2> QED BY <2>3, <2>5, <2>6, <2>7, <2>8, <2>9
<1> QED BY <1>8, <1>9

LEMMA SourceHeldStep ==
  ASSUME Typed, SharesHeld, SourceHeld, [Next]_vars
  PROVE  SourceHeld'
<1>1. SUFFICES \A g \in Handlers : Copies(g)'
  BY DEF SourceHeld, Copies
<1>2. CASE UNCHANGED <<mounts, scenario>> /\
           \A g \in Handlers : pc'[g] = "copy" => pc[g] = "copy" /\ job'[g] = job[g]
  <2>1. SUFFICES ASSUME NEW g \in Handlers, pc'[g] = "copy" PROVE Copies(g)'
    BY DEF Copies
  <2>2. pc[g] = "copy" /\ job'[g] = job[g] /\ Copies(g)
    BY <1>2, <2>1 DEF SourceHeld, Copies
  <2> QED BY <1>2, <2>1, <2>2 DEF Copies, Top, Below, Subject, Origin, home, source
<1>3. CASE \E h \in Handlers : Timeout(h)
  BY <1>2, <1>3 DEF Timeout, kernel, context
<1>4. CASE \E h \in Handlers : Request(h)
  <2>1. PICK h \in Handlers : Request(h)
    BY <1>4
  <2>2. /\ UNCHANGED <<mounts, scenario>> /\ pc'[h] # "copy"
        /\ \A g \in Handlers : g # h => pc'[g] = pc[g] /\ job'[g] = job[g]
    BY <2>1, RequestFacts
  <2> QED BY <1>2, <2>2
<1>5. CASE Outside
  BY <1>2, <1>5, OutsideTyped DEF kernel, rpc, context
<1>6. CASE Restart
  BY <1>6 DEF Restart, Copies
<1>7. CASE UNCHANGED vars
  BY <1>2, <1>7 DEF vars, kernel, rpc, context
<1>8. CASE \E h \in Handlers : Works(h)
  BY <1>8, SourceHeldHandler
<1>9. \/ \E h \in Handlers : Works(h) \/ Timeout(h) \/ Request(h)
      \/ Outside \/ Restart \/ UNCHANGED vars
  BY NextCases
<1> QED BY <1>3, <1>4, <1>5, <1>6, <1>7, <1>8, <1>9

FromVolume(h) ==
  source[job[h].vol] \in Volumes => job[h].due \subseteq files[source[job[h].vol]]

FromSnap(h) ==
  source[job[h].vol] \in Snaps /\ archive[source[job[h].vol]].state \in Readable =>
    job[h].due \subseteq archive[source[job[h].vol]].holds

OriginThere(h) ==
  pc[h] \in {"vmkdir", "vmount", "extract", "copy"} =>
    Origin(job[h].vol) \in dirs[home[Origin(job[h].vol)]]

Restored(h) ==
  LET v == job[h].vol  from == source[v] IN
  /\ job[h].full \/ pc[h] = "vumount"
  /\ from \in Volumes => from \notin stolen
  /\ from \in Volumes /\ home[from] # home[v] => scenario.stack = 1
  => job[h].due \subseteq files[v]

Restores(h) == FromVolume(h) /\ FromSnap(h) /\ OriginThere(h) /\ Restored(h)

LEMMA RestoringParts ==
  /\ Restoring <=> \A h \in Handlers :
       pc[h] # "idle" /\ job[h].op = "create" /\ source[job[h].vol] # None => Restores(h)
  /\ Restoring' <=> \A h \in Handlers :
       pc'[h] # "idle" /\ job'[h].op = "create" /\ source'[job'[h].vol] # None => Restores(h)'
  BY DEF Restoring, Restores, FromVolume, FromSnap, OriginThere, Restored

LEMMA RestoringHandler ==
  ASSUME Framed, Known, SourceHeld, Restoring, NEW h \in Handlers, Works(h)
  PROVE  Restoring'
<1>1. /\ Typed /\ SharesHeld /\ DirsMade /\ VolumesOnShare /\ Single
      /\ RpcTyped /\ ContextTyped /\ StoreTyped /\ Grows
      /\ home' = home /\ source' = source /\ scenario' = scenario
  BY TypedParts, HandlerTyped DEF Framed, Grows, home, source
<1>2. SUFFICES ASSUME NEW g \in Handlers, pc'[g] # "idle", job'[g].op = "create",
                      source[job'[g].vol] # None
               PROVE  Restores(g)'
  BY <1>1, RestoringParts
<1>3. /\ pc[g] # "idle" /\ job[g].op = "create" /\ Restores(g) /\ pc[h] # "idle"
      /\ job'[g].vol = job[g].vol /\ job'[g].due = job[g].due
      /\ g # h => pc'[g] = pc[g] /\ job'[g] = job[g]
  BY <1>1, <1>2, HandlerActive, HandlerMoves, RestoringParts
<1> DEFINE v == job[g].vol
           from == source[v]
           origin == Origin(v)
<1>4. /\ v \in Volumes /\ origin \in Volumes /\ home[origin] \in Shares /\ from \in Volumes \union Snaps
      /\ from \in Volumes => origin = from
      /\ from \in Snaps => origin = SnapOf[from] /\ from \notin Volumes
      /\ Below(g) = home[v] /\ Subject(g) = origin
  BY <1>1, <1>2, <1>3, JobFacts, ScenarioFacts DEF Origin, Below, Subject
<1>5. /\ from \in Volumes => job[g].due \subseteq files[from]
      /\ from \in Snaps /\ archive[from].state \in Readable =>
           job[g].due \subseteq archive[from].holds
      /\ pc[g] \in {"vmkdir", "vmount", "extract", "copy"} => origin \in dirs[home[origin]]
      /\ /\ job[g].full \/ pc[g] = "vumount"
         /\ from \in Volumes => from \notin stolen
         /\ from \in Volumes /\ home[from] # home[v] => scenario.stack = 1
         => job[g].due \subseteq files[v]
  BY <1>3 DEF Restores, FromVolume, FromSnap, OriginThere, Restored
<1> HIDE DEF v, from, origin
<1>6. from \in Volumes => job[g].due \subseteq files'[from]
  BY <1>1, <1>5 DEF Grows
<1>7. from \in Snaps /\ archive'[from].state \in Readable =>
        job[g].due \subseteq archive'[from].holds
  <2>1. ASSUME from \in Snaps
        PROVE  archive'[from] = archive[from] \/ archive'[from].state = "none"
    <3>1. content[from] # "created"
      BY <1>1, <1>3, <2>1 DEF Single, from, v
    <3>2. ~(job[h].snap = from /\ job[h].op = "snapshot")
      BY <1>1, <1>3, <3>1 DEF Single
    <3> QED BY <1>1, <2>1, <3>2, HandlerArchives
  <2> QED BY <1>5, <2>1 DEF Readable
<1>8. pc'[g] \in {"vmkdir", "vmount", "extract", "copy"} => origin \in dirs'[home[origin]]
  <2>1. CASE g # h
    BY <1>1, <1>3, <1>4, <1>5, <2>1 DEF Grows
  <2>2. CASE g = h
    <3>1. pc'[g] \in {"vmkdir", "vmount", "extract", "copy"} =>
            Bound(Subject(g)) \/ pc[g] \in {"vmkdir", "vmount", "extract", "copy"}
      BY <1>1, <1>2, <1>3, <2>2, CreateFlow
    <3> QED BY <1>1, <1>4, <1>5, <3>1 DEF VolumesOnShare, Grows
  <2> QED BY <2>1, <2>2
<1>9. ASSUME job'[g].full \/ pc'[g] = "vumount",
             from \in Volumes => from \notin stolen',
             from \in Volumes /\ home[from] # home[v] => scenario.stack = 1
      PROVE  job[g].due \subseteq files'[v]
  <2>1. from \in Volumes => from \notin stolen
    BY <1>1, <1>9 DEF Grows
  <2>2. CASE job[g].full \/ pc[g] = "vumount"
    BY <1>1, <1>4, <1>5, <1>9, <2>1, <2>2 DEF Grows
  <2>3. CASE ~(job[g].full \/ pc[g] = "vumount")
    <3>1. g = h
      BY <1>3, <1>9, <2>3
    <3>2. Reaches(Below(g), v) \/ pc[g] \notin {"extract", "copy"}
      <4>1. ASSUME pc[g] \in {"extract", "copy"} PROVE Reaches(Below(g), v)
        <5>1. Holds(g) /\ pc[g] # "mkdir"
          BY <1>3, <4>1 DEF Holds, Sharing
        <5>2. Mounted(Below(g)) /\ v \in dirs[home[v]]
          BY <1>1, <1>3, <5>1, HolderMounted DEF DirsMade, v
        <5> QED BY <1>4, <5>2 DEF Reaches
      <4> QED BY <4>1
    <3>3. \/ /\ pc[g] = "extract" /\ archive[from].state \in Readable
             /\ Reaches(Below(g), v) => archive[from].holds \subseteq files'[v]
          \/ /\ pc[g] = "copy"
             /\ Reaches(Below(g), Subject(g)) /\ Reaches(Below(g), v) => files[origin] \subseteq files'[v]
      BY <1>1, <1>2, <1>3, <1>4, <1>9, <2>3, <3>1, CreateFlow DEF Keeps, v, from
    <3>4. JobFits(g)
      BY <1>1, <1>3 DEF RpcTyped
    <3>5. CASE /\ pc[g] = "extract" /\ archive[from].state \in Readable
               /\ Reaches(Below(g), v) => archive[from].holds \subseteq files'[v]
      <4>1. from \in Snaps
        BY <1>3, <3>4, <3>5 DEF JobFits, from, v
      <4> QED BY <1>4, <1>5, <2>1, <3>2, <3>5, <4>1
    <3>6. CASE /\ pc[g] = "copy"
               /\ Reaches(Below(g), Subject(g)) /\ Reaches(Below(g), v) => files[origin] \subseteq files'[v]
      <4>1. from \in Volumes
        BY <1>3, <3>4, <3>6 DEF JobFits, from, v
      <4>2. Reaches(Below(g), Subject(g))
        <5>1. CASE home[from] # home[v]
          <6>1. scenario.stack = 1 /\ home[Subject(g)] # Below(g)
            BY <1>4, <1>9, <4>1, <5>1
          <6>2. Top(Below(g))[Subject(g)] > 0
            BY <3>6, <6>1 DEF SourceHeld
          <6> QED BY <6>2 DEF Reaches
        <5>2. CASE home[from] = home[v]
          <6>1. Holds(g)
            BY <1>3, <3>6 DEF Holds, Sharing
          <6>2. Mounted(Below(g)) /\ origin \in dirs[home[origin]]
            BY <1>1, <1>5, <3>6, <6>1, HolderMounted
          <6> QED BY <1>4, <4>1, <5>2, <6>2 DEF Reaches
        <5> QED BY <5>1, <5>2
      <4> QED BY <1>4, <1>5, <3>2, <3>6, <4>1, <4>2
    <3> QED BY <3>3, <3>5, <3>6
  <2> QED BY <2>2, <2>3
<1>10. FromVolume(g)' /\ FromSnap(g)'
  BY <1>1, <1>3, <1>6, <1>7 DEF FromVolume, FromSnap, Readable, v, from
<1>11. OriginThere(g)'
  <2>1. Origin(job[g].vol)' = origin
    BY <1>1, <1>3 DEF Origin, origin, v
  <2> QED BY <1>1, <1>8, <2>1 DEF OriginThere
<1>12. Restored(g)'
  BY <1>1, <1>3, <1>9 DEF Restored, v, from
<1> QED BY <1>10, <1>11, <1>12 DEF Restores

(* Restores is about nothing but these.                                    *)
LEMMA RestoresSame ==
  ASSUME NEW g \in Handlers, Restores(g), pc'[g] = pc[g], job'[g] = job[g], home' = home,
         source' = source, UNCHANGED <<dirs, archive, scenario, stolen>>,
         job[g].vol \in Volumes, \A v \in Volumes : files[v] \subseteq files'[v]
  PROVE  Restores(g)'
<1>1. FromVolume(g)' /\ FromSnap(g)'
  BY DEF Restores, FromVolume, FromSnap, Readable
<1>2. OriginThere(g)'
  <2>1. Origin(job[g].vol)' = Origin(job[g].vol)
    BY DEF Origin
  <2> QED BY <2>1 DEF Restores, OriginThere
<1>3. Restored(g)'
  BY DEF Restores, Restored
<1> QED BY <1>1, <1>2, <1>3 DEF Restores

LEMMA RestoringRequest ==
  ASSUME Framed, Restoring, NEW h \in Handlers, Request(h)
  PROVE  Restoring'
<1>1. Typed /\ RpcTyped /\ ContextTyped
  BY TypedParts DEF Framed
<1>2. /\ UNCHANGED <<dirs, files, archive, scenario, stolen>>
      /\ home' = home /\ source' = source
  BY <1>1, RequestFacts DEF storage, home, source
<1>3. SUFFICES ASSUME NEW g \in Handlers, pc'[g] # "idle", job'[g].op = "create",
                      source[job'[g].vol] # None
               PROVE  Restores(g)'
  BY <1>2, RestoringParts
<1>4. CASE g = h
  <2> DEFINE v == job'[g].vol
             from == source[v]
  <2>1. /\ pc'[g] = "get" /\ ~job'[g].full /\ v \in Volumes
        /\ from \in Snaps => content[from] = "ready" /\ job'[g].due = archive[from].holds
        /\ from \in Volumes => job'[g].due = files[from]
    BY <1>1, <1>3, <1>4, RequestNames, RequestFacts DEF Jobs
  <2> HIDE DEF v, from
  <2>2. FromVolume(g)' /\ FromSnap(g)'
    BY <1>2, <2>1 DEF FromVolume, FromSnap, Readable, v, from
  <2>3. OriginThere(g)'
    BY <2>1 DEF OriginThere
  <2>4. Restored(g)'
    BY <2>1 DEF Restored
  <2> QED BY <2>2, <2>3, <2>4 DEF Restores
<1>5. CASE g # h
  <2>1. pc'[g] = pc[g] /\ job'[g] = job[g]
    BY <1>1, <1>5, RequestFacts
  <2>2. Restores(g) /\ job[g].vol \in Volumes
    BY <1>1, <1>2, <1>3, <2>1, RestoringParts, JobFacts
  <2> QED BY <1>2, <2>1, <2>2, RestoresSame
<1> QED BY <1>4, <1>5

LEMMA RestoringStep ==
  ASSUME Framed, Known, SourceHeld, Restoring, [Next]_vars, Known'
  PROVE  Restoring'
<1>1. Typed /\ RpcTyped /\ ContextTyped
  BY TypedParts DEF Framed
<1>2. CASE Restart
  BY <1>2 DEF Restart, Restoring
<1>3. CASE UNCHANGED <<pc, job, dirs, archive, scenario, stolen>> /\ \A v \in Volumes : files[v] \subseteq files'[v]
  <2>1. home' = home /\ source' = source
    BY <1>3 DEF home, source
  <2>2. SUFFICES ASSUME NEW g \in Handlers, pc'[g] # "idle", job'[g].op = "create",
                        source[job'[g].vol] # None
                 PROVE  Restores(g)'
    BY <2>1, RestoringParts
  <2>3. Restores(g) /\ job[g].vol \in Volumes
    BY <1>1, <1>3, <2>2, RestoringParts, JobFacts
  <2> QED BY <1>3, <2>1, <2>2, <2>3, RestoresSame
<1>4. CASE Outside
  BY <1>1, <1>3, <1>4, OutsideTyped DEF rpc, context, Grows
<1>5. CASE UNCHANGED vars
  BY <1>3, <1>5 DEF vars, rpc, context, storage
<1> QED BY <1>1, <1>2, <1>4, <1>5, NextCases, KnownStep, RestoringHandler, RestoringRequest

LEMMA SourceDeliveredStep ==
  ASSUME Framed, Known, Restoring, SourceDelivered, [Next]_vars, Known'
  PROVE  SourceDelivered'
<1>1. /\ Typed /\ RpcTyped /\ ContextTyped /\ Grows /\ faults.timeouts = 0
      /\ home' = home /\ source' = source /\ scenario' = scenario
  BY TypedParts, TypedStep DEF Framed, Known, Grows, home, source
<1>2. SUFFICES ASSUME NEW v \in Volumes, claim'[v] = "bound", source[v] # None,
                      source[v] \in Volumes => source[v] \notin stolen',
                      source[v] \in Volumes /\ home[source[v]] # home[v] => scenario.stack = 1
               PROVE  owed'[v] \subseteq files'[v]
  BY <1>1 DEF SourceDelivered, Bound
<1>3. (source[v] \in Volumes => source[v] \notin stolen) /\ files[v] \subseteq files'[v]
  BY <1>1, <1>2 DEF Grows
<1>4. CASE claim[v] = "bound" /\ owed'[v] = owed[v]
  <2>1. owed[v] \subseteq files[v]
    BY <1>1, <1>2, <1>3, <1>4 DEF SourceDelivered, Bound
  <2> QED BY <1>3, <1>4, <2>1
<1>5. ASSUME NEW h \in Handlers, Works(h) PROVE owed'[v] \subseteq files'[v]
  <2>1. CASE Binds(h, v)
    <3>1. pc[h] # "idle" /\ job[h].op = "create" /\ job[h].vol = v /\ job[h].full /\ owed'[v] = job[h].due
      BY <1>2, <2>1 DEF Binds, UnmountBelow, At
    <3>2. Restores(h)
      BY <1>2, <3>1, RestoringParts
    <3>3. job[h].due \subseteq files[v]
      BY <1>2, <1>3, <3>1, <3>2 DEF Restores, Restored
    <3> QED BY <1>3, <3>1, <3>3
  <2> QED BY <1>1, <1>2, <1>4, <1>5, <2>1, HandlerClaims
<1>6. CASE Outside
  <2>1. claim[v] = "bound" /\ owed'[v] = owed[v]
    BY <1>1, <1>2, <1>6, OutsideTyped
    DEF Outside, DeleteVolume, PodWrites, SnapshotRequested, SnapshotUnwanted, api, RpcTyped
  <2> QED BY <1>4, <2>1
<1> QED BY <1>1, <1>2, <1>4, <1>5, <1>6, NextCases, KnownStep, RequestFacts DEF Restart, vars, api

-----------------------------------------------------------------------------
(* All the data that is on its way, and what has arrived of it.            *)

LEMMA DeliveringInit ==
  ASSUME Init
  PROVE  Delivering
<1>1. ASSUME NEW v \in Volumes PROVE Slots(v) = {} /\ Mounters(v) = {}
  <2>1. Mounters(v) = {}
    BY DEF Init, Mounters
  <2>2. mounts[home[v]] = NoMounts
    BY FramedInit, TypedParts, ScenarioFacts DEF Init, Framed
  <2>3. \A i \in 1 .. Len(NoMounts) : Layer(NoMounts, i)[v] = 0
    BY NoMountsFacts DEF Layer, Bare
  <2>4. \A x : x \notin SlotsIn(NoMounts, v)
    BY <2>3, InSlots
  <2> QED BY <2>1, <2>2, <2>4 DEF Slots
<1>2. VolumesHeld
  BY <1>1, FS_EmptySet DEF VolumesHeld
<1>3. SourceHeld /\ Packing /\ Restoring
  BY DEF Init, SourceHeld, Packing, Restoring
<1>4. SnapshotComplete /\ SourceDelivered
  BY DEF Init, SnapshotComplete, SourceDelivered, Bound
<1> QED BY <1>2, <1>3, <1>4, FramedInit DEF Delivering

LEMMA DeliveringStep ==
  ASSUME Delivering, [Next]_vars
  PROVE  Delivering'
<1>1. Typed /\ SharesHeld
  BY DEF Delivering, Framed
<1>2. Known' => Known
  BY <1>1, KnownStep
<1>3. Framed' /\ VolumesHeld' /\ SourceHeld'
  BY <1>1, FramedStep, VolumesHeldStep, SourceHeldStep DEF Delivering
<1>4. Known' => Packing' /\ SnapshotComplete' /\ Restoring' /\ SourceDelivered'
  BY <1>2, PackingStep, SnapshotCompleteStep, RestoringStep, SourceDeliveredStep DEF Delivering
<1> QED BY <1>3, <1>4 DEF Delivering

LEMMA InductiveDelivering == Spec => []Delivering
<1>1. Init => Delivering
  BY DeliveringInit
<1>2. Delivering /\ [Next]_vars => Delivering'
  BY DeliveringStep
<1> QED BY <1>1, <1>2, PTL DEF Spec

(* As long as no call was given up on, a ready snapshot whose volume's     *)
(* mount was not taken away has a readable archive on the share, however   *)
(* calls overlap, fail and restart; and with every file the volume held    *)
(* when the call began, unless the walk over them ended early, which       *)
(* CreateSnapshot cannot tell.                                             *)
THEOREM SnapshotIsComplete == Spec => []SnapshotComplete
<1>1. Delivering => SnapshotComplete
  BY DEF Delivering, Known, SnapshotComplete
<1> QED BY <1>1, InductiveDelivering, PTL

(* As long as no call was given up on, an acknowledged volume holds what   *)
(* the archive of its snapshot, complete or cut short, held when the call  *)
(* began; or what its source volume held, unless a mount of that was taken *)
(* away, or the two are on different shares and mounts stack.              *)
THEOREM SourceIsDelivered == Spec => []SourceDelivered
<1>1. Delivering => SourceDelivered
  BY DEF Delivering, Known, SourceDelivered
<1> QED BY <1>1, InductiveDelivering, PTL

-----------------------------------------------------------------------------
(* One call after the other: every handler takes off what it has mounted.  *)

LEMMA ShortSequences ==
  ASSUME NEW T, NEW a \in T, NEW b \in T
  PROVE  /\ Len(<<a>>) = 1 /\ Len(<<a, b>>) = 2
         /\ Head(<<a>>) = a /\ Head(<<a, b>>) = a
         /\ Tail(<<a>>) = <<>> /\ Tail(<<a, b>>) = <<b>>
         /\ <<a>> \o <<>> = <<a>> /\ <<a>> \o <<b>> = <<a, b>>
<1>1. Len(<<a>>) = 1 /\ Len(<<a, b>>) = 2
  OBVIOUS
<1>2. Head(<<a>>) = a /\ Head(<<a, b>>) = a
  OBVIOUS
<1>3. Tail(<<a>>) = <<>>
  OBVIOUS
<1>4. Tail(<<a, b>>) = <<b>>
  OBVIOUS
<1>5. <<a>> \o <<>> = <<a>>
  OBVIOUS
<1>6. \A q \in Seq(T) : Len(q) = 2 /\ q[1] = a /\ q[2] = b => q = <<a, b>>
  OBVIOUS
<1>7. /\ <<a>> \o <<b>> \in Seq(T) /\ Len(<<a>> \o <<b>>) = 2
      /\ (<<a>> \o <<b>>)[1] = a /\ (<<a>> \o <<b>>)[2] = b
  OBVIOUS
<1> QED BY <1>1, <1>2, <1>3, <1>4, <1>5, <1>6, <1>7

LEMMA ShareLayers ==
  /\ Bare \in [Volumes -> Nat] /\ NoMounts = <<Bare>>
  /\ <<Bare>> \o <<Bare>> = <<Bare, Bare>> /\ Len(<<Bare, Bare>>) = 2
  /\ Head(<<Bare, Bare>>) = Bare /\ Tail(<<Bare, Bare>>) = <<Bare>>
  /\ Len(<<Bare>>) = 1 /\ Head(<<Bare>>) = Bare
<1>1. Bare \in [Volumes -> Nat] /\ NoMounts = <<Bare>>
  BY DEF Bare, NoMounts
<1> QED BY <1>1, ShortSequences

LEMMA LayerCounts ==
  ASSUME NEW v \in Volumes
  PROVE  /\ Bare \in [Volumes -> Nat] /\ With(v) \in [Volumes -> Nat]
         /\ With(v)[v] > 0 /\ ~(Bare[v] > 0)
         /\ [Bare EXCEPT ![v] = @ + 1] = With(v) /\ [With(v) EXCEPT ![v] = @ - 1] = Bare
  BY DEF Bare, With

LEMMA VolumeLayers ==
  ASSUME NEW v \in Volumes
  PROVE  /\ Head(<<With(v)>>) = With(v) /\ Head(<<With(v), Bare>>) = With(v)
         /\ <<With(v)>> \o Tail(<<Bare>>) = <<With(v)>>
         /\ <<With(v)>> \o Tail(<<Bare, Bare>>) = <<With(v), Bare>>
         /\ <<Bare>> \o Tail(<<With(v)>>) = <<Bare>>
         /\ <<Bare>> \o Tail(<<With(v), Bare>>) = <<Bare, Bare>>
<1>1. Bare \in [Volumes -> Nat] /\ With(v) \in [Volumes -> Nat]
  BY LayerCounts
<1>2. /\ Head(<<With(v)>>) = With(v) /\ Head(<<With(v), Bare>>) = With(v)
      /\ Tail(<<With(v)>>) = <<>> /\ Tail(<<With(v), Bare>>) = <<Bare>>
  BY <1>1, ShortSequences, Zenon
<1>3. <<With(v)>> \o <<>> = <<With(v)>> /\ <<With(v)>> \o <<Bare>> = <<With(v), Bare>>
  BY <1>1, ShortSequences, Zenon
<1>4. Tail(<<Bare>>) = <<>> /\ Tail(<<Bare, Bare>>) = <<Bare>>
  BY <1>1, ShortSequences, Zenon
<1>5. <<Bare>> \o <<>> = <<Bare>> /\ <<Bare>> \o <<Bare>> = <<Bare, Bare>>
  BY <1>1, ShortSequences, Zenon
<1> QED BY <1>2, <1>3, <1>4, <1>5, Zenon

(* A volume is mounted where nothing was, or its only mount is taken off.  *)
LEMMA OnBare ==
  ASSUME MountsTyped, NEW n \in Shares, NEW v \in Volumes
  PROVE  /\ MountVolume(n, v) =>
              /\ mounts[n] = <<Bare>> => mounts'[n] = <<With(v)>>
              /\ mounts[n] = <<Bare, Bare>> => mounts'[n] = <<With(v), Bare>>
         /\ UnmountVolume(n, v) =>
              /\ mounts[n] = <<With(v)>> => mounts'[n] = <<Bare>>
              /\ mounts[n] = <<With(v), Bare>> => mounts'[n] = <<Bare, Bare>>
              /\ mounts[n] \in {<<Bare>>, <<Bare, Bare>>} => mounts' = mounts
<1>1. mounts \in [Shares -> Seq([Volumes -> Nat])]
  BY DEF MountsTyped
<1>2. ASSUME MountVolume(n, v), mounts[n] \in {<<Bare>>, <<Bare, Bare>>}
      PROVE  mounts'[n] = <<With(v)>> \o Tail(mounts[n])
  <2>1. Top(n) = Bare
    BY <1>2, ShareLayers DEF Top
  <2>2. mounts'[n] = <<[Bare EXCEPT ![v] = @ + 1]>> \o Tail(mounts[n])
    BY <1>1, <1>2, <2>1 DEF MountVolume
  <2> QED BY <2>2, LayerCounts
<1>3. ASSUME UnmountVolume(n, v), mounts[n] \in {<<With(v)>>, <<With(v), Bare>>}
      PROVE  mounts'[n] = <<Bare>> \o Tail(mounts[n])
  <2>1. Top(n) = With(v)
    BY <1>3, VolumeLayers DEF Top
  <2>2. With(v)[v] > 0
    BY LayerCounts
  <2>3. mounts'[n] = <<[With(v) EXCEPT ![v] = @ - 1]>> \o Tail(mounts[n])
    BY <1>1, <1>3, <2>1, <2>2 DEF UnmountVolume
  <2> QED BY <2>3, LayerCounts
<1>4. ASSUME UnmountVolume(n, v), mounts[n] \in {<<Bare>>, <<Bare, Bare>>} PROVE mounts' = mounts
  <2>1. Top(n) = Bare
    BY <1>4, ShareLayers DEF Top
  <2>2. ~(Bare[v] > 0)
    BY LayerCounts
  <2> QED BY <1>4, <2>1, <2>2 DEF UnmountVolume
<1> QED BY <1>2, <1>3, <1>4, VolumeLayers

LEMMA HandlerElsewhere ==
  ASSUME Typed, NEW h \in Handlers, Works(h)
  PROVE  Below(h) \in Shares /\ Elsewhere(Below(h))
<1>1. RpcTyped /\ ContextTyped /\ MountsTyped /\ pc[h] # "idle"
  BY TypedParts, HandlerMoves
<1>2. Below(h) \in Shares
  BY <1>1, JobFacts
<1>3. ASSUME NEW v \in Volumes, MountVolume(Below(h), v) \/ UnmountVolume(Below(h), v)
      PROVE  Elsewhere(Below(h))
  BY <1>1, <1>2, <1>3, MountVolumeFacts, UnmountVolumeFacts DEF OnTop, Elsewhere
<1>4. MountShare(Below(h)) \/ UnmountShare(Below(h)) \/ UNCHANGED mounts => Elsewhere(Below(h))
  BY <1>1, <1>2, MountShareFacts, UnmountShareFacts DEF Elsewhere
<1>5. CASE AuthMountVolume(h)
  <2>1. Subject(h) \in Volumes
    BY <1>1, <1>5, JobFacts DEF AuthMountVolume, At
  <2>2. UNCHANGED mounts \/ MountVolume(Below(h), Subject(h))
    BY <1>5, AuthMountVolumeSteps
  <2> QED BY <1>2, <1>3, <1>4, <2>1, <2>2
<1>6. CASE UnmountOwn(h)
  <2>1. Subject(h) \in Volumes
    BY <1>1, <1>6, JobFacts DEF UnmountOwn, At
  <2>2. UNCHANGED mounts \/ UnmountVolume(Below(h), Subject(h))
    BY <1>6 DEF UnmountOwn
  <2> QED BY <1>2, <1>3, <1>4, <2>1, <2>2
<1> QED BY <1>2, <1>4, <1>5, <1>6 DEF Works, FindVolume, AuthMountShare, CreateDir, SwitchSource,
           ExtractSnap, CopyVolume, UnmountBelow, FindSource, AuthMountMkdir, Compress, OpenArchive,
           WriteArchive, RemoveArchive, kernel

(* What a handler leaves mounted when it goes on or ends.                  *)
Leaves(h) ==
  mounts'[Below(h)] = IF pc'[h] = "idle" THEN NoMounts ELSE LeftBy(h, pc'[h])

(* What a handler can rely on when nothing else runs and nothing fails.    *)
Alone(h) ==
  /\ mounts[Below(h)] = LeftBy(h, pc[h]) /\ Local(Below(h)) /\ ~Error /\ h \in awaited
  /\ job[h].op = "create" /\ source[job[h].vol] \in Snaps =>
       content[source[job[h].vol]] \in {"ready", "deleting"}

LEMMA GoneOn ==
  ASSUME Typed, NEW h \in Handlers
  PROVE  /\ \A call : call # "idle" /\ GoTo(h, call) /\ mounts'[Below(h)] = LeftBy(h, call) => Leaves(h)
         /\ mounts'[Below(h)] = NoMounts => /\ Reply(h) => Leaves(h)
                                            /\ \A full : ReplyCreated(h, full) => Leaves(h)
                                            /\ ReplySnapshot(h) => Leaves(h)
                                            /\ ReplySnapshotGone(h) => Leaves(h)
<1>1. ASSUME NEW call, call # "idle", GoTo(h, call), mounts'[Below(h)] = LeftBy(h, call)
      PROVE  Leaves(h)
  <2>1. pc'[h] = call
    BY <1>1 DEF Typed, TypeOK, GoTo
  <2> QED BY <1>1, <2>1 DEF Leaves
<1>2. Ends(h) /\ mounts'[Below(h)] = NoMounts => Leaves(h)
  BY DEF Ends, Leaves
<1> QED BY <1>1, <1>2, ReplyEnds

LEMMA LeavesSharing ==
  ASSUME Typed, NEW h \in Handlers, Alone(h),
         FindVolume(h) \/ AuthMountShare(h) \/ CreateDir(h) \/ UnmountBelow(h)
  PROVE  Leaves(h)
<1>1. RpcTyped /\ ContextTyped /\ MountsTyped /\ pc[h] # "idle"
  BY TypedParts, FindVolumeSteps DEF AuthMountShare, CreateDir, UnmountBelow, At
<1>2. Below(h) \in Shares /\ ~Error /\ mounts[Below(h)] = LeftBy(h, pc[h])
  BY <1>1, JobFacts DEF Alone
<1>3. CASE FindVolume(h)
  <2>1. UNCHANGED mounts /\ pc[h] = "get" /\ job[h].op = "create"
    BY <1>3, FindVolumeSteps DEF kernel
  <2>2. LeftBy(h, "get") = NoMounts /\ LeftBy(h, "mount") = NoMounts
    BY <2>1 DEF LeftBy, OfSnapshot
  <2>3. ReplyCreated(h, TRUE) \/ GoTo(h, "mount")
    BY <1>3, FindVolumeSteps
  <2> QED BY <1>2, <2>1, <2>2, <2>3, GoneOn
<1>4. CASE AuthMountShare(h)
  <2>1. pc[h] = "mount" /\ job[h].op \in Sharing
    BY <1>4 DEF AuthMountShare, At
  <2>2. LeftBy(h, "mount") = <<Bare>> /\ LeftBy(h, "mkdir") = <<Bare, Bare>>
    BY <2>1, ShareLayers DEF LeftBy, Sharing, OfSnapshot
  <2>3. ~Mounted(Below(h))
    <3>1. Len(mounts[Below(h)]) = 1
      BY <1>2, <2>1, <2>2, ShareLayers
    <3> QED BY <3>1 DEF Mounted
  <2>4. MountShare(Below(h)) /\ GoTo(h, "mkdir")
    BY <1>2, <1>4, <2>3 DEF AuthMountShare
  <2>5. mounts'[Below(h)] = <<Bare, Bare>>
    BY <1>1, <1>2, <2>1, <2>2, <2>4, MountShareFacts, ShareLayers
  <2> QED BY <2>2, <2>4, <2>5, GoneOn
<1>5. CASE CreateDir(h)
  <2> DEFINE next == IF job[h].op = "create" THEN "source" ELSE "umount"
  <2>1. pc[h] = "mkdir" /\ job[h].op \in Sharing /\ UNCHANGED mounts /\ GoTo(h, next)
    BY <1>2, <1>5 DEF CreateDir, At
  <2>2. LeftBy(h, "mkdir") = LeftBy(h, next) /\ next # "idle"
    BY <2>1 DEF LeftBy
  <2> HIDE DEF next
  <2> QED BY <1>2, <2>1, <2>2, GoneOn
<1>6. CASE UnmountBelow(h)
  <2>1. pc[h] = "umount" /\ job[h].op \in Sharing /\ UnmountShare(Below(h))
    BY <1>2, <1>6 DEF UnmountBelow, At
  <2>2. mounts[Below(h)] = <<Bare, Bare>>
    BY <1>2, <2>1 DEF LeftBy
  <2>3. Mounted(Below(h)) /\ Top(Below(h)) = Bare
    BY <2>2, ShareLayers DEF Mounted, Top
  <2>4. mounts'[Below(h)] = NoMounts
    BY <1>1, <1>2, <2>1, <2>2, <2>3, UnmountShareFacts, ShareLayers
  <2> QED BY <1>6, <2>4, GoneOn DEF UnmountBelow
<1> QED BY <1>3, <1>4, <1>5, <1>6

LEMMA LeavesSource ==
  ASSUME Typed, NEW h \in Handlers, Alone(h),
         SwitchSource(h) \/ ExtractSnap(h) \/ CopyVolume(h)
  PROVE  Leaves(h)
<1>1. RpcTyped /\ ContextTyped /\ MountsTyped /\ pc[h] # "idle" /\ job[h].op = "create"
      /\ "create" \in Sharing
  BY TypedParts, SwitchSourceSteps DEF ExtractSnap, CopyVolume, At, Sharing
<1>2. Below(h) \in Shares /\ ~Error /\ mounts[Below(h)] = LeftBy(h, pc[h]) /\ UNCHANGED mounts
  BY <1>1, JobFacts, SwitchSourceSteps DEF Alone, ExtractSnap, CopyVolume, kernel
<1>3. \A call \in {"source", "vmkdir", "extract", "umount"} : LeftBy(h, call) = <<Bare, Bare>>
  BY <1>1 DEF LeftBy
<1>4. CASE SwitchSource(h)
  <2>1. pc[h] = "source"
    BY <1>4, SwitchSourceSteps
  <2>2. GoTo(h, "umount") \/ GoTo(h, Leads(h))
    <3> DEFINE known == content[source[job[h].vol]] \notin {"new", "deleted"}
    <3>1. ASSUME source[job[h].vol] \in Snaps PROVE ~NotFound(h, known)
      BY <1>1, <3>1 DEF Alone, NotFound
    <3> HIDE DEF known
    <3>2. \/ source[job[h].vol] \in Snaps /\ NotFound(h, known)
          \/ GoTo(h, "umount") \/ GoTo(h, Leads(h))
      BY <1>4 DEF SwitchSource, Leads, known
    <3> QED BY <3>1, <3>2
  <2>3. LeftBy(h, Leads(h)) = <<Bare, Bare>> /\ Leads(h) # "idle"
    <3>1. LeftBy(h, "copy") = <<Bare, Bare>> \/ Leads(h) # "copy"
      BY <1>1 DEF LeftBy, Leads
    <3>2. Leads(h) \in {"vmkdir", "extract", "copy"}
      BY DEF Leads
    <3> HIDE DEF Leads
    <3> QED BY <1>3, <3>1, <3>2
  <2> HIDE DEF Leads
  <2> QED BY <1>2, <1>3, <2>1, <2>2, <2>3, GoneOn
<1>5. CASE ExtractSnap(h)
  BY <1>2, <1>3, <1>5, GoneOn DEF ExtractSnap, At
<1>6. CASE CopyVolume(h)
  <2>1. pc[h] = "copy" /\ LeftBy(h, "copy") = LeftBy(h, "vumount")
    BY <1>1, <1>6 DEF CopyVolume, At, LeftBy
  <2>2. Subject(h) \in Volumes
    BY <1>1, <2>1, JobFacts
  <2>3. CASE Exists(Below(h), Subject(h))
    BY <1>2, <1>6, <2>1, <2>3, GoneOn DEF CopyVolume
  <2>4. CASE ~Exists(Below(h), Subject(h))
    <3>1. ~(Top(Below(h))[Subject(h)] > 0)
      BY <2>4 DEF Exists, Reaches
    <3>2. Top(Below(h)) # With(Subject(h))
      BY <2>2, <3>1, LayerCounts
    <3>3. mounts[Below(h)] # <<With(Subject(h)), Bare>>
      BY <2>2, <3>2, VolumeLayers DEF Top
    <3>4. LeftBy(h, "copy") = <<Bare, Bare>>
      BY <1>1, <1>2, <2>1, <3>3 DEF LeftBy
    <3> QED BY <1>2, <1>3, <1>6, <2>1, <2>4, <3>4, GoneOn DEF CopyVolume
  <2> QED BY <2>3, <2>4
<1> QED BY <1>4, <1>5, <1>6

LEMMA LeavesMounting ==
  ASSUME Typed, NEW h \in Handlers, Alone(h),
         FindSource(h) \/ AuthMountMkdir(h) \/ AuthMountVolume(h)
  PROVE  Leaves(h)
<1>1. RpcTyped /\ ContextTyped /\ MountsTyped /\ pc[h] # "idle" /\ JobFits(h)
  BY TypedParts, FindSourceSteps DEF AuthMountMkdir, AuthMountVolume, At, RpcTyped
<1>2. /\ Below(h) \in Shares /\ ~Error /\ mounts[Below(h)] = LeftBy(h, pc[h])
      /\ job[h].vol \in Volumes
  BY <1>1, JobFacts DEF Alone
<1>3. /\ job[h].op \in OfSnapshot =>
           \A call \in {"get", "vmkdir", "vmount"} : LeftBy(h, call) = NoMounts
      /\ job[h].op \in OfSnapshot =>
           \A call \in {"compress", "rmsnap"} : LeftBy(h, call) = <<With(job[h].vol)>>
      /\ job[h].op = "unpublish" => \A call : LeftBy(h, call) = NoMounts
      /\ job[h].op = "create" =>
           \A call \in {"vmkdir", "vmount", "umount"} : LeftBy(h, call) = <<Bare, Bare>>
  BY DEF LeftBy, OfSnapshot, Sharing
<1>4. CASE FindSource(h)
  <2> DEFINE next == IF job[h].op = "unpublish" THEN "vumount" ELSE "vmkdir"
  <2>1. /\ UNCHANGED mounts /\ pc[h] = "get" /\ job[h].op \in {"snapshot", "unsnapshot", "unpublish"}
        /\ GoTo(h, next) \/ Reply(h) \/ ReplySnapshotGone(h)
    BY <1>4, FindSourceSteps DEF kernel
  <2>2. LeftBy(h, "get") = NoMounts /\ LeftBy(h, next) = NoMounts /\ next # "idle"
    BY <1>3, <2>1 DEF OfSnapshot
  <2> HIDE DEF next
  <2> QED BY <1>2, <2>1, <2>2, GoneOn
<1>5. CASE AuthMountMkdir(h)
  <2>1. pc[h] = "vmkdir" /\ GoTo(h, "vmount") /\ UNCHANGED mounts
    BY <1>2, <1>5 DEF AuthMountMkdir, At
  <2>2. LeftBy(h, "vmkdir") = LeftBy(h, "vmount")
    BY DEF LeftBy
  <2> QED BY <1>2, <2>1, <2>2, GoneOn
<1>6. CASE AuthMountVolume(h)
  <2>1. pc[h] = "vmount" /\ Subject(h) \in Volumes /\ job[h].op \in {"create", "snapshot", "unsnapshot"}
    BY <1>1, <1>6, AuthMountVolumeSteps, JobFacts
  <2>2. CASE AuthMountFails(h) /\ UNCHANGED mounts
    <3>1. CASE job[h].op = "create"
      BY <1>2, <1>3, <2>1, <2>2, <3>1, GoneOn DEF AuthMountFails
    <3>2. CASE job[h].op \in OfSnapshot
      BY <1>2, <1>3, <2>1, <2>2, <3>2, GoneOn DEF AuthMountFails, OfSnapshot
    <3> QED BY <2>1, <3>1, <3>2 DEF OfSnapshot
  <2>3. CASE MountVolume(Below(h), Subject(h)) /\ GoTo(h, Beyond(h))
    <3>1. CASE job[h].op = "create"
      <4>1. home[Subject(h)] # Below(h) /\ source[job[h].vol] \notin Snaps
        BY <1>1, <1>2, <2>1, <3>1, JobFacts DEF Alone, Local, JobFits, Below
      <4>2. Beyond(h) = "copy" /\ LeftBy(h, "copy") = <<With(Subject(h)), Bare>>
        BY <3>1, <4>1 DEF Beyond, LeftBy, Sharing
      <4>3. mounts'[Below(h)] = <<With(Subject(h)), Bare>>
        BY <1>1, <1>2, <1>3, <2>1, <2>3, <3>1, OnBare
      <4> QED BY <2>3, <4>2, <4>3, GoneOn
    <3>2. CASE job[h].op \in OfSnapshot
      <4>1. Beyond(h) \in {"compress", "rmsnap"} /\ Subject(h) = job[h].vol
        BY <3>2 DEF Beyond, OfSnapshot, Subject
      <4>2. mounts[Below(h)] = <<Bare>>
        BY <1>2, <1>3, <2>1, <3>2, ShareLayers
      <4>3. mounts'[Below(h)] = <<With(job[h].vol)>>
        BY <1>1, <1>2, <2>3, <4>1, <4>2, OnBare
      <4> QED BY <1>3, <2>3, <3>2, <4>1, <4>3, GoneOn
    <3> QED BY <2>1, <3>1, <3>2 DEF OfSnapshot
  <2> QED BY <1>2, <1>6, <2>2, <2>3, AuthMountVolumeSteps
<1> QED BY <1>4, <1>5, <1>6

LEMMA LeavesSnapshot ==
  ASSUME Typed, NEW h \in Handlers, Alone(h),
         Compress(h) \/ OpenArchive(h) \/ WriteArchive(h) \/ RemoveArchive(h)
  PROVE  Leaves(h)
<1>1. RpcTyped /\ ContextTyped /\ pc[h] # "idle" /\ job[h].op \in OfSnapshot
      /\ pc[h] \in {"compress", "open", "write", "rmsnap"}
  BY TypedParts, CompressSteps DEF OpenArchive, WriteArchive, RemoveArchive, At, OfSnapshot
<1>2. job[h].vol \in Volumes /\ ~Error /\ mounts[Below(h)] = LeftBy(h, pc[h]) /\ UNCHANGED mounts
  BY <1>1, JobFacts, CompressSteps DEF Alone, OpenArchive, WriteArchive, RemoveArchive, kernel
<1>3. \A call \in {"compress", "open", "write", "rmsnap", "vumount"} :
        LeftBy(h, call) = <<With(job[h].vol)>>
  BY <1>1 DEF LeftBy, OfSnapshot, Sharing
<1>4. Exists(Below(h), job[h].vol)
  <2>1. Top(Below(h)) = With(job[h].vol)
    BY <1>1, <1>2, <1>3, VolumeLayers DEF Top
  <2> QED BY <1>2, <2>1, LayerCounts DEF Exists, Reaches
<1>5. GoTo(h, "open") \/ GoTo(h, "write") \/ GoTo(h, "vumount")
  BY <1>2, <1>4, CompressSteps DEF OpenArchive, WriteArchive, RemoveArchive
<1> QED BY <1>1, <1>2, <1>3, <1>5, GoneOn

LEMMA LeavesUnmounted ==
  ASSUME Typed, NEW h \in Handlers, Alone(h), UnmountOwn(h)
  PROVE  Leaves(h)
<1>1. RpcTyped /\ ContextTyped /\ MountsTyped /\ pc[h] = "vumount" /\ JobFits(h)
  BY TypedParts DEF UnmountOwn, At, RpcTyped
<1>2. /\ Below(h) \in Shares /\ Subject(h) \in Volumes /\ UnmountVolume(Below(h), Subject(h))
      /\ mounts[Below(h)] = LeftBy(h, "vumount")
  BY <1>1, JobFacts DEF Alone, UnmountOwn
<1>3. CASE job[h].op = "create"
  <2>1. /\ LeftBy(h, "vumount") \in {<<With(Subject(h)), Bare>>, <<Bare, Bare>>}
        /\ LeftBy(h, "umount") = <<Bare, Bare>>
    BY <1>3 DEF LeftBy, Sharing
  <2>2. mounts'[Below(h)] = <<Bare, Bare>>
    BY <1>1, <1>2, <2>1, OnBare
  <2>3. GoTo(h, "umount")
    BY <1>3 DEF UnmountOwn
  <2> QED BY <2>1, <2>2, <2>3, GoneOn
<1>4. CASE job[h].op \in OfSnapshot
  <2>1. Subject(h) = job[h].vol /\ LeftBy(h, "vumount") = <<With(job[h].vol)>>
    BY <1>4 DEF LeftBy, Sharing, OfSnapshot, Subject
  <2>2. mounts'[Below(h)] = NoMounts
    BY <1>1, <1>2, <2>1, OnBare, ShareLayers
  <2>3. ReplySnapshot(h) \/ ReplySnapshotGone(h)
    BY <1>4 DEF UnmountOwn, OfSnapshot
  <2> QED BY <2>2, <2>3, GoneOn
<1>5. CASE job[h].op = "unpublish"
  <2>1. LeftBy(h, "vumount") = NoMounts /\ Reply(h)
    BY <1>5 DEF LeftBy, Sharing, OfSnapshot, UnmountOwn
  <2>2. mounts'[Below(h)] = NoMounts
    BY <1>1, <1>2, <2>1, OnBare, ShareLayers
  <2> QED BY <2>1, <2>2, GoneOn
<1> QED BY <1>3, <1>4, <1>5 DEF UnmountOwn, OfSnapshot

LEMMA HandlerLeaves ==
  ASSUME Typed, NEW h \in Handlers, Works(h), Alone(h)
  PROVE  Leaves(h)
  BY LeavesSharing, LeavesSource, LeavesMounting, LeavesSnapshot, LeavesUnmounted DEF Works

(* The part of Tidy about one share, by the handlers there are.            *)
TidyAt(n) ==
  /\ \A h \in Handlers : pc[h] # "idle" /\ Below(h) = n => mounts[n] = LeftBy(h, pc[h])
  /\ (\A h \in Handlers : pc[h] # "idle" => Below(h) # n) => mounts[n] = NoMounts

AtMostOne == \A g, h \in Handlers : pc[g] # "idle" /\ pc[h] # "idle" => g = h

SourceThere ==
  \A h \in Handlers :
    pc[h] # "idle" /\ job[h].op = "create" /\ source[job[h].vol] \in Snaps =>
      content[source[job[h].vol]] \in {"ready", "deleting"}

LEMMA TidyParts ==
  /\ Tidy <=> AtMostOne /\ SourceThere /\ \A n \in Shares : Local(n) => TidyAt(n)
  /\ Tidy' <=> AtMostOne' /\ SourceThere' /\ \A n \in Shares : Local(n)' => TidyAt(n)'
  BY DEF Tidy, AtMostOne, SourceThere, TidyAt

LEMMA TidyHandler ==
  ASSUME Typed, Tidy, ~Error, NEW h \in Handlers, h \in awaited, Works(h)
  PROVE  Tidy'
<1>1. /\ RpcTyped /\ ContextTyped /\ scenario' = scenario /\ home' = home /\ source' = source
      /\ pc[h] # "idle" /\ Others(h) /\ (pc'[h] # "idle" => SameRequest(h) /\ content' = content)
      /\ Below(h) \in Shares /\ Elsewhere(Below(h))
  BY TypedParts, HandlerTyped, HandlerMoves, HandlerElsewhere DEF Grows, Ends, Goes, home, source
<1>2. \A g \in Handlers : g # h => pc[g] = "idle" /\ pc'[g] = "idle"
  BY <1>1, TidyParts DEF AtMostOne, Others
<1>3. AtMostOne' /\ SourceThere'
  BY <1>1, <1>2, TidyParts DEF AtMostOne, SourceThere, SameRequest
<1>4. pc'[h] # "idle" => Below(h)' = Below(h) /\ LeftBy(h, pc[h])' = LeftBy(h, pc'[h])
  BY <1>1 DEF SameRequest, Below, LeftBy, Subject, Origin, home
<1>5. ASSUME NEW n \in Shares, Local(n)' PROVE TidyAt(n)'
  <2>1. Local(n) /\ TidyAt(n)
    BY <1>1, <1>5, TidyParts DEF Local, Origin
  <2>2. CASE n = Below(h)
    <3>1. Alone(h)
      BY <1>1, <2>1, <2>2, TidyParts DEF Alone, TidyAt, SourceThere
    <3>2. Leaves(h)
      BY <3>1, HandlerLeaves
    <3> QED BY <1>2, <1>4, <2>2, <3>2 DEF Leaves, TidyAt
  <2>3. CASE n # Below(h)
    <3>1. mounts'[n] = NoMounts
      BY <1>1, <1>2, <2>1, <2>3 DEF TidyAt, Elsewhere
    <3> QED BY <1>2, <1>4, <2>3, <3>1 DEF TidyAt
  <2> QED BY <2>2, <2>3
<1> QED BY <1>3, <1>5, TidyParts

LEMMA TidyRequest ==
  ASSUME Typed, Tidy, NEW h \in Handlers, Request(h), ~overlapped'
  PROVE  Tidy'
<1>1. /\ RpcTyped /\ RpcTyped' /\ ContextTyped /\ home' = home /\ source' = source
      /\ pc[h] = "idle" /\ pc'[h] \in {"get", "mount"}
      /\ UNCHANGED <<mounts, scenario, content>>
      /\ \A g \in Handlers : g # h => pc'[g] = pc[g]
  BY TypedParts, RequestFacts DEF api, home, source
<1>2. \A g \in Handlers : g # h => pc[g] = "idle" /\ pc'[g] = "idle"
  BY <1>1 DEF Request, Starts
<1>3. AtMostOne'
  BY <1>2 DEF AtMostOne
<1>4. SourceThere'
  <2>1. SUFFICES ASSUME job'[h].op = "create", source[job'[h].vol] \in Snaps
                 PROVE  content[source[job'[h].vol]] = "ready"
    BY <1>1, <1>2 DEF SourceThere
  <2> QED BY <1>1, <2>1, RequestNames, ScenarioFacts
<1>5. ASSUME NEW n \in Shares, Local(n)' PROVE TidyAt(n)'
  <2>1. Local(n) /\ TidyAt(n)
    BY <1>1, <1>5, TidyParts DEF Local, Origin
  <2>2. mounts'[n] = NoMounts
    BY <1>1, <1>2, <2>1 DEF TidyAt
  <2>3. LeftBy(h, pc[h])' = NoMounts
    <3>1. JobFits(h)'
      BY <1>1 DEF RpcTyped
    <3> QED BY <1>1, <3>1 DEF LeftBy, JobFits, Serves, Sharing, OfSnapshot
  <2> QED BY <1>2, <2>2, <2>3 DEF TidyAt
<1> QED BY <1>3, <1>4, <1>5, TidyParts

LEMMA TidyStep ==
  ASSUME Framed, Sequential => Tidy, [Next]_vars
  PROVE  Sequential' => Tidy'
<1>1. /\ Typed /\ RpcTyped /\ ContextTyped /\ faults.errors \in Nat /\ faults'.errors \in Nat
      /\ faults'.errors >= faults.errors
      /\ Error => faults'.errors = faults.errors + 1
  BY TypedParts, TypedStep, FaultFacts DEF Framed, ContextTyped, Grows
<1>2. CASE Restart
  BY <1>2 DEF Restart, Tidy
<1>3. ASSUME ~Restart, Sequential' PROVE Sequential /\ ~Error
  <2>1. Known' /\ faults'.errors = 0 /\ ~overlapped'
    BY <1>3 DEF Sequential
  <2>2. faults.errors = 0 /\ ~Error
    BY <1>1, <2>1
  <2>3. overlapped => overlapped'
    <3>1. ASSUME NEW h \in Handlers, Works(h) PROVE UNCHANGED overlapped
      BY <3>1, QuietSteps, AuthMountVolumeSteps DEF Works, AuthMountShare, CreateDir, ExtractSnap,
         CopyVolume, UnmountBelow, AuthMountMkdir, UnmountOwn, OpenArchive, WriteArchive, RemoveArchive,
         context
    <3>2. ASSUME NEW h \in Handlers, Request(h) PROVE overlapped => overlapped'
      BY <3>2 DEF Request, Starts
    <3> QED BY <1>1, <1>3, <3>1, <3>2, NextCases, OutsideTyped DEF Timeout, vars, context
  <2> QED BY <1>1, <2>1, <2>2, <2>3, KnownStep DEF Sequential
<1>4. CASE /\ UNCHANGED <<pc, job, mounts, scenario>>
           /\ \A s \in Snaps : content[s] \in {"ready", "deleting"} => content'[s] \in {"ready", "deleting"}
  <2>1. home' = home /\ source' = source
    BY <1>4 DEF home, source
  <2>2. AtMostOne = AtMostOne' /\ (SourceThere => SourceThere')
    BY <1>4, <2>1 DEF AtMostOne, SourceThere
  <2>3. ASSUME NEW n \in Shares PROVE Local(n)' = Local(n) /\ TidyAt(n)' = TidyAt(n)
    BY <1>4, <2>1 DEF TidyAt, LeftBy, Local, Below, Subject, Origin
  <2>4. Tidy => Tidy'
    BY <2>2, <2>3, TidyParts
  <2> QED BY <1>2, <1>3, <2>4
<1>5. CASE Outside
  <2>1. \A s \in Snaps : content[s] \in {"ready", "deleting"} => content'[s] \in {"ready", "deleting"}
    BY <1>1, <1>5 DEF Outside, DeleteVolume, PodWrites, SnapshotRequested, SnapshotUnwanted, api, RpcTyped
  <2> QED BY <1>1, <1>4, <1>5, <2>1, OutsideTyped DEF kernel, rpc, context
<1>6. CASE \E h \in Handlers : Timeout(h)
  BY <1>4, <1>6 DEF Timeout, kernel, context, api
<1>7. CASE UNCHANGED vars
  BY <1>4, <1>7 DEF vars, kernel, rpc, context, api
<1>8. CASE \E h \in Handlers : Request(h)
  BY <1>1, <1>2, <1>3, <1>8, TidyRequest DEF Sequential
<1>9. CASE \E h \in Handlers : Works(h)
  <2>1. PICK h \in Handlers : Works(h)
    BY <1>9
  <2>2. Sequential => h \in awaited
    BY <1>1, <2>1, HandlerMoves DEF Sequential, Framed, Single
  <2> QED BY <1>1, <1>2, <1>3, <2>1, <2>2, TidyHandler
<1> QED BY <1>1, <1>2, <1>5, <1>6, <1>7, <1>8, <1>9, NextCases

-----------------------------------------------------------------------------
(* The inductive invariant.                                                *)

LEMMA Inductive == Spec => []IInv
<1>1. ASSUME Init PROVE IInv
  <2>1. Tidy
    BY <1>1 DEF Init, Tidy
  <2> QED BY <1>1, <2>1, DeliveringInit DEF IInv
<1>2. ASSUME IInv, [Next]_vars PROVE IInv'
  <2>1. Framed
    BY <1>2 DEF IInv, Delivering
  <2>2. Sequential' => Tidy'
    BY <1>2, <2>1, TidyStep DEF IInv
  <2> QED BY <1>2, <2>2, DeliveringStep DEF IInv
<1> QED BY <1>1, <1>2, PTL DEF Spec

(* After calls that came one after the other, none given up on, and        *)
(* without failed system calls and lookups, nothing is left mounted on a   *)
(* share's directory, unless volumes are restored there from another share.*)
THEOREM NothingStaysMounted == Spec => []NothingLeftMounted
<1>1. ASSUME IInv PROVE NothingLeftMounted
  <2>1. SUFFICES ASSUME Sequential, \A h \in Handlers : pc[h] = "idle", NEW n \in Shares, Local(n)
                 PROVE  mounts[n] = NoMounts
    BY DEF NothingLeftMounted, Sequential, Known, Local
  <2> QED BY <1>1, <2>1, TidyParts DEF IInv, TidyAt
<1> QED BY <1>1, Inductive, PTL

=============================================================================
