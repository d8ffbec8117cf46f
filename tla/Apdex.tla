------------------------------- MODULE Apdex -------------------------------
(***************************************************************************)
(* The measurement smb-csi/measurement/apdex: workers create claims, watch *)
(* them and note how long they take to be bound; when all are done, as many*)
(* workers do the same with pods; then the times are drawn as coloured     *)
(* bars.                                                                   *)
(*                                                                         *)
(* The API server and the cluster are external. Of a watch's events only a *)
(* Modified one that shows the object bound or ready has an effect. A watch*)
(* begins with Added events for what is there already, which workers       *)
(* ignore, and one that was closed gives zero events without end.          *)
(***************************************************************************)
EXTENDS Integers, FiniteSets

CONSTANTS
  MaxCount,    \* volumes asked for at most
  Tolerated,   \* msTolerated, of claims and of pods
  Failure,     \* msFailure, of claims and of pods
  MaxTime,     \* end of the clock
  MaxFailures  \* API calls that fail, watches closed and objects left over, together

ASSUME ApdexAssumption ==
  /\ MaxCount \in Nat \ {0}
  /\ {Tolerated, Failure, MaxTime, MaxFailures} \subseteq Nat

VARIABLES
  count,    \* volumesCount
  phase,    \* what main does
  at,       \* next step of each worker
  start,    \* when it began to measure
  times,    \* timesPVC and timesPod
  colour,   \* the bars' colours
  object,   \* each worker's claim or pod in the cluster
  created,  \* when the measurement created each claim
  bound,    \* when each claim was bound
  stream,   \* each worker's watch; a signalled one holds an event that ends the wait
  now,      \* the clock
  failures  \* faults so far

program == <<count, phase, at, start, times, colour>>
cluster == <<object, created, bound>>
vars    == <<program, cluster, stream, now, failures>>

Ids     == 0 .. MaxCount - 1
Workers == {"pvc", "pod"} \X Ids
NotYet  == -1
Times   == {NotYet} \union 0 .. MaxTime

TypeOK ==
  /\ count \in -1 .. MaxCount
  /\ phase \in {"start", "pvc", "pod", "report", "done", "crashed"}
  /\ at \in [Workers -> {"idle", "begin", "create", "watch", "wait", "done"}]
  /\ start \in [Workers -> Times]
  /\ times \in [Workers -> Times]
  /\ colour \in [Workers -> {"none", "red", "yellow", "green"}]
  /\ object \in [Workers -> {"none", "pending", "ready"}]
  /\ created \in [Ids -> Times]
  /\ bound \in [Ids -> Times]
  /\ stream \in [Workers -> {"none", "open", "signalled", "closed"}]
  /\ now \in 0 .. MaxTime
  /\ failures \in 0 .. MaxFailures

(* An earlier measurement may have left claims and pods of these names.    *)
Init ==
  /\ count \in -1 .. MaxCount
  /\ phase = "start"
  /\ at = [w \in Workers |-> "idle"]
  /\ start = [w \in Workers |-> NotYet]
  /\ times = [w \in Workers |-> NotYet]
  /\ colour = [w \in Workers |-> "none"]
  /\ \E left \in SUBSET Workers :
       /\ \A i \in Ids : <<"pod", i>> \in left => <<"pvc", i>> \in left
       /\ failures = Cardinality(left) /\ failures <= MaxFailures
       /\ object = [w \in Workers |-> IF w \in left THEN "ready" ELSE "none"]
  /\ created = [i \in Ids |-> NotYet]
  /\ bound = [i \in Ids |-> NotYet]
  /\ stream = [w \in Workers |-> "none"]
  /\ now = 0

-----------------------------------------------------------------------------
(* main. *)

(* Faulty variant: one worker's Done is enough. *)
AllDoneSoon(k) == count > 0 => \E i \in 0 .. count - 1 : at[<<k, i>>] = "done"

(* wg.Wait() *)
AllDone(k) == \A i \in 0 .. count - 1 : at[<<k, i>>] = "done"

(* Faulty variant: claims are measured like pods. *)
OrderAsPods(k) == <<"create", "begin">>

(* PVCworker takes the time before it creates its claim, Podworker after   *)
(* it has created its pod.                                                 *)
Order(k) == IF k = "pvc" THEN <<"begin", "create">> ELSE <<"create", "begin">>

Spawn(k) ==
  /\ phase' = k
  /\ at' = [w \in Workers |-> IF w[1] = k /\ w[2] < count THEN Order(k)[1] ELSE at[w]]

(* make panics for a negative count. *)
MeasurePVCTimesThreaded ==
  /\ phase = "start"
  /\ IF count < 0 THEN phase' = "crashed" /\ UNCHANGED at ELSE Spawn("pvc")
  /\ UNCHANGED <<count, start, times, colour, cluster, stream, now, failures>>

MeasurePodTimesThreaded ==
  /\ phase = "pvc" /\ AllDone("pvc")
  /\ Spawn("pod")
  /\ UNCHANGED <<count, start, times, colour, cluster, stream, now, failures>>

PodsMeasured ==
  /\ phase = "pod" /\ AllDone("pod")
  /\ phase' = "report"
  /\ UNCHANGED <<count, at, start, times, colour, cluster, stream, now, failures>>

(* Without limits bars have no colour. *)
Colour(millis) ==
  IF Tolerated = 0 /\ Failure = 0 THEN "none"
  ELSE IF millis > Failure THEN "red"
  ELSE IF millis > Tolerated THEN "yellow"
  ELSE "green"

(* The average over no data divides by zero. *)
GenerateChart ==
  /\ phase = "report"
  /\ IF count = 0
       THEN phase' = "crashed" /\ UNCHANGED colour
       ELSE /\ phase' = "done"
            /\ colour' = [w \in Workers |-> IF w[2] < count THEN Colour(times[w]) ELSE "none"]
  /\ UNCHANGED <<count, at, start, times, cluster, stream, now, failures>>

-----------------------------------------------------------------------------
(* Workers. *)

After(k, step) == IF step = Order(k)[1] THEN Order(k)[2] ELSE "watch"

Step(w, from, to) ==
  phase \notin {"done", "crashed"} /\ at[w] = from /\ at' = [at EXCEPT ![w] = to]

Fails == failures < MaxFailures /\ failures' = failures + 1

Begin(w) ==
  /\ Step(w, "begin", After(w[1], "begin"))
  /\ start' = [start EXCEPT ![w] = now]
  /\ UNCHANGED <<count, phase, times, colour, cluster, stream, now, failures>>

(* An error, also that the object is there already, is printed only.       *)
Create(w) ==
  /\ Step(w, "create", After(w[1], "create"))
  /\ \/ /\ object[w] = "none"
        /\ object' = [object EXCEPT ![w] = "pending"]
        /\ created' = IF w[1] = "pvc" THEN [created EXCEPT ![w[2]] = now] ELSE created
        /\ UNCHANGED failures
     \/ object[w] # "none" /\ UNCHANGED <<object, created, failures>>
     \/ Fails /\ UNCHANGED <<object, created>>
  /\ UNCHANGED <<count, phase, start, times, colour, bound, stream, now>>

(* The error of Watch is dropped and its result, nil, is used: the process *)
(* panics.                                                                 *)
Watch(w) ==
  /\ \/ /\ Step(w, "watch", "wait")
        /\ stream' = [stream EXCEPT ![w] = "open"]
        /\ UNCHANGED <<phase, failures>>
     \/ /\ Step(w, "watch", "idle")
        /\ phase' = "crashed"
        /\ Fails
        /\ UNCHANGED stream
  /\ UNCHANGED <<count, start, times, colour, cluster, now>>

(* Faulty variant: the difference is taken the other way round. *)
BoundSeenSwapped(w) ==
  /\ Step(w, "wait", "done")
  /\ stream[w] = "signalled"
  /\ times' = [times EXCEPT ![w] = start[w] - now]
  /\ UNCHANGED <<count, phase, start, colour, cluster, stream, now, failures>>

(* Faulty variant: the worker does not call Done. *)
BoundSeenNotDone(w) ==
  /\ Step(w, "wait", "idle")
  /\ stream[w] = "signalled"
  /\ times' = [times EXCEPT ![w] = now - start[w]]
  /\ UNCHANGED <<count, phase, start, colour, cluster, stream, now, failures>>

(* The event ends the wait, and the worker notes its time. *)
BoundSeen(w) ==
  /\ Step(w, "wait", "done")
  /\ stream[w] = "signalled"
  /\ times' = [times EXCEPT ![w] = now - start[w]]
  /\ UNCHANGED <<count, phase, start, colour, cluster, stream, now, failures>>

-----------------------------------------------------------------------------
(* The cluster. *)

Signal(w) == [stream EXCEPT ![w] = IF @ = "open" THEN "signalled" ELSE @]

(* The claim the i-th pod names. *)
ClaimOf(i) == <<"pvc", i>>

(* A claim is bound, or the pod of a bound claim becomes ready. *)
Settle(w) ==
  /\ object[w] = "pending"
  /\ w[1] = "pod" => object[ClaimOf(w[2])] = "ready"
  /\ object' = [object EXCEPT ![w] = "ready"]
  /\ bound' = IF w[1] = "pvc" THEN [bound EXCEPT ![w[2]] = now] ELSE bound
  /\ stream' = Signal(w)
  /\ UNCHANGED <<program, created, now, failures>>

(* Something else of the object changes, which nobody has to wait for. *)
Touch(w) ==
  /\ object[w] = "ready"
  /\ stream' = Signal(w)
  /\ UNCHANGED <<program, cluster, now, failures>>

WatchCloses(w) ==
  /\ stream[w] = "open"
  /\ stream' = [stream EXCEPT ![w] = "closed"]
  /\ Fails
  /\ UNCHANGED <<program, cluster, now>>

Tick ==
  /\ now < MaxTime
  /\ now' = now + 1
  /\ UNCHANGED <<program, cluster, stream, failures>>

-----------------------------------------------------------------------------

Main == MeasurePVCTimesThreaded \/ MeasurePodTimesThreaded \/ PodsMeasured \/ GenerateChart

Worker(w) == Begin(w) \/ Create(w) \/ Watch(w) \/ BoundSeen(w)

Next ==
  \/ Main \/ Tick
  \/ \E w \in Workers : Worker(w) \/ Settle(w) \/ Touch(w) \/ WatchCloses(w)

Spec == Init /\ [][Next]_vars

(* Goroutines run, claims are bound and pods started. *)
Fairness ==
  /\ WF_vars(Main)
  /\ \A w \in Workers : WF_vars(Worker(w)) /\ WF_vars(Settle(w))

FairSpec == Spec /\ Fairness

-----------------------------------------------------------------------------
(* Properties. *)

(* No pod is created before every claim is bound, so the pods' times do not*)
(* contain the provisioning of a volume.                                   *)
PodsAfterClaims ==
  (\E i \in Ids : at[<<"pod", i>>] # "idle") =>
    \A i \in 0 .. count - 1 : object[<<"pvc", i>>] = "ready"

(* The bar of a claim that took too long to be bound shows it, however the *)
(* worker's steps lie between those of the cluster: what is measured spans *)
(* what happened. (Of pods it does not: Podworker starts the clock when    *)
(* its pod exists already.)                                                *)
SlowClaimsShown ==
  phase = "done" /\ (Tolerated # 0 \/ Failure # 0) =>
    \A i \in 0 .. count - 1 :
      LET took == bound[i] - created[i] IN
      created[i] # NotYet =>
        /\ took > Failure => colour[<<"pvc", i>>] = "red"
        /\ took > Tolerated => colour[<<"pvc", i>>] # "green"

(* An object that was bound or ready before the worker's watch began.      *)
Missed == \E w \in Workers : object[w] = "ready" /\ stream[w] = "none"

(* The measurement ends if the API server never fails it, no watch is      *)
(* closed, and every watch begins before its object is bound or ready.     *)
MeasurementEnds ==
  count > 0 /\ [](failures = 0 /\ ~Missed) => <>(phase = "done")

=============================================================================
