---------------------------- MODULE Apdex_proofs ----------------------------
(***************************************************************************)
(* Theorems on Apdex: its type invariant, that pods are created after all  *)
(* claims are bound, and that the bars of slow claims show it.             *)
(***************************************************************************)
EXTENDS Apdex, FiniteSetTheorems, TLAPS

PVC(i) == <<"pvc", i>>
POD(i) == <<"pod", i>>

(* A worker that is done has seen its object bound or ready; pods' workers *)
(* start when all claims' workers are done, and nothing starts before main *)
(* does.                                                                   *)
BarrierInv ==
  /\ \A w \in Workers : at[w] = "done" \/ stream[w] = "signalled" => object[w] = "ready"
  /\ \A i \in Ids : at[POD(i)] # "idle" => AllDone("pvc")
  /\ phase \in {"pod", "report", "done"} => AllDone("pvc")
  /\ phase = "start" => \A w \in Workers : at[w] = "idle"
  /\ phase = "pvc" => \A i \in Ids : at[POD(i)] = "idle"

(* Whoever watches has started the clock, claims' workers also before they *)
(* create their claim.                                                     *)
ClockInv ==
  /\ \A w \in Workers : at[w] \in {"watch", "wait"} => start[w] \in 0 .. now
  /\ \A i \in Ids :
       /\ at[PVC(i)] = "create" => start[PVC(i)] \in 0 .. now
       /\ created[i] # NotYet =>
            start[PVC(i)] \in 0 .. created[i] /\ at[PVC(i)] # "begin"
       /\ phase = "start" => created[i] = NotYet
       /\ bound[i] <= now /\ created[i] <= now

(* What was measured spans the time from creation to binding, and colours  *)
(* are of what was measured.                                               *)
SpanInv ==
  /\ \A i \in Ids :
       at[PVC(i)] = "done" /\ created[i] # NotYet =>
         bound[i] - created[i] <= times[PVC(i)]
  /\ phase = "done" =>
       \A i \in Ids : i < count => colour[PVC(i)] = Colour(times[PVC(i)])

IInv == TypeOK /\ BarrierInv /\ ClockInv /\ SpanInv

-----------------------------------------------------------------------------

(* The values that sequences of steps take. *)
LEMMA Orders ==
  /\ Order("pvc")[1] = "begin" /\ Order("pod")[1] = "create"
  /\ After("pvc", "begin") = "create" /\ After("pvc", "create") = "watch"
  /\ After("pod", "create") = "begin" /\ After("pod", "begin") = "watch"
  BY DEF Order, After

LEMMA WorkerKinds ==
  /\ \A i \in Ids : PVC(i) \in Workers /\ POD(i) \in Workers /\ PVC(i)[1] = "pvc" /\ POD(i)[1] = "pod"
                    /\ PVC(i)[2] = i /\ POD(i)[2] = i
  /\ \A w \in Workers : /\ w[2] \in Ids /\ w[1] \in {"pvc", "pod"}
                        /\ w[1] = "pvc" => w = PVC(w[2])
                        /\ w[1] = "pod" => w = POD(w[2])
  /\ \A i, j \in Ids : PVC(i) # POD(j) /\ (PVC(i) = PVC(j) => i = j)
  BY DEF Workers, PVC, POD

LEMMA InitInv == Init => IInv
<1> SUFFICES ASSUME Init PROVE IInv
  OBVIOUS
<1>1. IsFiniteSet(Workers)
  <2>1. IsFiniteSet(Ids)
    BY ApdexAssumption, FS_Interval DEF Ids
  <2>2. IsFiniteSet({"pvc"} \union {"pod"}) /\ {"pvc"} \union {"pod"} = {"pvc", "pod"}
    BY FS_Singleton, FS_AddElement
  <2> QED BY <2>1, <2>2, FS_Product DEF Workers
<1>2. failures \in 0 .. MaxFailures
  <2>1. PICK left \in SUBSET Workers : failures = Cardinality(left) /\ failures <= MaxFailures
    BY DEF Init
  <2>2. Cardinality(left) \in Nat
    BY <1>1, FS_Subset, FS_CardinalityType
  <2> QED BY <2>1, <2>2, ApdexAssumption
<1>3. TypeOK
  BY <1>2, ApdexAssumption DEF Init, TypeOK, Times, NotYet, Ids
<1> QED BY <1>3, ApdexAssumption, WorkerKinds
        DEF Init, IInv, BarrierInv, ClockInv, SpanInv, NotYet

-----------------------------------------------------------------------------
(* Steps of main. *)

LEMMA SpawnStep ==
  ASSUME IInv, NEW k \in {"pvc", "pod"}, Spawn(k),
         k = "pvc" => phase = "start",
         k = "pod" => phase = "pvc" /\ AllDone("pvc"),
         UNCHANGED <<count, start, times, colour, cluster, stream, now, failures>>
  PROVE  IInv'
<1> USE DEF IInv
<1>1. phase' = k /\ at' \in [Workers -> {"idle", "begin", "create", "watch", "wait", "done"}]
  BY Orders DEF Spawn, TypeOK
<1>2. \A w \in Workers :
        \/ at'[w] = at[w]
        \/ k = "pvc" /\ w[1] = "pvc" /\ at'[w] = "begin"
        \/ k = "pod" /\ w[1] = "pod" /\ at'[w] = "create"
  BY Orders DEF Spawn
<1>3. TypeOK'
  BY <1>1 DEF TypeOK, cluster
<1>4. \A i \in Ids : /\ at'[PVC(i)] = at[PVC(i)] \/ (k = "pvc" /\ at'[PVC(i)] = "begin")
                     /\ k = "pvc" => at'[POD(i)] = "idle"
  <2> TAKE i \in Ids
  <2>1. PVC(i) \in Workers /\ PVC(i)[1] = "pvc" /\ POD(i) \in Workers /\ POD(i)[1] = "pod"
    BY WorkerKinds
  <2>2. at'[PVC(i)] = at[PVC(i)] \/ (k = "pvc" /\ at'[PVC(i)] = "begin")
    BY <1>2, <2>1
  <2>3. k = "pvc" => at'[POD(i)] = at[POD(i)] /\ at[POD(i)] = "idle"
    BY <1>2, <2>1 DEF BarrierInv
  <2> QED BY <2>2, <2>3
<1>5. k = "pod" => AllDone("pvc")'
  <2> SUFFICES ASSUME k = "pod", NEW i \in 0 .. count - 1 PROVE at'[PVC(i)] = "done"
    BY DEF AllDone, PVC
  <2>1. i \in Ids /\ at[PVC(i)] = "done"
    BY ApdexAssumption DEF AllDone, PVC, Ids, TypeOK
  <2> QED BY <1>4, <2>1
<1>6. BarrierInv'
  BY <1>1, <1>2, <1>4, <1>5 DEF BarrierInv, cluster
<1>7. ClockInv'
  BY <1>1, <1>2, <1>4 DEF ClockInv, cluster
<1>8. SpanInv'
  BY <1>1, <1>4 DEF SpanInv, cluster
<1> QED BY <1>3, <1>6, <1>7, <1>8

LEMMA ColourType == \A millis : Colour(millis) \in {"none", "red", "yellow", "green"}
  BY DEF Colour

LEMMA MainStep == ASSUME IInv, Main PROVE IInv'
<1> USE DEF IInv
<1>1. CASE MeasurePVCTimesThreaded /\ count >= 0
  BY <1>1, SpawnStep DEF MeasurePVCTimesThreaded, TypeOK
<1>2. CASE MeasurePodTimesThreaded
  BY <1>2, SpawnStep DEF MeasurePodTimesThreaded
<1>3. CASE phase' \in {"report", "done", "crashed"} /\ UNCHANGED at
           /\ (phase' = "report" => phase = "pod")
           /\ (phase' = "done" => phase = "report" /\ GenerateChart /\ count # 0)
           /\ (phase' # "done" => UNCHANGED colour)
           /\ UNCHANGED <<count, start, times, cluster, stream, now, failures>>
  <2>1. colour' \in [Workers -> {"none", "red", "yellow", "green"}]
    BY <1>3, ColourType DEF GenerateChart, TypeOK
  <2>2. TypeOK'
    BY <1>3, <2>1 DEF TypeOK, cluster
  <2>3. BarrierInv' /\ ClockInv'
    BY <1>3 DEF BarrierInv, ClockInv, AllDone, cluster
  <2>4. phase' = "done" => \A i \in Ids : i < count => colour'[PVC(i)] = Colour(times[PVC(i)])
    BY <1>3, WorkerKinds DEF GenerateChart
  <2>5. SpanInv'
    BY <1>3, <2>4 DEF SpanInv, cluster, Colour
  <2> QED BY <2>2, <2>3, <2>5
<1> QED BY <1>1, <1>2, <1>3
        DEF Main, MeasurePVCTimesThreaded, PodsMeasured, GenerateChart, TypeOK

-----------------------------------------------------------------------------
(* Steps of the workers. *)

(* What a worker's step does to everybody's place. *)
LEMMA StepTypes ==
  ASSUME TypeOK, NEW w \in Workers,
         NEW from \in {"begin", "create", "watch", "wait"},
         NEW to \in {"idle", "begin", "create", "watch", "wait", "done"}, Step(w, from, to)
  PROVE  /\ at' \in [Workers -> {"idle", "begin", "create", "watch", "wait", "done"}]
         /\ at[w] = from /\ at'[w] = to
         /\ \A v \in Workers \ {w} : at'[v] = at[v]
         /\ phase \notin {"done", "crashed"}
  BY DEF Step, TypeOK

LEMMA BarrierKept ==
  ASSUME IInv, UNCHANGED count, NEW w \in Workers, at[w] \notin {"idle", "done"},
         \A v \in Workers \ {w} : at'[v] = at[v],
         phase' \in {phase, "crashed"},
         \A v \in Workers : at'[v] = "done" \/ stream'[v] = "signalled" => object'[v] = "ready"
  PROVE  BarrierInv'
<1> USE DEF IInv
<1>1. AllDone("pvc") => AllDone("pvc")'
  <2> SUFFICES ASSUME AllDone("pvc"), NEW i \in 0 .. count - 1 PROVE at'[PVC(i)] = "done"
    BY DEF AllDone, PVC
  <2>1. i \in Ids /\ at[PVC(i)] = "done" /\ PVC(i) \in Workers
    BY ApdexAssumption, WorkerKinds DEF AllDone, PVC, Ids, TypeOK
  <2> QED BY <2>1
<1>2. \A i \in Ids : at'[POD(i)] # "idle" => at[POD(i)] # "idle"
  BY WorkerKinds
<1>3. phase # "start"
  BY DEF BarrierInv
<1> QED BY <1>1, <1>2, <1>3, WorkerKinds DEF BarrierInv

LEMMA BeginStep == ASSUME IInv, NEW w \in Workers, Begin(w) PROVE IInv'
<1> USE DEF IInv
<1> DEFINE to == After(w[1], "begin")
<1>1. to \in {"create", "watch"}
  BY Orders, WorkerKinds
<1>2. /\ at' \in [Workers -> {"idle", "begin", "create", "watch", "wait", "done"}]
      /\ at[w] = "begin" /\ at'[w] = to
      /\ \A v \in Workers \ {w} : at'[v] = at[v]
  BY <1>1, StepTypes DEF Begin
<1>3. /\ start' \in [Workers -> Times] /\ start'[w] = now
      /\ \A v \in Workers \ {w} : start'[v] = start[v]
      /\ UNCHANGED <<count, phase, times, colour, cluster, stream, now, failures>>
  BY DEF Begin, TypeOK, Times
<1>4. TypeOK'
  BY <1>2, <1>3 DEF TypeOK, cluster
<1>5. BarrierInv'
  BY <1>1, <1>2, <1>3, BarrierKept DEF BarrierInv, cluster
<1>6. ClockInv'
  BY <1>1, <1>2, <1>3, WorkerKinds, ApdexAssumption DEF ClockInv, TypeOK, cluster
<1>7. SpanInv'
  BY <1>1, <1>2, <1>3, WorkerKinds DEF SpanInv, cluster, Colour
<1> QED BY <1>4, <1>5, <1>6, <1>7

LEMMA CreateStep == ASSUME IInv, NEW w \in Workers, Create(w) PROVE IInv'
<1> USE DEF IInv
<1> DEFINE to == After(w[1], "create")
<1>1. to \in {"begin", "watch"} /\ (w[1] = "pvc" => to = "watch") /\ (w[1] = "pod" => to = "begin")
  BY Orders, WorkerKinds
<1>2. /\ at' \in [Workers -> {"idle", "begin", "create", "watch", "wait", "done"}]
      /\ at[w] = "create" /\ at'[w] = to
      /\ \A v \in Workers \ {w} : at'[v] = at[v]
      /\ phase # "done"
  BY <1>1, StepTypes DEF Create
<1>3. /\ UNCHANGED <<count, phase, start, times, colour, bound, stream, now>>
      /\ failures' \in 0 .. MaxFailures
  BY ApdexAssumption DEF Create, Fails, TypeOK
<1>4. /\ object' \in [Workers -> {"none", "pending", "ready"}]
      /\ \A v \in Workers : object[v] = "ready" => object'[v] = "ready"
  BY DEF Create, TypeOK
<1>5. /\ created' \in [Ids -> Times]
      /\ \A i \in Ids : \/ created'[i] = created[i]
                        \/ w = PVC(i) /\ created'[i] = now
  <2>1. CASE created' = created
    BY <2>1 DEF TypeOK
  <2>2. CASE w[1] = "pvc" /\ created' = [created EXCEPT ![w[2]] = now]
    <3>1. w[2] \in Ids /\ w = PVC(w[2])
      BY <2>2, WorkerKinds
    <3> QED BY <2>2, <3>1 DEF TypeOK, Times
  <2> QED BY <2>1, <2>2 DEF Create
<1>6. TypeOK'
  BY <1>2, <1>3, <1>4, <1>5 DEF TypeOK
<1>7. BarrierInv'
  BY <1>1, <1>2, <1>3, <1>4, BarrierKept DEF BarrierInv
<1>8. phase # "start"
  BY <1>2 DEF BarrierInv
<1>9. ClockInv'
  <2>1. \A v \in Workers : at'[v] \in {"watch", "wait"} => start[v] \in 0 .. now
    BY <1>1, <1>2, WorkerKinds DEF ClockInv
  <2>2. ASSUME NEW i \in Ids
        PROVE  /\ at'[PVC(i)] = "create" => start[PVC(i)] \in 0 .. now
               /\ created'[i] # NotYet => start[PVC(i)] \in 0 .. created'[i] /\ at'[PVC(i)] # "begin"
               /\ bound[i] <= now /\ created'[i] <= now
    <3>1. CASE w = PVC(i)
      BY <3>1, <1>1, <1>2, <1>5, WorkerKinds, ApdexAssumption DEF ClockInv, TypeOK
    <3>2. CASE w # PVC(i)
      BY <3>2, <1>2, <1>5, WorkerKinds DEF ClockInv
    <3> QED BY <3>1, <3>2
  <2> QED BY <2>1, <2>2, <1>3, <1>8 DEF ClockInv
<1>10. SpanInv'
  BY <1>1, <1>2, <1>3, <1>5, WorkerKinds DEF SpanInv
<1> QED BY <1>6, <1>7, <1>9, <1>10

LEMMA WatchStep == ASSUME IInv, NEW w \in Workers, Watch(w) PROVE IInv'
<1> USE DEF IInv
<1>1. /\ at' \in [Workers -> {"idle", "begin", "create", "watch", "wait", "done"}]
      /\ at[w] = "watch" /\ at'[w] \in {"idle", "wait"}
      /\ \A v \in Workers \ {w} : at'[v] = at[v]
      /\ phase # "done"
  BY StepTypes DEF Watch
<1>2. /\ phase' \in {phase, "crashed"} /\ failures' \in 0 .. MaxFailures
      /\ UNCHANGED <<count, start, times, colour, cluster, now>>
  BY ApdexAssumption DEF Watch, Fails, TypeOK
<1>3. /\ stream' \in [Workers -> {"none", "open", "signalled", "closed"}]
      /\ \A v \in Workers : stream'[v] = "signalled" => stream[v] = "signalled"
  BY DEF Watch, TypeOK
<1>4. TypeOK'
  BY <1>1, <1>2, <1>3 DEF TypeOK, cluster
<1>5. BarrierInv'
  BY <1>1, <1>2, <1>3, BarrierKept DEF BarrierInv, cluster
<1>6. ClockInv'
  BY <1>1, <1>2, WorkerKinds DEF ClockInv, cluster
<1>7. SpanInv'
  BY <1>1, <1>2, WorkerKinds DEF SpanInv, cluster
<1> QED BY <1>4, <1>5, <1>6, <1>7

LEMMA BoundSeenStep == ASSUME IInv, NEW w \in Workers, BoundSeen(w) PROVE IInv'
<1> USE DEF IInv
<1>1. /\ at' \in [Workers -> {"idle", "begin", "create", "watch", "wait", "done"}]
      /\ at[w] = "wait" /\ at'[w] = "done"
      /\ \A v \in Workers \ {w} : at'[v] = at[v]
      /\ phase # "done"
  BY StepTypes DEF BoundSeen
<1>2. /\ UNCHANGED <<count, phase, start, colour, cluster, stream, now, failures>>
      /\ object[w] = "ready"
  BY DEF BoundSeen, BarrierInv
<1>3. start[w] \in 0 .. now /\ now \in 0 .. MaxTime
  BY <1>1 DEF ClockInv, TypeOK
<1>4. /\ times' \in [Workers -> Times] /\ times'[w] = now - start[w]
      /\ \A v \in Workers \ {w} : times'[v] = times[v]
  BY <1>3, ApdexAssumption DEF BoundSeen, TypeOK, Times
<1>5. TypeOK'
  BY <1>1, <1>2, <1>4 DEF TypeOK, cluster
<1>6. BarrierInv'
  BY <1>1, <1>2, BarrierKept DEF BarrierInv, cluster
<1>7. ClockInv'
  BY <1>1, <1>2, WorkerKinds DEF ClockInv, cluster
<1>8. SpanInv'
  <2>1. ASSUME NEW i \in Ids, at'[PVC(i)] = "done", created[i] # NotYet
        PROVE  bound[i] - created[i] <= times'[PVC(i)]
    <3>1. CASE w = PVC(i)
      <4>1. /\ bound[i] \in Int /\ bound[i] <= now /\ created[i] \in Int
            /\ start[w] <= created[i]
        BY <2>1, <3>1, <1>3, ApdexAssumption DEF ClockInv, TypeOK, Times, NotYet
      <4> QED BY <4>1, <3>1, <1>3, <1>4
    <3>2. CASE w # PVC(i)
      BY <2>1, <3>2, <1>1, <1>4, WorkerKinds DEF SpanInv
    <3> QED BY <3>1, <3>2
  <2> QED BY <2>1, <1>1, <1>2 DEF SpanInv, cluster
<1> QED BY <1>5, <1>6, <1>7, <1>8

-----------------------------------------------------------------------------
(* Steps of the cluster, and of nobody. *)

LEMMA ClusterStep ==
  ASSUME IInv, \/ \E w \in Workers : Settle(w) \/ Touch(w) \/ WatchCloses(w)
               \/ Tick
               \/ UNCHANGED vars
  PROVE  IInv'
<1> USE DEF IInv
<1>1. UNCHANGED <<program, created>>
  BY DEF Settle, Touch, WatchCloses, Tick, vars, cluster
<1>2. /\ now' \in 0 .. MaxTime /\ now <= now'
      /\ failures' \in 0 .. MaxFailures
  BY ApdexAssumption DEF Settle, Touch, WatchCloses, Tick, vars, cluster, Fails, TypeOK
<1>3. /\ object' \in [Workers -> {"none", "pending", "ready"}]
      /\ stream' \in [Workers -> {"none", "open", "signalled", "closed"}]
  BY DEF Settle, Touch, WatchCloses, Tick, vars, cluster, Signal, TypeOK
<1>4. \A v \in Workers :
        /\ object[v] = "ready" => object'[v] = "ready"
        /\ stream'[v] = "signalled" => stream[v] = "signalled" \/ object'[v] = "ready"
  BY DEF Settle, Touch, WatchCloses, Tick, vars, cluster, Signal, TypeOK
<1>5. /\ bound' \in [Ids -> Times]
      /\ \A i \in Ids : \/ bound'[i] = bound[i]
                        \/ object[PVC(i)] # "ready" /\ bound'[i] = now
  <2>1. CASE bound' = bound
    BY <2>1 DEF TypeOK
  <2>2. ASSUME NEW w \in Workers, Settle(w), w[1] = "pvc"
        PROVE  /\ bound' \in [Ids -> Times]
               /\ \A i \in Ids : \/ bound'[i] = bound[i]
                                 \/ object[PVC(i)] # "ready" /\ bound'[i] = now
    <3>1. w[2] \in Ids /\ w = PVC(w[2])
      BY <2>2, WorkerKinds
    <3>2. object[w] # "ready" /\ bound' = [bound EXCEPT ![w[2]] = now]
      BY <2>2 DEF Settle
    <3> QED BY <3>1, <3>2 DEF TypeOK, Times
  <2>3. bound' = bound \/ \E w \in Workers : Settle(w) /\ w[1] = "pvc"
    BY DEF Settle, Touch, WatchCloses, Tick, vars, cluster
  <2> QED BY <2>1, <2>2, <2>3
<1>6. TypeOK'
  BY <1>1, <1>2, <1>3, <1>5 DEF TypeOK, program
<1>7. BarrierInv'
  BY <1>1, <1>4 DEF BarrierInv, program, AllDone
<1>8. ClockInv'
  BY <1>1, <1>2, <1>5, ApdexAssumption DEF ClockInv, program, TypeOK, Times, NotYet
<1>9. SpanInv'
  BY <1>1, <1>5, WorkerKinds DEF SpanInv, BarrierInv, program, Colour
<1> QED BY <1>6, <1>7, <1>8, <1>9

LEMMA StepInv == IInv /\ [Next]_vars => IInv'
  BY MainStep, BeginStep, CreateStep, WatchStep, BoundSeenStep, ClusterStep DEF Next, Worker

-----------------------------------------------------------------------------

(* The inductive invariant holds in every behaviour. *)
THEOREM Invariant == Spec => []IInv
  BY InitInv, StepInv, PTL DEF Spec

(* The types of Apdex hold for every number of volumes, every limit and    *)
(* every number of failures.                                               *)
THEOREM TypeCorrect == Spec => []TypeOK
<1>1. IInv => TypeOK
  BY DEF IInv
<1> QED BY <1>1, Invariant, PTL

(* No pod is created before all claims are bound. *)
THEOREM ClaimsFirst == Spec => []PodsAfterClaims
<1>1. IInv => PodsAfterClaims
  <2> SUFFICES ASSUME IInv, NEW j \in Ids, at[POD(j)] # "idle", NEW i \in 0 .. count - 1
               PROVE  object[PVC(i)] = "ready"
    BY DEF PodsAfterClaims, PVC, POD
  <2>1. i \in Ids /\ at[PVC(i)] = "done"
    BY ApdexAssumption DEF IInv, BarrierInv, AllDone, PVC, Ids, TypeOK
  <2> QED BY <2>1, WorkerKinds DEF IInv, BarrierInv
<1> QED BY <1>1, Invariant, PTL

(* The bar of a claim that took longer than a limit to be bound shows it.  *)
THEOREM SlowClaimsSeen == Spec => []SlowClaimsShown
<1>1. IInv => SlowClaimsShown
  <2> SUFFICES ASSUME IInv, phase = "done", Tolerated # 0 \/ Failure # 0,
                      NEW i \in 0 .. count - 1, created[i] # NotYet
               PROVE  /\ bound[i] - created[i] > Failure => colour[PVC(i)] = "red"
                      /\ bound[i] - created[i] > Tolerated => colour[PVC(i)] # "green"
    BY DEF SlowClaimsShown, PVC
  <2>1. i \in Ids /\ at[PVC(i)] = "done" /\ i < count
    BY ApdexAssumption DEF IInv, BarrierInv, AllDone, PVC, Ids, TypeOK
  <2>2. /\ bound[i] \in Int /\ created[i] \in Int /\ times[PVC(i)] \in Int
        /\ {Tolerated, Failure} \subseteq Int
    BY <2>1, ApdexAssumption, WorkerKinds DEF IInv, TypeOK, Times, NotYet
  <2>3. bound[i] - created[i] <= times[PVC(i)] /\ colour[PVC(i)] = Colour(times[PVC(i)])
    BY <2>1 DEF IInv, SpanInv
  <2> QED BY <2>2, <2>3 DEF Colour
<1> QED BY <1>1, Invariant, PTL

=============================================================================
