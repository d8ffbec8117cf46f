------------------------- MODULE FlexVolume_proofs -------------------------
(***************************************************************************)
(* Theorems on FlexVolume: its type invariant, and that running pods see   *)
(* the share. The strengthening says what programs under way may still do: *)
(* one that unmounts is of a deleted pod, and one that has reported a      *)
(* successful mount has mounted, as long as its pod is not deleted.        *)
(***************************************************************************)
EXTENDS FlexVolume, TLAPS

Live(p) == p \notin Malformed /\ pod[p] # "deleted"

UnmountsDeleted ==
  \A g \in Programs :
    program[g] # None /\ program[g].op = "unmount" => pod[program[g].pod] = "deleted"

SuccessMeansMounted ==
  \A g \in Programs :
    program[g] # None /\ program[g].op = "mount" /\ program[g].status = "Success"
      /\ Live(program[g].pod) => program[g].pod \in mounted

IInv == TypeOK /\ UnmountsDeleted /\ SuccessMeansMounted /\ RunningPodsSeeShare

-----------------------------------------------------------------------------

LEMMA InitInv == Init => IInv
  BY FlexAssumption
  DEF Init, IInv, TypeOK, UnmountsDeleted, SuccessMeansMounted, RunningPodsSeeShare

(* A process that runs was run for a pod. *)
LEMMA RunTypes ==
  ASSUME TypeOK, NEW g \in Programs, program[g] # None
  PROVE  /\ program[g] \in Runs
         /\ program[g].pod \in Pods
         /\ program[g].op \in {"mount", "unmount"}
         /\ program[g].status \in {"running", "Success", "Failure"}
  BY DEF TypeOK, Runs

(* The kubelet's record. *)
LEMMA ViewTypes ==
  ASSUME TypeOK, NEW p \in Pods, NEW v \in {"no", "yes", "maybe"}, SetView(p, v)
  PROVE  /\ view' \in [Pods -> {"no", "yes", "maybe"}]
         /\ pod' \in [Pods -> {"new", "wanted", "running", "deleted"}]
         /\ \A q \in Pods : pod'[q] = "deleted" <=> pod[q] = "deleted"
         /\ \A q \in Pods : pod'[q] = "running" =>
              pod[q] = "running" \/ (q = p /\ v = "yes" /\ pod[q] = "wanted")
<1>1. view' \in [Pods -> {"no", "yes", "maybe"}]
  BY DEF SetView, TypeOK
<1>2. pod \in [Pods -> {"new", "wanted", "running", "deleted"}]
  BY DEF TypeOK
<1>3. pod' = pod \/ (v = "yes" /\ pod[p] = "wanted" /\ pod' = [pod EXCEPT ![p] = "running"])
  BY DEF SetView
<1> QED BY <1>1, <1>2, <1>3

(* What a started process is, and what it leaves alone. *)
LEMMA StartStep ==
  ASSUME TypeOK, NEW p \in Pods, NEW op \in {"mount", "unmount"}, Start(p, op)
  PROVE  \E g \in Programs :
           /\ program[g] = None
           /\ program' \in [Programs -> Runs \union {None}]
           /\ program'[g] = [op |-> op, pod |-> p, status |-> "running"]
           /\ program'[g] # None
           /\ \A k \in Programs \ {g} : program'[k] = program[k]
           /\ waits' \in [Pods -> Programs \union {None}]
           /\ waits'[p] = g
           /\ \A q \in Pods \ {p} : waits'[q] = waits[q]
<1>1. PICK g \in Programs :
        /\ program[g] = None
        /\ program' = [program EXCEPT ![g] = [op |-> op, pod |-> p, status |-> "running"]]
        /\ waits' = [waits EXCEPT ![p] = g]
  BY DEF Start
<1>2. [op |-> op, pod |-> p, status |-> "running"] \in Runs
  BY DEF Runs
<1>3. program \in [Programs -> Runs \union {None}] /\ waits \in [Pods -> Programs \union {None}]
  BY DEF TypeOK
<1> QED BY <1>1, <1>2, <1>3, FlexAssumption

(* Output changes a program's status and nothing else. *)
LEMMA ReportStep ==
  ASSUME TypeOK, NEW g \in Programs, program[g] # None,
         NEW status \in {"Success", "Failure"}, Report(g, status)
  PROVE  /\ program' \in [Programs -> Runs \union {None}]
         /\ program'[g] # None /\ program'[g].pod = program[g].pod
         /\ program'[g].op = program[g].op /\ program'[g].status = status
         /\ \A k \in Programs \ {g} : program'[k] = program[k]
<1>1. program[g] \in Runs /\ program \in [Programs -> Runs \union {None}]
  BY RunTypes DEF TypeOK
<1>2. program' = [program EXCEPT ![g] = [program[g] EXCEPT !.status = status]]
  BY DEF Report
<1>3. [program[g] EXCEPT !.status = status] \in Runs
  BY <1>1 DEF Runs
<1>4. /\ [program[g] EXCEPT !.status = status].pod = program[g].pod
      /\ [program[g] EXCEPT !.status = status].op = program[g].op
      /\ [program[g] EXCEPT !.status = status].status = status
  BY <1>1 DEF Runs
<1> QED BY <1>1, <1>2, <1>3, <1>4, FlexAssumption

-----------------------------------------------------------------------------
(* Steps of the programs. *)

LEMMA DriverStep ==
  ASSUME IInv, NEW g \in Programs, RunMount(g) \/ Unmounted(g) \/ UnmountFails(g)
  PROVE  IInv'
<1> DEFINE p == program[g].pod
<1> USE DEF IInv
<1>0. program[g] # None /\ UNCHANGED <<volumes, dir, kubelet, server, faults>>
  BY DEF RunMount, Unmounted, UnmountFails, Running, node
<1>1. p \in Pods /\ \E status \in {"Success", "Failure"} : Report(g, status)
  BY <1>0, RunTypes DEF RunMount, Unmounted, UnmountFails
<1>2. PICK status \in {"Success", "Failure"} :
        /\ program' \in [Programs -> Runs \union {None}]
        /\ program'[g] # None /\ program'[g].pod = program[g].pod
        /\ program'[g].op = program[g].op /\ program'[g].status = status
        /\ \A k \in Programs \ {g} : program'[k] = program[k]
  BY <1>0, <1>1, ReportStep
<1>3. mounted' \subseteq dir /\ mounted \ {p} \subseteq mounted'
  BY <1>0 DEF TypeOK, RunMount, Unmounted, UnmountFails, MountCommand, UmountCommand, Mountable, node
<1>4. p \in mounted => p \in mounted' \/ pod[p] = "deleted"
  BY <1>0 DEF RunMount, Unmounted, UnmountFails, MountCommand, Running, UnmountsDeleted, node
<1>5. program'[g].op = "mount" /\ program'[g].status = "Success" /\ p \notin Malformed
        => p \in mounted'
  <2>1. CASE RunMount(g)
    <3>1. Report(g, "Failure") => program'[g].status = "Failure"
      BY <1>0, ReportStep
    <3> QED BY <2>1, <3>1 DEF RunMount, MountCommand, Decodes
  <2>2. CASE Unmounted(g) \/ UnmountFails(g)
    BY <2>2, <1>2 DEF Unmounted, UnmountFails, Running
  <2> QED BY <2>1, <2>2
<1>6. TypeOK'
  BY <1>0, <1>2, <1>3 DEF TypeOK, volumes, kubelet
<1>7. UnmountsDeleted'
  BY <1>0, <1>2 DEF UnmountsDeleted, kubelet
<1>8. SuccessMeansMounted'
  <2>1. ASSUME NEW k \in Programs, program'[k] # None, program'[k].op = "mount",
               program'[k].status = "Success", program'[k].pod \notin Malformed,
               pod'[program'[k].pod] # "deleted"
        PROVE  program'[k].pod \in mounted'
    <3>1. CASE k = g
      BY <2>1, <3>1, <1>2, <1>5
    <3>2. CASE k # g
      BY <2>1, <3>2, <1>0, <1>2, <1>3, <1>4 DEF SuccessMeansMounted, Live, kubelet
    <3> QED BY <3>1, <3>2
  <2> QED BY <2>1 DEF SuccessMeansMounted, Live
<1>9. RunningPodsSeeShare'
  BY <1>0, <1>3, <1>4 DEF RunningPodsSeeShare, kubelet
<1> QED BY <1>6, <1>7, <1>8, <1>9

LEMMA ExitStep == ASSUME IInv, NEW g \in Programs, Exit(g) PROVE IInv'
<1> DEFINE p == program[g].pod
<1> USE DEF IInv
<1>0. /\ program[g] # None /\ p \in Pods
      /\ program[g].op \in {"mount", "unmount"}
      /\ UNCHANGED <<volumes, mounted, server, faults>>
  BY RunTypes DEF Exit
<1>1. /\ program' \in [Programs -> Runs \union {None}] /\ program'[g] = None
      /\ \A k \in Programs \ {g} : program'[k] = program[k]
  BY DEF Exit, TypeOK
<1>2. /\ waits' \in [Pods -> Programs \union {None}]
      /\ \A q \in Pods : waits'[q] # None => waits'[q] = waits[q] /\ waits[q] # g
  BY DEF Exit, TypeOK
<1>3. \/ UNCHANGED <<view, pod>>
      \/ SetView(p, "no")
      \/ SetView(p, "yes") /\ program[g].op = "mount" /\ program[g].status = "Success"
  BY DEF Exit
<1>4. dir' \subseteq Pods /\ mounted \subseteq dir'
  BY DEF Exit, TypeOK
<1>5. /\ view' \in [Pods -> {"no", "yes", "maybe"}]
      /\ pod' \in [Pods -> {"new", "wanted", "running", "deleted"}]
      /\ \A q \in Pods : pod'[q] = "deleted" <=> pod[q] = "deleted"
      /\ \A q \in Pods : pod'[q] = "running" =>
           \/ pod[q] = "running"
           \/ /\ q = p /\ pod[q] = "wanted"
              /\ program[g].op = "mount" /\ program[g].status = "Success"
  <2>1. CASE UNCHANGED <<view, pod>>
    BY <2>1 DEF TypeOK
  <2>2. CASE SetView(p, "no")
    BY <2>2, <1>0, ViewTypes
  <2>3. CASE SetView(p, "yes") /\ program[g].op = "mount" /\ program[g].status = "Success"
    BY <2>3, <1>0, ViewTypes
  <2> QED BY <1>3, <2>1, <2>2, <2>3
<1>6. TypeOK'
  <2>1. \A q \in Pods : waits'[q] # None =>
          program'[waits'[q]] # None /\ program'[waits'[q]].pod = q
    BY <1>1, <1>2 DEF TypeOK
  <2> QED BY <1>0, <1>1, <1>2, <1>4, <1>5, <2>1 DEF TypeOK, volumes
<1>7. UnmountsDeleted'
  BY <1>1, <1>5, RunTypes DEF UnmountsDeleted
<1>8. SuccessMeansMounted'
  BY <1>0, <1>1, <1>5, RunTypes DEF SuccessMeansMounted, Live
<1>9. RunningPodsSeeShare'
  BY <1>0, <1>5 DEF RunningPodsSeeShare, SuccessMeansMounted, Live
<1> QED BY <1>6, <1>7, <1>8, <1>9

-----------------------------------------------------------------------------
(* Steps of the kubelet, its restarts included. *)

LEMMA CallStep ==
  ASSUME IInv, NEW p \in Pods, CallMount(p) \/ CallUnmount(p) PROVE IInv'
<1> USE DEF IInv
<1>0. /\ UNCHANGED <<volumes, mounted, server, faults>>
      /\ dir' \subseteq Pods /\ dir \subseteq dir'
  BY DEF CallMount, CallUnmount, TypeOK, node
<1>1. CASE \E v \in {"no", "yes"} :
             /\ SetView(p, v) /\ UNCHANGED <<program, waits>>
             /\ v = "yes" => p \in mounted
  <2>1. /\ view' \in [Pods -> {"no", "yes", "maybe"}]
        /\ pod' \in [Pods -> {"new", "wanted", "running", "deleted"}]
        /\ \A q \in Pods : pod'[q] = "deleted" <=> pod[q] = "deleted"
        /\ \A q \in Pods : pod'[q] = "running" => pod[q] = "running" \/ q \in mounted
    BY <1>1, ViewTypes
  <2>2. TypeOK'
    BY <1>0, <1>1, <2>1 DEF TypeOK, volumes
  <2>3. UnmountsDeleted'
    BY <1>1, <2>1, RunTypes DEF UnmountsDeleted
  <2>4. SuccessMeansMounted'
    BY <1>0, <1>1, <2>1, RunTypes DEF SuccessMeansMounted, Live
  <2>5. RunningPodsSeeShare'
    BY <1>0, <2>1 DEF RunningPodsSeeShare
  <2> QED BY <2>2, <2>3, <2>4, <2>5
<1>2. CASE \E op \in {"mount", "unmount"} :
             /\ Start(p, op) /\ UNCHANGED <<view, pod>>
             /\ op = "unmount" => pod[p] = "deleted"
  <2>1. PICK op \in {"mount", "unmount"} : Start(p, op) /\ (op = "unmount" => pod[p] = "deleted")
    BY <1>2
  <2>2. PICK g \in Programs :
           /\ program[g] = None
           /\ program' \in [Programs -> Runs \union {None}]
           /\ program'[g] = [op |-> op, pod |-> p, status |-> "running"]
           /\ program'[g] # None
           /\ \A k \in Programs \ {g} : program'[k] = program[k]
           /\ waits' \in [Pods -> Programs \union {None}]
           /\ waits'[p] = g
           /\ \A q \in Pods \ {p} : waits'[q] = waits[q]
    BY <2>1, StartStep
  <2>3. \A q \in Pods : waits'[q] # None =>
          program'[waits'[q]] # None /\ program'[waits'[q]].pod = q
    BY <2>2 DEF TypeOK
  <2>4. TypeOK'
    BY <1>0, <1>2, <2>2, <2>3 DEF TypeOK, volumes
  <2>5. UnmountsDeleted'
    BY <1>2, <2>1, <2>2 DEF UnmountsDeleted
  <2>6. SuccessMeansMounted'
    BY <1>0, <1>2, <2>2 DEF SuccessMeansMounted, Live
  <2>7. RunningPodsSeeShare'
    BY <1>0, <1>2 DEF RunningPodsSeeShare
  <2> QED BY <2>4, <2>5, <2>6, <2>7
<1> QED BY <1>1, <1>2 DEF CallMount, CallUnmount

LEMMA PodStep ==
  ASSUME IInv, NEW p \in Pods, PodAdded(p) \/ PodDeleted(p) PROVE IInv'
<1> USE DEF IInv
<1>0. UNCHANGED <<volumes, node, program, waits, view, server, faults>>
  BY DEF PodAdded, PodDeleted
<1>1. /\ pod' \in [Pods -> {"new", "wanted", "running", "deleted"}]
      /\ \A q \in Pods : pod[q] = "deleted" => pod'[q] = "deleted"
      /\ \A q \in Pods : pod'[q] = "running" => pod[q] = "running"
  BY DEF PodAdded, PodDeleted, TypeOK
<1>2. TypeOK'
  BY <1>0, <1>1 DEF TypeOK, volumes, node
<1>3. UnmountsDeleted'
  BY <1>0, <1>1, RunTypes DEF UnmountsDeleted
<1>4. SuccessMeansMounted'
  BY <1>0, <1>1, RunTypes DEF SuccessMeansMounted, Live, node
<1>5. RunningPodsSeeShare'
  BY <1>0, <1>1 DEF RunningPodsSeeShare, node
<1> QED BY <1>2, <1>3, <1>4, <1>5

LEMMA RestartStep == ASSUME IInv, KubeletRestarts PROVE IInv'
<1> USE DEF IInv
<1>0. UNCHANGED <<volumes, node, pod, server>>
  BY DEF KubeletRestarts
<1>1. /\ program' \in [Programs -> Runs \union {None}]
      /\ \A g \in Programs : program'[g] \in {program[g], None}
  BY DEF KubeletRestarts, TypeOK
<1>2. TypeOK'
  <2>1. waits' = [p \in Pods |-> None] /\ view' \in [Pods -> {"no", "yes", "maybe"}]
    BY DEF KubeletRestarts
  <2>2. faults' \in [outages : Nat, restarts : Nat, starts : Nat]
    BY DEF KubeletRestarts, TypeOK
  <2> QED BY <1>0, <1>1, <2>1, <2>2 DEF TypeOK, volumes, node
<1>3. UnmountsDeleted'
  BY <1>0, <1>1 DEF UnmountsDeleted
<1>4. SuccessMeansMounted'
  BY <1>0, <1>1 DEF SuccessMeansMounted, Live, node
<1>5. RunningPodsSeeShare'
  BY <1>0 DEF RunningPodsSeeShare, node
<1> QED BY <1>2, <1>3, <1>4, <1>5

-----------------------------------------------------------------------------
(* The other steps change neither programs nor mounts nor pods. *)

LEMMA OtherStep ==
  ASSUME IInv,
         \/ \E c \in Claims : Provision(c) \/ ClaimDeleted(c) \/ Delete(c)
         \/ ServerFails \/ ServerReturns \/ ProvisionerRestarts
         \/ UNCHANGED vars
  PROVE  IInv'
<1> USE DEF IInv
<1>0. UNCHANGED <<node, program, kubelet>>
  BY DEF Provision, ClaimDeleted, Delete, ServerFails, ServerReturns, ProvisionerRestarts, vars
<1>1. /\ pv' \in [Claims -> {"unbound", "bound", "released", "gone"}]
      /\ annotation' \in [Claims -> Nat \union {None}]
  BY DEF TypeOK, Provision, ClaimDeleted, Delete, ServerFails, ServerReturns,
         ProvisionerRestarts, vars, volumes, Identity
<1>2. server' \in BOOLEAN
  BY DEF TypeOK, Provision, ClaimDeleted, Delete, ServerFails, ServerReturns,
         ProvisionerRestarts, vars
<1>3. faults' \in [outages : Nat, restarts : Nat, starts : Nat]
  BY DEF TypeOK, Provision, ClaimDeleted, Delete, ServerFails, ServerReturns,
         ProvisionerRestarts, vars
<1>4. TypeOK'
  BY <1>0, <1>1, <1>2, <1>3 DEF TypeOK, node, kubelet
<1>5. UnmountsDeleted' /\ SuccessMeansMounted' /\ RunningPodsSeeShare'
  BY <1>0 DEF UnmountsDeleted, SuccessMeansMounted, RunningPodsSeeShare, Live, node, kubelet
<1> QED BY <1>4, <1>5

LEMMA StepInv == IInv /\ [Next]_vars => IInv'
  BY DriverStep, ExitStep, CallStep, PodStep, RestartStep, OtherStep DEF Next, Driver

-----------------------------------------------------------------------------

(* The inductive invariant holds in every behaviour. *)
THEOREM Invariant == Spec => []IInv
  BY InitInv, StepInv, PTL DEF Spec

(* The types of FlexVolume hold for every set of claims, pods and          *)
(* processes and every number of faults.                                   *)
THEOREM TypeCorrect == Spec => []TypeOK
<1>1. IInv => TypeOK
  BY DEF IInv
<1> QED BY <1>1, Invariant, PTL

(* A running pod whose arguments decode has the share on its directory,    *)
(* whatever programs of how many kubelets work on it, and across outages.  *)
THEOREM PodsSeeTheShare == Spec => []RunningPodsSeeShare
<1>1. IInv => RunningPodsSeeShare
  BY DEF IInv
<1> QED BY <1>1, Invariant, PTL

=============================================================================
