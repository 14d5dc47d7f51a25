----------------------------- MODULE NodeEnsure -----------------------------
(***************************************************************************)
(* Ensure of the node types pod, srl, srsim and vm, for a Lab that users   *)
(* delete and create again.  A node is a workload (Pod or                  *)
(* VirtualMachineInstance) and what it is mounted on: volume claims or a   *)
(* data volume, which have no owner and outlive the Lab, a ConfigMap, and  *)
(* NetworkAttachmentDefinitions with the addresses of a Pod.               *)
(*                                                                         *)
(* Reads come from informer caches.  ConfigMaps and claims are not watched *)
(* by the controller, data volumes have no owner to queue.  The LANs and   *)
(* the finalizers of the Lab are LabController's.                          *)
(***************************************************************************)
EXTENDS NodeNetwork

CONSTANTS
  Histories,   \* the specs of the Labs that users create one after the other
  MaxUid,      \* bound: creations of the Lab
  MaxLag,      \* bound: events of one object under way when it is deleted
  MaxFault     \* bound: workloads that end (guest shut down, eviction), calls
               \* that fail and restarts of the operator, together

ASSUME NodeAssumption ==
  /\ MaxUid \in Nat /\ MaxLag \in Nat /\ MaxFault \in Nat
  /\ \A h \in Histories :
       /\ DOMAIN h = 1..MaxUid
       /\ \A u \in 1..MaxUid :
            /\ h[u].links \in Seq(Seq([node : STRING, port : Nat, mac : Nat, addr : Nat]))
            /\ \A n \in DOMAIN h[u].kind : h[u].kind[n] \in {"pod", "srl", "srsim", "vm"}

VARIABLES
  specOf,            \* the specs, by the UID of the Lab
  lab, labC, labQ,   \* UID of the Lab (0: none): stored, cached, events
  made,              \* the last UID
  obj, objC, objQ,   \* the other objects: stored, cached, events
  queued,            \* the Lab is on the workqueue
  pc,                \* what the reconcile does next, or "idle"
  cur, nodes,        \* UID of the Lab reconciled, nodes not yet visited
  todo,              \* objects of the node still to be ensured
  faults             \* so far

labVars    == <<specOf, lab, labC, labQ, made>>
objVars    == <<obj, objC, objQ>>
workerVars == <<pc, cur, nodes, todo>>
vars == <<labVars, objVars, queued, workerVars, faults>>

-----------------------------------------------------------------------------
(* What Ensure creates for a node: first what is mounted, then the         *)
(* workload.                                                               *)

\* The claim of /root and the NADs with addresses.
PodMounts(spec, n) ==
  {<<n, "root", "", 0>>} \cup {AddrNad(spec, n, s) : s \in {r \in Spokes(spec, n) : HasAddrs(spec, r)}}

\* The topology and the claim of /etc.
SrlMounts(n) == {<<n, "topo", "", 0>>, <<n, "etc", "", 0>>}

\* Three flash cards per CPM.
SrsimMounts(n) == {<<n, "cf", c, i>> : c \in CPMSlots, i \in 1..3}

\* The data volume.
VmMounts(n) == {<<n, "dv", "", 0>>}

Mounts(spec, n) ==
  CASE spec.kind[n] = "pod"   -> PodMounts(spec, n)
    [] spec.kind[n] = "srl"   -> SrlMounts(n)
    [] spec.kind[n] = "srsim" -> SrsimMounts(n)
    [] spec.kind[n] = "vm"    -> VmMounts(n)

Workload(spec, n) == IF spec.kind[n] = "vm" THEN <<n, "vmi", "", 0>> ELSE <<n, "pod", "", 0>>

Ensured(spec, n) == Mounts(spec, n) \cup {Workload(spec, n)}

\* The order of the calls: the claim of /root before the NADs, the topology
\* before the claim of /etc, the workload last.
Stage(x) == CASE x[2] \in {"root", "topo", "cf", "dv"} -> 1
              [] x[2] \in {"nad", "etc"}               -> 2
              [] x[2] \in {"pod", "vmi"}               -> 3

Nodes(u)         == DOMAIN specOf[u].kind
ObjectsOf(h)     == UNION {UNION {Ensured(h[u], n) : n \in DOMAIN h[u].kind} :
                             u \in DOMAIN h}
Objects          == DOMAIN obj

IsWorkload(x) == x[2] \in {"pod", "vmi"}

\* Mutant: the topology is created without an owner.
Owned_NotTopo(x) == IsWorkload(x) \/ x[2] = "nad"

\* needOwner.  Of the kinds that have one, ConfigMaps are not watched.
Owned(x) == IsWorkload(x) \/ x[2] \in {"nad", "topo"}
Queues(x) == IsWorkload(x) \/ x[2] = "nad"

\* by: the UID of the Lab the object was made for, its owner if Owned.
Obj   == [ph : {"gone", "up", "Failed"}, dying : BOOLEAN, by : 0..MaxUid]
NoObj == [ph |-> "gone", dying |-> FALSE, by |-> 0]

Put(x, o) == /\ obj' = [obj EXCEPT ![x] = o]
             /\ objQ' = [objQ EXCEPT ![x] = Append(@, o)]
             /\ UNCHANGED objC

New(x) == Put(x, [ph |-> "up", dying |-> FALSE, by |-> cur])

-----------------------------------------------------------------------------
(* The worker *)

\* An error of Ensure ends the reconcile and is only logged.
Return == pc' = "idle" /\ cur' = 0 /\ nodes' = {} /\ todo' = {}

Reconcile ==
  /\ pc = "idle" /\ queued
  /\ queued' = FALSE
  /\ IF labC = 0 THEN UNCHANGED workerVars
     ELSE pc' = "node" /\ cur' = labC /\ nodes' = Nodes(labC) /\ UNCHANGED todo
  /\ UNCHANGED <<labVars, objVars, faults>>

\* Ensure of the next node, in map order.
EnsureNode(n) ==
  /\ pc = "node" /\ n \in nodes
  /\ pc' = "ensure" /\ nodes' = nodes \ {n}
  /\ todo' = Ensured(specOf[cur], n)
  /\ UNCHANGED <<cur, labVars, objVars, queued, faults>>

EndReconcile ==
  /\ pc = "node" /\ nodes = {}
  /\ Return
  /\ UNCHANGED <<labVars, objVars, queued, faults>>

\* Mutant: the worker stays at a node that it is done with.
Done_Stays(x) == todo' = todo \ {x} /\ pc' = "ensure" /\ UNCHANGED <<cur, nodes>>

Done(x) ==
  /\ todo' = todo \ {x} /\ pc' = (IF todo = {x} THEN "node" ELSE "ensure")
  /\ UNCHANGED <<cur, nodes>>

\* x is an object of the call in turn.  Spokes and cards come in map order;
\* the flash cards of one CPM in order, and no other CPM's between them.
InTurn(x) ==
  /\ pc = "ensure" /\ x \in todo
  /\ \A y \in todo :
       /\ Stage(x) <= Stage(y)
       /\ x[2] = "cf" /\ y[2] = "cf" =>
            IF y[3] = x[3] THEN x[4] <= y[4]
            ELSE {<<y[1], "cf", y[3], i>> : i \in 1..3} \subseteq todo

\* SetControllerReference refuses an owner in another namespace; the NADs go
\* to the operator's.
OwnerRefused(x) == x[2] = "nad" /\ ~specOf[cur].home

\* Mutant: an object of any Lab of the name will do.
IsOwnedbyLab_ByName(x) == objC[x].by # 0

IsOwnedbyLab(x) == objC[x].by = cur

\* createIfNotExistsOrRemove.  Create fails if the object exists and the cache
\* did not know.
EnsureObj(x) ==
  /\ InTurn(x) /\ x[2] # "vmi"
  /\ \/ OwnerRefused(x) /\ Return /\ UNCHANGED objVars
     \/ /\ ~OwnerRefused(x) /\ objC[x].ph # "gone"
        /\ Owned(x) => IsOwnedbyLab(x)
        /\ Done(x) /\ UNCHANGED objVars
     \/ /\ ~OwnerRefused(x) /\ objC[x].ph # "gone"
        /\ Owned(x) /\ ~IsOwnedbyLab(x)
        /\ Return /\ UNCHANGED objVars
     \/ /\ ~OwnerRefused(x) /\ objC[x].ph = "gone" /\ obj[x].ph = "gone"
        /\ New(x) /\ Done(x)
     \/ /\ ~OwnerRefused(x) /\ objC[x].ph = "gone" /\ obj[x].ph # "gone"
        /\ Return /\ UNCHANGED objVars
  /\ UNCHANGED <<labVars, queued, faults>>

\* GeneralVM.Ensure with the data volume in place: getVMI panics; the panic is
\* recovered, and the Lab queued again.
BuildPanics(x) ==
  /\ InTurn(x) /\ x[2] = "vmi" /\ IgnitionPanics(specOf[cur], x[1])
  /\ Return /\ queued' = TRUE
  /\ UNCHANGED <<labVars, objVars, faults>>

\* Mutant: a VMI that exists will do, in whatever phase.
EnsureVmi_AnyPhase(x) ==
  /\ InTurn(x) /\ x[2] = "vmi" /\ ~IgnitionPanics(specOf[cur], x[1])
  /\ \/ objC[x].ph = "gone" /\ obj[x].ph = "gone" /\ New(x) /\ Done(x)
     \/ objC[x].ph = "gone" /\ obj[x].ph # "gone" /\ Return /\ UNCHANGED objVars
     \/ objC[x].ph # "gone" /\ ~IsOwnedbyLab(x) /\ Return /\ UNCHANGED objVars
     \/ objC[x].ph # "gone" /\ IsOwnedbyLab(x) /\ Done(x) /\ UNCHANGED objVars
  /\ UNCHANGED <<labVars, queued, faults>>

\* createIfNotExistsOrFailedOrRemove of a VMI, up to the Delete, by name, of
\* one that the cache says has failed.
EnsureVmi(x) ==
  /\ InTurn(x) /\ x[2] = "vmi" /\ ~IgnitionPanics(specOf[cur], x[1])
  /\ \/ objC[x].ph = "gone" /\ obj[x].ph = "gone" /\ New(x) /\ Done(x)
     \/ objC[x].ph = "gone" /\ obj[x].ph # "gone" /\ Return /\ UNCHANGED objVars
     \/ objC[x].ph # "gone" /\ ~IsOwnedbyLab(x) /\ Return /\ UNCHANGED objVars
     \/ objC[x].ph = "up" /\ IsOwnedbyLab(x) /\ Done(x) /\ UNCHANGED objVars
     \/ /\ objC[x].ph = "Failed" /\ IsOwnedbyLab(x) /\ obj[x].ph # "gone"
        /\ IF obj[x].dying THEN UNCHANGED objVars
                           ELSE Put(x, [obj[x] EXCEPT !.dying = TRUE])
        /\ pc' = "recreate" /\ UNCHANGED <<cur, nodes, todo>>
     \/ /\ objC[x].ph = "Failed" /\ IsOwnedbyLab(x) /\ obj[x].ph = "gone"
        /\ Return /\ UNCHANGED objVars
  /\ UNCHANGED <<labVars, queued, faults>>

\* Mutant: the object is created afresh, without a resourceVersion.
Recreate_Fresh ==
  /\ pc = "recreate"
  /\ \E x \in todo :
       IF obj[x].ph = "gone" THEN New(x) /\ Done(x) ELSE Return /\ UNCHANGED objVars
  /\ UNCHANGED <<labVars, queued, faults>>

\* The Create after that Delete is refused: the object carries the
\* resourceVersion that Get put in.
Recreate ==
  /\ pc = "recreate"
  /\ Return
  /\ UNCHANGED <<labVars, objVars, queued, faults>>

ApiError ==
  /\ pc = "ensure" /\ faults < MaxFault
  /\ faults' = faults + 1
  /\ Return
  /\ UNCHANGED <<labVars, objVars, queued>>

-----------------------------------------------------------------------------
(* Informers *)

DeliverLab ==
  /\ labQ # <<>>
  /\ labC' = Head(labQ) /\ labQ' = Tail(labQ) /\ queued' = TRUE
  /\ UNCHANGED <<specOf, lab, made, objVars, workerVars, faults>>

\* An event queues the Lab that the object's owner reference names, if the
\* controller watches the kind.
Deliver(x) ==
  /\ objQ[x] # <<>>
  /\ objC' = [objC EXCEPT ![x] = Head(objQ[x])]
  /\ objQ' = [objQ EXCEPT ![x] = Tail(@)]
  /\ queued' = (queued \/ Queues(x))
  /\ UNCHANGED <<labVars, obj, workerVars, faults>>

\* The periodic resync of the Lab informer.  (One in the middle of a reconcile
\* comes to the same as one after it.)
Resync ==
  /\ pc = "idle" /\ ~queued /\ queued' = TRUE
  /\ UNCHANGED <<labVars, objVars, workerVars, faults>>

-----------------------------------------------------------------------------
(* The environment *)

UserCreatesLab ==
  /\ lab = 0 /\ made < MaxUid
  /\ made' = made + 1 /\ lab' = made + 1 /\ labQ' = Append(labQ, made + 1)
  /\ UNCHANGED <<specOf, labC, objVars, queued, workerVars, faults>>

UserDeletesLab ==
  /\ lab # 0
  /\ lab' = 0 /\ labQ' = Append(labQ, 0)
  /\ UNCHANGED <<specOf, labC, made, objVars, queued, workerVars, faults>>

\* The garbage collector deletes what has an owner that is no more; a workload
\* takes its time (PreStop hook, guest shut down).
Collect(x) ==
  /\ Owned(x) /\ obj[x].ph # "gone" /\ ~obj[x].dying /\ obj[x].by # lab
  /\ Len(objQ[x]) < MaxLag
  /\ Put(x, IF IsWorkload(x) THEN [obj[x] EXCEPT !.dying = TRUE] ELSE NoObj)
  /\ UNCHANGED <<labVars, queued, workerVars, faults>>

WorkloadGone(x) ==
  /\ obj[x].dying /\ Len(objQ[x]) < MaxLag
  /\ Put(x, NoObj)
  /\ UNCHANGED <<labVars, queued, workerVars, faults>>

\* A VMI ends, or a Pod is evicted through the API.
WorkloadEnds(x) ==
  /\ IsWorkload(x) /\ obj[x].ph = "up" /\ ~obj[x].dying /\ faults < MaxFault
  /\ faults' = faults + 1
  /\ Put(x, IF x[2] = "vmi" THEN [obj[x] EXCEPT !.ph = "Failed"]
                            ELSE [obj[x] EXCEPT !.dying = TRUE])
  /\ UNCHANGED <<labVars, queued, workerVars>>

Crash ==
  /\ faults < MaxFault
  /\ faults' = faults + 1
  /\ labC' = lab /\ labQ' = <<>>
  /\ objC' = obj /\ objQ' = [x \in Objects |-> <<>>]
  /\ queued' = TRUE
  /\ Return
  /\ UNCHANGED <<specOf, lab, made, obj>>

-----------------------------------------------------------------------------
Init ==
  /\ specOf \in Histories
  /\ lab = 0 /\ labC = 0 /\ labQ = <<>> /\ made = 0
  /\ obj = [x \in ObjectsOf(specOf) |-> NoObj]
  /\ objC = obj /\ objQ = [x \in Objects |-> <<>>]
  /\ queued = FALSE
  /\ pc = "idle" /\ cur = 0 /\ nodes = {} /\ todo = {}
  /\ faults = 0

Worker ==
  \/ Reconcile \/ EndReconcile \/ (\E n \in nodes : EnsureNode(n))
  \/ (\E x \in Objects : EnsureObj(x) \/ EnsureVmi(x) \/ BuildPanics(x)) \/ Recreate

Next ==
  \/ Worker \/ ApiError
  \/ DeliverLab \/ (\E x \in Objects : Deliver(x)) \/ Resync
  \/ UserCreatesLab \/ UserDeletesLab
  \/ (\E x \in Objects : Collect(x) \/ WorkloadGone(x) \/ WorkloadEnds(x))
  \/ Crash

Spec == Init /\ [][Next]_vars

\* The worker goes on, events arrive, what is to be deleted is, and the Lab
\* informer resyncs (every ten hours).
Fairness ==
  /\ WF_vars(Worker) /\ WF_vars(DeliverLab) /\ WF_vars(Resync)
  /\ WF_vars(\E x \in Objects : Deliver(x))
  /\ WF_vars(\E x \in Objects : Collect(x) \/ WorkloadGone(x))

FairSpec == Spec /\ Fairness

-----------------------------------------------------------------------------
(* Properties *)

\* Type correctness; the worker always has an object to ensure.
TypeOK ==
  /\ {lab, labC, cur, made} \subseteq 0..MaxUid /\ labQ \in Seq(0..MaxUid)
  /\ obj \in [ObjectsOf(specOf) -> Obj] /\ objC \in [Objects -> Obj] /\ objQ \in [Objects -> Seq(Obj)]
  /\ queued \in BOOLEAN /\ pc \in {"idle", "node", "ensure", "recreate"}
  /\ pc # "idle" => cur # 0 /\ nodes \subseteq Nodes(cur)
  /\ pc \in {"ensure", "recreate"} => todo # {}

\* A workload of the Lab finds all that its spec refers to (the LANs' NADs are
\* k8slan's), and the ConfigMap and the NADs are this Lab's, not those of a
\* former one, which the garbage collector is about to take away under it.
Mountable ==
  \A n \in (IF lab = 0 THEN {} ELSE Nodes(lab)) :
    LET w == obj[Workload(specOf[lab], n)] IN
    w.ph # "gone" /\ w.by = lab =>
      \A x \in {r \in References(specOf[lab], n) : r[2] # "lan"} :
        obj[x].ph = "up" /\ (Owned(x) => obj[x].by = lab)

\* A workload is wired as its Lab says.  The interfaces of an SR Linux or an
\* SR-SIM have different names when these are left to the operator; every
\* address of a VM's connectors is configured, on the one interface that is on
\* the connector's spoke, when the VM is on no link twice.
WiredAsSpecified ==
  \A u \in 1..MaxUid : \A n \in Nodes(u) :
    LET spec == specOf[u]  sp == Spokes(spec, n)  w == obj[Workload(spec, n)] IN
    w.ph # "gone" /\ w.by = u =>
      /\ spec.kind[n] \in {"srl", "srsim"} /\ (\A s \in sp : Connector(spec, s).port = 0) =>
           LET nets == IF spec.kind[n] = "srl" THEN SrlNets(spec, n) ELSE SrsimNets(spec, n)
           IN Cardinality({a.port : a \in nets}) = Cardinality(sp)
      /\ spec.kind[n] = "vm" /\ (\A r, s \in sp : r[1] = s[1] => r = s) =>
           LET vm == getVMI(spec, n) IN
           \A s \in sp : HasAddrs(spec, s) =>
             \E nic \in vm.network : /\ nic.addr = Connector(spec, s).addr
                                     /\ {i.spoke : i \in {f \in vm.interfaces : f.mac = nic.mac}} = {s}

\* The operator can build the Lab: no VM of it panics, and no Pod with
\* addresses is in another namespace than the operator.
Buildable(u) ==
  \A n \in Nodes(u) :
    /\ specOf[u].kind[n] = "vm" => ~IgnitionPanics(specOf[u], n)
    /\ specOf[u].kind[n] = "pod" /\ ~specOf[u].home =>
         \A s \in Spokes(specOf[u], n) : ~HasAddrs(specOf[u], s)

AllUp(u) ==
  \A n \in Nodes(u) : obj[Workload(specOf[u], n)] = [ph |-> "up", dying |-> FALSE, by |-> u]

\* The nodes of a Lab that stays come up and, once workloads stop ending, stay
\* up, although errors of Ensure are dropped, ConfigMaps are not watched, data
\* volumes and claims queue nothing, and the remains of a former Lab are in
\* the way.
NodesComeUp ==
  \A u \in 1..MaxUid : <>[](lab = u /\ Buildable(u)) => <>[]AllUp(u)

\* When the Lab is gone for good, so is in the end all it owned, also what a
\* reconcile at work on an old copy creates later.  (Claims and data volumes
\* stay: Ensure creates them without owner.)
NothingLeft ==
  <>[](lab = 0) =>
    <>[](\A x \in Objects : x[2] \in {"topo", "nad", "pod", "vmi"} => obj[x].ph = "gone")

-----------------------------------------------------------------------------
(* The VMIs implement VmiLife. *)

VMs == {<<n, "vmi", "", 0>> : n \in UNION {UNION {DOMAIN h[u].kind : u \in 1..MaxUid} : h \in Histories}}

VmiState(o) ==
  CASE o.ph = "gone"                -> "off"
    [] o.ph # "gone" /\ o.dying     -> "ending"
    [] o.ph = "Failed" /\ ~o.dying  -> "ended"
    [] o.ph = "up" /\ ~o.dying      -> "on"

Life == INSTANCE VmiLife WITH
  st   <- [x \in VMs |-> IF x \in Objects THEN VmiState(obj[x]) ELSE "off"],
  kept <- {x \in VMs \cap Objects : obj[x].by = lab}

\* A VMI is deleted only when it has ended or its Lab is gone, although the
\* operator decides by a cached VMI and deletes by name.
LifeOfVmis == Life!Spec

=============================================================================
