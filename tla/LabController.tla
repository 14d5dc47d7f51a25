---------------------------- MODULE LabController ----------------------------
(***************************************************************************)
(* The Lab controller of the KNL operator: LabReconciler.Reconcile and     *)
(* what it calls (EnsureLinks, GetAvailableVNIs,                           *)
(* createIfNotExistsOrRemove, deleteExternalResources), run by the one     *)
(* worker of controller-runtime against a Kubernetes API server.           *)
(*                                                                         *)
(* Reads (Get, List) are answered by the informer cache: a cache is the    *)
(* API server's past, and catches up one watch event at a time.  Writes    *)
(* go to the API server, which refuses one whose resourceVersion is old.   *)
(* Between any two calls of a reconcile the user, the garbage collector,   *)
(* the informers and a crash of the operator may act.                      *)
(***************************************************************************)
EXTENDS Naturals, Sequences, KubeObject

CONSTANTS
  Labs,         \* Lab names: sequences of parts, "a-b" being <<"a", "b">>
  Links,        \* link names, likewise
  LinkList,     \* LinkList[l]: the links of Lab l, in GetSortedKeySlice order
  Nodes,        \* node names; every node has a connector on every link
  MaxVNI,       \* maxVNI, 16777215 in the code
  MaxUid,       \* bound: how often a Lab of one name is created
  MaxFail,      \* bound: API calls that fail for no reason of the operator's
  MaxCrash,     \* bound: restarts of the operator
  MaxEvict      \* bound: workloads lost (deleted by a user, evicted)

ASSUME ConstantsAssumption ==
  /\ Labs # {}
  /\ LinkList \in [Labs -> Seq(Links)]
  /\ \A l \in Labs : \A i, j \in 1..Len(LinkList[l]) :
       LinkList[l][i] = LinkList[l][j] => i = j
  /\ MaxVNI \in Nat
  /\ MaxUid \in Nat /\ MaxFail \in Nat /\ MaxCrash \in Nat /\ MaxEvict \in Nat

VARIABLES
  lab, labC, labQ,   \* Lab objects: stored, cached, watch events under way
  lan, lanC, lanQ,   \* LAN objects (k8slan), likewise
  wl,  wlC,  wlQ,    \* the Pod or VMI of a node, likewise
  vxdev,             \* GCONF has a VXLANDefaultDev
  queue,             \* the workqueue: names of Labs to reconcile
  pc,                \* the API call the reconcile makes next, or "idle"
  cur, copy,         \* Lab being reconciled, and the object Get returned
  dev,               \* gconf of EnsureLinks has a VXLANDefaultDev
  vnis, idx,         \* vniList of EnsureLinks and the position in its loop
  spokes,            \* SpokeMap: the VNI each link's spoke names are built on
  todo,              \* links (delete) or nodes (create) not yet visited
  unlisted,          \* history, read by no action: the stored LANs that a list
                     \* of GetAvailableVNIs was without
  fails, crashes, evicts

labVars    == <<lab, labC, labQ>>
lanVars    == <<lan, lanC, lanQ>>
wlVars     == <<wl, wlC, wlQ>>
workerVars == <<pc, cur, copy, dev, vnis, idx, spokes, todo>>
boundVars  == <<fails, crashes, evicts>>
vars       == <<labVars, lanVars, wlVars, vxdev, unlisted, queue, workerVars, boundVars>>

-----------------------------------------------------------------------------
(* Names and objects *)

\* Names are joined by "-": the parts of a Lab's name run into the link's.
Getk8lanName(l, k) == l \o k

LinksOf(l) == {LinkList[l][i] : i \in 1..Len(LinkList[l])}
Lans       == UNION {{Getk8lanName(l, k) : k \in LinksOf(l)} : l \in Labs}

\* A UID: the name of a Lab and which of the Labs of that name it is.
Uids   == Labs \X (0..MaxUid)
LabObj == [ph : Phase, uid : 0..MaxUid]
LanObj == [ph : Phase, owner : Uids, vni : 0..MaxVNI]
WlObj  == [ph : {"gone", "bare"}, owner : Uids, spokes : [Links -> 0..MaxVNI]]

AnyLab    == CHOOSE l \in Labs : TRUE
NoLab     == [ph |-> "gone", uid |-> 0]
NoSpokes  == [k \in Links |-> 0]
NoLan     == [ph |-> "gone", owner |-> <<AnyLab, 0>>, vni |-> 0]
NoWl      == [ph |-> "gone", owner |-> <<AnyLab, 0>>, spokes |-> NoSpokes]

OwnerName(obj) == obj.owner[1]

\* The object's owner is the Lab stored under that name, UID included.
OwnerStored(obj) ==
  /\ Exists(lab[OwnerName(obj)])
  /\ lab[OwnerName(obj)].uid = obj.owner[2]

\* IsOwnedbyLab compares UIDs.
IsOwnedbyLab(obj) == obj.owner = <<cur, copy.uid>>

-----------------------------------------------------------------------------
(* Writes to the API server: the object changes and a watch event is sent. *)

PutLab(l, obj) == /\ lab' = [lab EXCEPT ![l] = obj]
                  /\ labQ' = [labQ EXCEPT ![l] = Append(@, obj)]
                  /\ UNCHANGED labC

PutLan(n, obj) == /\ lan' = [lan EXCEPT ![n] = obj]
                  /\ lanQ' = Append(lanQ, [name |-> n, obj |-> obj])
                  /\ UNCHANGED lanC

PutWl(l, m, obj) == /\ wl' = [wl EXCEPT ![<<l, m>>] = obj]
                    /\ wlQ' = [wlQ EXCEPT ![<<l, m>>] = Append(@, obj)]
                    /\ UNCHANGED wlC

-----------------------------------------------------------------------------
(* The worker *)

\* A reconcile ends; with an error it is put back on the workqueue.
Return(err) ==
  /\ pc' = "idle"
  /\ cur' = AnyLab /\ copy' = NoLab /\ dev' = FALSE /\ vnis' = <<>> /\ idx' = 0
  /\ spokes' = NoSpokes /\ todo' = {}
  /\ queue' = IF err THEN queue \cup {cur} ELSE queue

Goto(step) == pc' = step /\ UNCHANGED <<cur, copy, queue>>

\* Reconcile: Get the Lab; what to do next follows from its finalizer and
\* deletionTimestamp.  A Lab that is not found ends the reconcile.
StartReconcile(l) ==
  /\ pc = "idle" /\ l \in queue
  /\ queue' = queue \ {l}
  /\ IF Exists(labC[l])
       THEN /\ cur' = l /\ copy' = labC[l]
            /\ pc' = CASE labC[l].ph = "bare"  -> "addFinalizer"
                       [] labC[l].ph = "held"  -> "list"
                       [] labC[l].ph = "dying" -> "strip"
            /\ todo' = IF labC[l].ph = "dying" THEN LinksOf(l) ELSE {}
       ELSE UNCHANGED <<pc, cur, copy, todo>>
  /\ UNCHANGED <<labVars, lanVars, wlVars, vxdev, unlisted, vnis, dev, idx, spokes, boundVars>>

\* Mutant: the Update does not carry the resourceVersion.
AddFinalizer_NoConflict ==
  /\ pc = "addFinalizer"
  /\ PutLab(cur, WithFinalizer(copy))
  /\ copy' = WithFinalizer(copy) /\ pc' = "list"
  /\ UNCHANGED <<cur, queue, vnis, dev, idx, spokes, todo>>
  /\ UNCHANGED <<lanVars, wlVars, vxdev, unlisted, boundVars>>

\* AddFinalizer and Update; a conflict is returned and retried.
AddFinalizer ==
  /\ pc = "addFinalizer"
  /\ \/ /\ lab[cur] = copy
        /\ PutLab(cur, WithFinalizer(copy))
        /\ copy' = WithFinalizer(copy) /\ pc' = "list"
        /\ UNCHANGED <<cur, queue, vnis, dev, idx, spokes, todo>>
     \/ lab[cur] # copy /\ Return(TRUE) /\ UNCHANGED labVars
  /\ UNCHANGED <<lanVars, wlVars, vxdev, unlisted, boundVars>>

\* s is the n lowest VNIs not in use, in order.  The bitset holds the bits
\* 0..maxVNI-1 and bit 0 is set, so that maxVNI itself is never handed out.
FirstFree(s, used) ==
  LET free == (1..MaxVNI - 1) \ used IN
  /\ \A i \in DOMAIN s : s[i] \in free
  /\ \A i, j \in DOMAIN s : i < j => s[i] < s[j]
  /\ \A i \in DOMAIN s : \A v \in free : v < s[i] => \E j \in DOMAIN s : s[j] = v

\* Mutant: the VNI of a LAN being deleted counts as free.
UsedVNIs_NotDying ==
  {lanC[n].vni : n \in {x \in Lans : lanC[x].ph \in {"bare", "held"}}}

UsedVNIs == {lanC[n].vni : n \in {x \in Lans : Exists(lanC[x])}}

\* What is stored of LAN n, and all that the LAN informer shows or will show.
LanViews(n) ==
  {lan[n], lanC[n]} \cup {lanQ[i].obj : i \in {j \in 1..Len(lanQ) : lanQ[j].name = n}}

\* A LAN that is stored has been so, with its VNI, for as long as is seen.
Listed(n) == Exists(lan[n]) => \A v \in LanViews(n) : Exists(v) /\ v.vni = lan[n].vni

\* The head of EnsureLinks: GCONF is read once, and GetAvailableVNIs gives as
\* many VNIs as the Lab has links, whether or not their LANs exist.  The
\* error of having too few ends the reconcile and is only logged.
GetAvailableVNIs ==
  /\ pc = "list"
  /\ LET n     == Len(LinkList[cur])
         lists == {s \in [1..n -> 1..MaxVNI - 1] : FirstFree(s, UsedVNIs)}
     IN \/ \E s \in lists :
             /\ dev' = vxdev /\ vnis' = s /\ idx' = 1
             /\ todo' = IF n = 0 THEN Nodes ELSE {}
             /\ Goto(IF n = 0 THEN "node" ELSE "get")
             /\ UNCHANGED spokes
        \/ lists = {} /\ Return(FALSE)
  /\ unlisted' = unlisted \cup {n \in Lans : ~Listed(n)}
  /\ UNCHANGED <<labVars, lanVars, wlVars, vxdev, boundVars>>

link    == LinkList[cur][idx]
lanName == Getk8lanName(cur, link)

\* Mutant: the spoke names follow vniList even if the LAN exists.
GetLan_OwnVNI ==
  /\ pc = "get"
  /\ \/ /\ ~Exists(lanC[lanName]) /\ ~dev
        /\ Return(TRUE)
     \/ /\ Exists(lanC[lanName]) \/ dev
        /\ spokes' = [spokes EXCEPT ![link] = vnis[idx]]
        /\ Goto(IF Exists(lanC[lanName]) THEN "check" ELSE "create")
        /\ UNCHANGED <<vnis, dev, idx, todo>>
  /\ UNCHANGED <<labVars, lanVars, wlVars, vxdev, unlisted, boundVars>>

\* EnsureLinks, first half of the loop body: Get the LAN, or build a new one
\* with vniList[i]; the spoke names follow its VNI.  Building one
\* dereferences VXLANDefaultDev: without it the reconcile panics, which
\* controller-runtime turns into an error.
GetLan ==
  /\ pc = "get"
  /\ \/ /\ ~Exists(lanC[lanName]) /\ ~dev
        /\ Return(TRUE)
     \/ /\ ~Exists(lanC[lanName]) /\ dev
        /\ spokes' = [spokes EXCEPT ![link] = vnis[idx]]
        /\ Goto("create") /\ UNCHANGED <<vnis, dev, idx, todo>>
     \/ /\ Exists(lanC[lanName])
        /\ spokes' = [spokes EXCEPT ![link] = lanC[lanName].vni]
        /\ Goto("check") /\ UNCHANGED <<vnis, dev, idx, todo>>
  /\ UNCHANGED <<labVars, lanVars, wlVars, vxdev, unlisted, boundVars>>

\* Mutant: the loop runs one link too far.
NextLink_TooFar ==
  /\ IF idx <= Len(LinkList[cur])
       THEN idx' = idx + 1 /\ Goto("get") /\ UNCHANGED todo
       ELSE idx' = idx /\ Goto("node") /\ todo' = Nodes
  /\ UNCHANGED <<vnis, dev, spokes>>

\* The loop of EnsureLinks goes on; after the last link come the nodes.
NextLink ==
  /\ IF idx < Len(LinkList[cur])
       THEN idx' = idx + 1 /\ Goto("get") /\ UNCHANGED todo
       ELSE idx' = idx /\ Goto("node") /\ todo' = Nodes
  /\ UNCHANGED <<vnis, dev, spokes>>

\* createIfNotExistsOrRemove finds the LAN (its own, second Get): it must be
\* this Lab's.  The error is only logged.
LanFound ==
  /\ Exists(lanC[lanName])
  /\ \/ IsOwnedbyLab(lanC[lanName]) /\ NextLink
     \/ ~IsOwnedbyLab(lanC[lanName]) /\ Return(FALSE)
  /\ UNCHANGED lanVars

\* createIfNotExistsOrRemove of the LAN that GetLan built: it is created if
\* the cache still has none; AlreadyExists is an error that is only logged.
CreateLan ==
  /\ pc = "create"
  /\ \/ LanFound /\ UNCHANGED unlisted
     \/ /\ ~Exists(lanC[lanName]) /\ ~Exists(lan[lanName])
        /\ PutLan(lanName, [ph |-> "held", owner |-> <<cur, copy.uid>>,
                            vni |-> spokes[link]])
        /\ unlisted' = unlisted \ {lanName}
        /\ NextLink
     \/ /\ ~Exists(lanC[lanName]) /\ Exists(lan[lanName])
        /\ Return(FALSE) /\ UNCHANGED <<lanVars, unlisted>>
  /\ UNCHANGED <<labVars, wlVars, vxdev, boundVars>>

\* createIfNotExistsOrRemove of the LAN that GetLan found: if it is gone by
\* now, creating it fails, since the object carries a resourceVersion.
CheckLan ==
  /\ pc = "check"
  /\ \/ LanFound
     \/ ~Exists(lanC[lanName]) /\ Return(FALSE) /\ UNCHANGED lanVars
  /\ UNCHANGED <<labVars, wlVars, vxdev, unlisted, boundVars>>

\* Ensure of one node, in the random order of a Go map: the Pod or VMI is
\* created on the spokes of SpokeMap unless it exists; it must be this
\* Lab's.  Ensure may also fail, which is only logged: because the workload is
\* another Lab's or the cache has not seen it, or, before it comes to the
\* workload, over a claim, ConfigMap or data volume.  Those are NodeEnsure's:
\* here they may stand in the way at any time, and no event need come of it.
EnsureNode(m) ==
  /\ pc = "node" /\ m \in todo
  /\ \/ /\ Exists(wlC[<<cur, m>>]) /\ IsOwnedbyLab(wlC[<<cur, m>>])
        /\ todo' = todo \ {m}
        /\ Goto("node") /\ UNCHANGED <<vnis, dev, idx, spokes, wlVars>>
     \/ /\ ~Exists(wlC[<<cur, m>>]) /\ ~Exists(wl[<<cur, m>>])
        /\ PutWl(cur, m, [ph |-> "bare", owner |-> <<cur, copy.uid>>,
                          spokes |-> spokes])
        /\ todo' = todo \ {m}
        /\ Goto("node") /\ UNCHANGED <<vnis, dev, idx, spokes>>
     \/ Return(FALSE) /\ UNCHANGED wlVars
  /\ UNCHANGED <<labVars, lanVars, vxdev, unlisted, boundVars>>

\* All nodes ensured: Reconcile returns.
EndReconcile ==
  /\ pc = "node" /\ todo = {}
  /\ Return(FALSE)
  /\ UNCHANGED <<labVars, lanVars, wlVars, vxdev, unlisted, boundVars>>

\* Mutant: a LAN that is not found is taken for one already gone.
StripLan_SkipMissing(k) ==
  /\ pc = "strip" /\ k \in todo
  /\ LET n == Getk8lanName(cur, k) IN
     \/ /\ Exists(lanC[n]) => lanC[n] = lan[n]
        /\ IF Exists(lanC[n]) /\ HasFinalizer(lan[n])
             THEN PutLan(n, WithoutFinalizer(lan[n])) ELSE UNCHANGED lanVars
        /\ todo' = todo \ {k}
        /\ Goto("strip") /\ UNCHANGED <<vnis, dev, idx, spokes>>
     \/ Exists(lanC[n]) /\ lanC[n] # lan[n] /\ Return(TRUE) /\ UNCHANGED lanVars
  /\ UNCHANGED <<labVars, wlVars, vxdev, unlisted, boundVars>>

\* deleteExternalResources, one link in the random order of a Go map: Get
\* the LAN, remove the finalizer, Update.  The branch for NotFound falls
\* through to the Update of an empty object, which the API server always
\* refuses.  Every error is returned and retried.
StripLan(k) ==
  /\ pc = "strip" /\ k \in todo
  /\ LET n == Getk8lanName(cur, k) IN
     \/ /\ Exists(lanC[n]) /\ lanC[n] = lan[n]
        /\ IF HasFinalizer(lan[n]) THEN PutLan(n, WithoutFinalizer(lan[n]))
                                   ELSE UNCHANGED lanVars
        /\ todo' = todo \ {k}
        /\ Goto("strip") /\ UNCHANGED <<vnis, dev, idx, spokes>>
     \/ Exists(lanC[n]) /\ lanC[n] # lan[n] /\ Return(TRUE) /\ UNCHANGED lanVars
     \/ ~Exists(lanC[n]) /\ Return(TRUE) /\ UNCHANGED lanVars
  /\ UNCHANGED <<labVars, wlVars, vxdev, unlisted, boundVars>>

\* Mutant: the Lab loses its finalizer before its LANs lose theirs.
RemoveFinalizer_First ==
  /\ pc = "strip"
  /\ \/ /\ lab[cur] = copy
        /\ PutLab(cur, WithoutFinalizer(copy))
        /\ UNCHANGED <<workerVars, queue>>
     \/ /\ lab[cur] # copy /\ todo = {}
        /\ Return(FALSE) /\ UNCHANGED labVars
  /\ UNCHANGED <<lanVars, wlVars, vxdev, unlisted, boundVars>>

\* RemoveFinalizer and Update of the Lab, which is then gone.
RemoveFinalizer ==
  /\ pc = "strip" /\ todo = {}
  /\ \/ /\ lab[cur] = copy
        /\ PutLab(cur, WithoutFinalizer(copy)) /\ Return(FALSE)
     \/ lab[cur] # copy /\ Return(TRUE) /\ UNCHANGED labVars
  /\ UNCHANGED <<lanVars, wlVars, vxdev, unlisted, boundVars>>

\* An API call fails (API server unreachable, timeout, conflict with another
\* writer).  In EnsureLinks and Ensure the error is logged and dropped.
ApiError ==
  /\ pc # "idle" /\ fails < MaxFail
  /\ fails' = fails + 1
  /\ Return(pc \in {"addFinalizer", "strip"})
  /\ UNCHANGED <<labVars, lanVars, wlVars, vxdev, unlisted, crashes, evicts>>

-----------------------------------------------------------------------------
(* The informers: one watch event reaches the cache, and the Lab it is     *)
(* about, or that owns the object by NAME, is put on the workqueue.        *)

DeliverLab(l) ==
  /\ labQ[l] # <<>>
  /\ labC' = [labC EXCEPT ![l] = Head(labQ[l])]
  /\ labQ' = [labQ EXCEPT ![l] = Tail(@)]
  /\ queue' = queue \cup {l}
  /\ UNCHANGED <<lab, lanVars, wlVars, vxdev, unlisted, workerVars, boundVars>>

\* Mutant: the controller does not watch LANs.
DeliverLan_NoWatch ==
  /\ lanQ # <<>>
  /\ lanC' = [lanC EXCEPT ![Head(lanQ).name] = Head(lanQ).obj]
  /\ lanQ' = Tail(lanQ)
  /\ UNCHANGED <<labVars, lan, wlVars, vxdev, unlisted, queue, workerVars, boundVars>>

\* Owns(&k8slan.LAN{})
DeliverLan ==
  /\ lanQ # <<>>
  /\ LET e == Head(lanQ) IN
     /\ lanC' = [lanC EXCEPT ![e.name] = e.obj]
     /\ queue' = queue \cup {OwnerName(e.obj)}
                       \cup {OwnerName(x) : x \in {y \in {lanC[e.name]} : Exists(y)}}
  /\ lanQ' = Tail(lanQ)
  /\ UNCHANGED <<labVars, lan, wlVars, vxdev, unlisted, workerVars, boundVars>>

\* Owns(&corev1.Pod{}), Owns(&kvv1.VirtualMachineInstance{})
DeliverWl(l, m) ==
  /\ wlQ[<<l, m>>] # <<>>
  /\ wlC' = [wlC EXCEPT ![<<l, m>>] = Head(wlQ[<<l, m>>])]
  /\ wlQ' = [wlQ EXCEPT ![<<l, m>>] = Tail(@)]
  /\ queue' = queue \cup {OwnerName(Head(wlQ[<<l, m>>]))}
  /\ UNCHANGED <<labVars, lanVars, wl, vxdev, unlisted, workerVars, boundVars>>

\* The periodic resync of the Lab informer (10 hours by default).
Resync ==
  /\ queue' = queue \cup {l \in Labs : Exists(labC[l])}
  /\ UNCHANGED <<labVars, lanVars, wlVars, vxdev, unlisted, workerVars, boundVars>>

-----------------------------------------------------------------------------
(* The environment *)

\* The KNLConfig reaches GCONF.
LoadConfig ==
  /\ ~vxdev /\ vxdev' = TRUE
  /\ UNCHANGED <<labVars, lanVars, wlVars, unlisted, queue, workerVars, boundVars>>

\* The operator's process ends and a new one starts: GCONF, workqueue and
\* worker are lost, the caches are filled by a list of what is stored, and
\* every object listed is an event.
Crash ==
  /\ crashes < MaxCrash
  /\ crashes' = crashes + 1
  /\ labC' = lab /\ labQ' = [l \in Labs |-> <<>>]
  /\ lanC' = lan /\ lanQ' = <<>>
  /\ wlC' = wl /\ wlQ' = [x \in Labs \X Nodes |-> <<>>]
  /\ queue' = {l \in Labs : Exists(lab[l])}
  /\ vxdev' = FALSE
  /\ pc' = "idle" /\ cur' = AnyLab /\ copy' = NoLab /\ dev' = FALSE /\ vnis' = <<>>
  /\ idx' = 0 /\ spokes' = NoSpokes /\ todo' = {}
  /\ UNCHANGED <<lab, lan, wl, unlisted, fails, evicts>>

UserCreateLab(l) ==
  /\ ~Exists(lab[l]) /\ lab[l].uid < MaxUid
  /\ PutLab(l, [ph |-> "bare", uid |-> lab[l].uid + 1])
  /\ UNCHANGED <<lanVars, wlVars, vxdev, unlisted, queue, workerVars, boundVars>>

UserDeleteLab(l) ==
  /\ lab[l].ph \in {"bare", "held"}
  /\ PutLab(l, Deleted(lab[l]))
  /\ UNCHANGED <<lanVars, wlVars, vxdev, unlisted, queue, workerVars, boundVars>>

UserDeleteLan(n) ==
  /\ lan[n].ph \in {"bare", "held"} /\ evicts < MaxEvict
  /\ evicts' = evicts + 1
  /\ PutLan(n, Deleted(lan[n]))
  /\ UNCHANGED <<labVars, wlVars, vxdev, unlisted, queue, workerVars, fails, crashes>>

LoseWorkload(l, m) ==
  /\ Exists(wl[<<l, m>>]) /\ evicts < MaxEvict
  /\ evicts' = evicts + 1
  /\ PutWl(l, m, Deleted(wl[<<l, m>>]))
  /\ UNCHANGED <<labVars, lanVars, vxdev, unlisted, queue, workerVars, fails, crashes>>

\* The garbage collector deletes an object whose owner is no longer stored.
CollectLan(n) ==
  /\ lan[n].ph \in {"bare", "held"} /\ ~OwnerStored(lan[n])
  /\ PutLan(n, Deleted(lan[n]))
  /\ UNCHANGED <<labVars, wlVars, vxdev, unlisted, queue, workerVars, boundVars>>

CollectWl(l, m) ==
  /\ Exists(wl[<<l, m>>]) /\ ~OwnerStored(wl[<<l, m>>])
  /\ PutWl(l, m, Deleted(wl[<<l, m>>]))
  /\ UNCHANGED <<labVars, lanVars, vxdev, unlisted, queue, workerVars, boundVars>>

-----------------------------------------------------------------------------
Init ==
  /\ lab = [l \in Labs |-> NoLab] /\ labC = lab /\ labQ = [l \in Labs |-> <<>>]
  /\ lan = [n \in Lans |-> NoLan] /\ lanC = lan /\ lanQ = <<>>
  /\ wl = [x \in Labs \X Nodes |-> NoWl] /\ wlC = wl
  /\ wlQ = [x \in Labs \X Nodes |-> <<>>]
  /\ vxdev = FALSE /\ unlisted = {} /\ queue = {}
  /\ pc = "idle" /\ cur = AnyLab /\ copy = NoLab /\ dev = FALSE /\ vnis = <<>> /\ idx = 0
  /\ spokes = NoSpokes /\ todo = {}
  /\ fails = 0 /\ crashes = 0 /\ evicts = 0

Worker ==
  \/ \E l \in Labs : StartReconcile(l)
  \/ AddFinalizer
  \/ GetAvailableVNIs \/ GetLan \/ CreateLan \/ CheckLan
  \/ \E m \in Nodes : EnsureNode(m)
  \/ EndReconcile
  \/ \E k \in Links : StripLan(k)
  \/ RemoveFinalizer

Informers ==
  \/ \E l \in Labs : DeliverLab(l)
  \/ DeliverLan
  \/ \E l \in Labs, m \in Nodes : DeliverWl(l, m)

Collector ==
  \/ \E n \in Lans : CollectLan(n)
  \/ \E l \in Labs, m \in Nodes : CollectWl(l, m)

Environment ==
  \/ ApiError \/ Crash \/ Resync
  \/ \E l \in Labs : UserCreateLab(l) \/ UserDeleteLab(l)
  \/ \E n \in Lans : UserDeleteLan(n)
  \/ \E l \in Labs, m \in Nodes : LoseWorkload(l, m)

Next == Worker \/ Informers \/ Collector \/ LoadConfig \/ Environment

Spec == Init /\ [][Next]_vars

-----------------------------------------------------------------------------
(* Fairness: the worker goroutine does not stop in the middle of a         *)
(* reconcile; the workqueue is first-in first-out, so that a Lab on it is  *)
(* reconciled although others are put back on it again and again; watch    *)
(* events arrive; the garbage collector collects; the KNLConfig is loaded. *)
(* No user, crash, API error or resync is assumed to happen.               *)

Fairness ==
  /\ WF_vars(Worker)
  /\ \A l \in Labs : SF_vars(StartReconcile(l)) /\ WF_vars(DeliverLab(l))
  /\ WF_vars(DeliverLan)
  /\ \A l \in Labs, m \in Nodes : WF_vars(DeliverWl(l, m)) /\ WF_vars(CollectWl(l, m))
  /\ \A n \in Lans : WF_vars(CollectLan(n))
  /\ WF_vars(LoadConfig)

FairSpec == Spec /\ Fairness

-----------------------------------------------------------------------------
(* Properties *)

Steps == {"idle", "addFinalizer", "list", "get", "create", "check", "node", "strip"}

\* Type correctness of the whole state.
TypeOK ==
  /\ lab \in [Labs -> LabObj] /\ labC \in [Labs -> LabObj]
  /\ labQ \in [Labs -> Seq(LabObj)]
  /\ lan \in [Lans -> LanObj] /\ lanC \in [Lans -> LanObj]
  /\ lanQ \in Seq([name : Lans, obj : LanObj])
  /\ wl \in [Labs \X Nodes -> WlObj] /\ wlC \in [Labs \X Nodes -> WlObj]
  /\ wlQ \in [Labs \X Nodes -> Seq(WlObj)]
  /\ vxdev \in BOOLEAN /\ unlisted \in SUBSET Lans /\ queue \in SUBSET Labs
  /\ pc \in Steps /\ cur \in Labs /\ copy \in LabObj
  /\ dev \in BOOLEAN /\ vnis \in Seq(0..MaxVNI) /\ idx \in Nat
  /\ pc \in {"get", "create", "check"} => /\ idx \in 1..Len(LinkList[cur])
                                          /\ Len(vnis) = Len(LinkList[cur])
  /\ spokes \in [Links -> 0..MaxVNI]
  /\ todo \in SUBSET (IF pc = "strip" THEN LinksOf(cur) ELSE Nodes)
  /\ fails \in 0..MaxFail /\ crashes \in 0..MaxCrash /\ evicts \in 0..MaxEvict

\* A LAN that carries the operator's finalizer has its Lab: the very Lab that
\* created it is stored and still carries its own finalizer, so that a
\* reconcile will come to remove both.  Otherwise the LAN, and the VXLAN
\* bridges behind it, could never be deleted again: Reconcile removes a LAN's
\* finalizer only on behalf of a Lab that has one.  At stake are
\* EnsureLinks running on a stale Lab, deleteExternalResources reading a
\* cache that has not seen a LAN yet, and a crash between the two.
NoOrphanLan ==
  \A n \in Lans : HasFinalizer(lan[n]) =>
    /\ lab[OwnerName(lan[n])].uid = lan[n].owner[2]
    /\ HasFinalizer(lab[OwnerName(lan[n])])

SameVNI(m, n) == Exists(lan[m]) /\ Exists(lan[n]) /\ lan[m].vni = lan[n].vni

\* No two LANs have the same VNI (GetAvailableVNIs): they would be one
\* broadcast domain.
VNIUnique == \A m, n \in Lans : SameVNI(m, n) => m = n

\* Two LANs have the same VNI only if a list of GetAvailableVNIs was without
\* one of them although it was stored: VNIs in hand stay unused while users
\* delete LANs, Labs come and go and the VNIs run out, and a LAN being deleted
\* keeps its own.
VNIUniqueIfListed == \A m, n \in Lans \ unlisted : SameVNI(m, n) => m = n

\* LAN name n is that of one link only: "-" may join the parts of two Labs'
\* names and of their links' names to one and the same LAN name.
Unshared(n) ==
  \A l1, l2 \in Labs : \A k1 \in LinksOf(l1), k2 \in LinksOf(l2) :
    Getk8lanName(l1, k1) = n /\ Getk8lanName(l2, k2) = n => l1 = l2 /\ k1 = k2

\* The Pod or VMI of a Lab in service is attached to the Lab's own LANs: for
\* every link with a LAN name of its own a LAN of the same Lab is stored, and
\* unless a list was without it the VNI in the spoke names is the LAN's.
\* EnsureLinks takes the VNI from one Get and createIfNotExistsOrRemove decides
\* by another, and Labs of the name have come and gone before.
SpokesOnOwnLan ==
  \A l \in Labs, m \in Nodes :
    /\ Exists(wl[<<l, m>>]) /\ lab[l].ph = "held"
    /\ wl[<<l, m>>].owner = <<l, lab[l].uid>>
    => \A k \in LinksOf(l) :
         LET n == Getk8lanName(l, k) IN
         Unshared(n) =>
           /\ Exists(lan[n]) /\ lan[n].owner = wl[<<l, m>>].owner
           /\ n \notin unlisted => lan[n].vni = wl[<<l, m>>].spokes[k]

\* A LAN with a name of its own loses its finalizer only while the Lab that
\* owns it is being deleted: deleteExternalResources looks LANs up by name,
\* never at their owner, for a copy of the Lab that may be a former one's.
StripOnlyOwnLan ==
  [][\A n \in Lans :
       Unshared(n) /\ HasFinalizer(lan[n]) /\ ~HasFinalizer(lan'[n]) =>
         /\ lab[OwnerName(lan[n])].uid = lan[n].owner[2]
         /\ lab[OwnerName(lan[n])].ph = "dying"]_vars

LinksUp(l) ==
  /\ lab[l].ph = "held"
  /\ \A k \in LinksOf(l) : LET x == lan[Getk8lanName(l, k)] IN
       Exists(x) /\ x.owner = <<l, lab[l].uid>>

\* A Lab that the user leaves alone ends up, for good, with its finalizer and
\* every LAN of its own, without a resync.  The errors of EnsureLinks are
\* dropped, so this rests on an event coming for whatever stood in the way: the
\* LANs of an earlier Lab of the name, a LAN the cache had not seen, a
\* configuration not loaded yet.
LinksComeUp ==
  \A l \in Labs : <>[](lab[l].ph \in {"bare", "held"}) => <>[]LinksUp(l)

\* A Lab that is being deleted is gone in the end: an error of
\* deleteExternalResources is returned "so that it can be retried".
LabDeletionCompletes ==
  \A l \in Labs : lab[l].ph = "dying" ~> lab[l].ph # "dying"

=============================================================================
