------------------------ MODULE LabController_proofs ------------------------
(***************************************************************************)
(* Proofs about LabController for every value of its constants: any        *)
(* number of Labs, links, nodes, failures and restarts.                    *)
(***************************************************************************)
EXTENDS LabControllerInv, TLAPS

-----------------------------------------------------------------------------
(* Operators *)

\* AnyLab is a Lab.
LEMMA AnyLabType == AnyLab \in Labs
  BY ConstantsAssumption DEF AnyLab

\* The initial objects are objects.
LEMMA NoObjectTypes ==
  /\ NoLab \in LabObj /\ NoSpokes \in [Links -> 0..MaxVNI]
  /\ NoLan \in LanObj /\ NoWl \in WlObj
  <1>1. 0 \in 0..MaxUid /\ 0 \in 0..MaxVNI
    BY ConstantsAssumption
  <1>2. <<AnyLab, 0>> \in Uids
    BY <1>1, AnyLabType DEF Uids
  <1>3. NoSpokes \in [Links -> 0..MaxVNI]
    BY <1>1 DEF NoSpokes
  <1>4. QED
    BY <1>1, <1>2, <1>3 DEF NoLab, NoLan, NoWl, LabObj, LanObj, WlObj, Phase

\* The requests of the API server keep an object an object, whatever its kind.
LEMMA LabRequests ==
  ASSUME NEW x \in LabObj
  PROVE  /\ WithFinalizer(x) \in LabObj /\ WithoutFinalizer(x) \in LabObj
         /\ Deleted(x) \in LabObj
         /\ WithFinalizer(x).uid = x.uid /\ WithoutFinalizer(x).uid = x.uid
         /\ Deleted(x).uid = x.uid
         /\ x.ph = "bare" => WithFinalizer(x).ph = "held" /\ Deleted(x).ph = "gone"
         /\ x.ph = "held" => Deleted(x).ph = "dying"
         /\ x.ph = "dying" => WithoutFinalizer(x).ph = "gone"
  BY DEF LabObj, Phase, WithFinalizer, WithoutFinalizer, Deleted

\* Likewise for a LAN, whose owner and VNI never change.
LEMMA LanRequests ==
  ASSUME NEW x \in LanObj
  PROVE  /\ WithoutFinalizer(x) \in LanObj /\ Deleted(x) \in LanObj
         /\ WithoutFinalizer(x).owner = x.owner /\ Deleted(x).owner = x.owner
         /\ WithoutFinalizer(x).vni = x.vni /\ Deleted(x).vni = x.vni
         /\ ~HasFinalizer(WithoutFinalizer(x))
         /\ HasFinalizer(Deleted(x)) => HasFinalizer(x)
         /\ Exists(WithoutFinalizer(x)) => Exists(x)
         /\ Exists(Deleted(x)) => Exists(x)
         /\ HasFinalizer(x) /\ x.ph \in {"bare", "held"} => HasFinalizer(Deleted(x))
  BY DEF LanObj, Phase, WithoutFinalizer, Deleted, HasFinalizer, Exists

\* Likewise for a Pod or a VMI.
LEMMA WlRequests ==
  ASSUME NEW x \in WlObj
  PROVE  Deleted(x) \in WlObj
  BY DEF WlObj, Deleted

\* The LAN name of a link of a Lab is a LAN name.
LEMMA LanNames ==
  ASSUME NEW l \in Labs, NEW k \in LinksOf(l)
  PROVE  Getk8lanName(l, k) \in Lans
  BY DEF Lans

\* The links of a Lab are links.
LEMMA LinksOfType ==
  ASSUME NEW l \in Labs
  PROVE  LinksOf(l) \subseteq Links
  BY ConstantsAssumption DEF LinksOf

\* In the loop of EnsureLinks, the link and the LAN's name are well defined.
LEMMA CurrentLink ==
  ASSUME TypeOK, pc \in {"get", "create", "check"}
  PROVE  link \in LinksOf(cur) /\ link \in Links /\ lanName \in Lans
  <1>1. link \in LinksOf(cur)
    BY ConstantsAssumption DEF link, LinksOf, TypeOK
  <1>2. QED
    BY <1>1, LinksOfType, LanNames DEF lanName, TypeOK

-----------------------------------------------------------------------------
(* Sequences: what Append and Tail do to the elements of a queue. *)

\* Appending a watch event keeps the events already under way.
LEMMA AppendFacts ==
  ASSUME NEW S, NEW q \in Seq(S), NEW x \in S
  PROVE  /\ Append(q, x) \in Seq(S)
         /\ Len(Append(q, x)) = Len(q) + 1
         /\ \A i \in 1..Len(q) : Append(q, x)[i] = q[i]
         /\ Append(q, x)[Len(q) + 1] = x
  OBVIOUS

\* Empty queues are queues.
LEMMA EmptyQueues ==
  /\ [l \in Labs |-> <<>>] \in [Labs -> Seq(LabObj)]
  /\ <<>> \in Seq([name : Lans, obj : LanObj]) /\ <<>> \in Seq(0..MaxVNI)
  /\ [x \in Labs \X Nodes |-> <<>>] \in [Labs \X Nodes -> Seq(WlObj)]
  OBVIOUS

\* An element of a sequence over S is in S.
LEMMA ElementType ==
  ASSUME NEW S, NEW q \in Seq(S), NEW i \in 1..Len(q)
  PROVE  q[i] \in S
  OBVIOUS

\* A function on 1..n is a sequence of length n.
LEMMA FunctionIsSeq ==
  ASSUME NEW S, NEW n \in Nat, NEW f \in [1..n -> S]
  PROVE  f \in Seq(S) /\ Len(f) = n
  OBVIOUS

\* Taking the oldest watch event moves the others up by one.
LEMMA TailFacts ==
  ASSUME NEW S, NEW q \in Seq(S), q # <<>>
  PROVE  /\ Head(q) \in S /\ Head(q) = q[1]
         /\ Len(q) \in Nat /\ Len(q) >= 1
         /\ Tail(q) \in Seq(S)
         /\ Len(Tail(q)) = Len(q) - 1
         /\ \A i \in 1..Len(q) - 1 : Tail(q)[i] = q[i + 1]
  OBVIOUS

-----------------------------------------------------------------------------
(* Type correctness *)

\* The end of a reconcile leaves the worker's variables well typed.
LEMMA ReturnType ==
  ASSUME TypeOK, NEW err, Return(err)
  PROVE  /\ pc' = "idle" /\ cur' \in Labs /\ copy' \in LabObj
         /\ dev' \in BOOLEAN /\ vnis' \in Seq(0..MaxVNI) /\ idx' \in Nat
         /\ spokes' \in [Links -> 0..MaxVNI] /\ todo' = {}
         /\ queue' \in SUBSET Labs
  <1>1. dev' \in BOOLEAN /\ vnis' \in Seq(0..MaxVNI)
    BY EmptyQueues DEF Return
  <1>2. queue' \in SUBSET Labs
    BY DEF Return, TypeOK
  <1>3. QED
    BY <1>1, <1>2, AnyLabType, NoObjectTypes DEF Return

\* The Lab that a user creates is a Lab object: its UID is within the bound.
LEMMA NewLabType ==
  ASSUME TypeOK, NEW l \in Labs, UserCreateLab(l)
  PROVE  [ph |-> "bare", uid |-> lab[l].uid + 1] \in LabObj
  <1>1. lab[l] \in LabObj
    BY DEF TypeOK
  <1>2. lab[l].uid \in 0..MaxUid
    BY <1>1 DEF LabObj
  <1>3. lab[l].uid < MaxUid
    BY DEF UserCreateLab
  <1>4. lab[l].uid + 1 \in 0..MaxUid
    BY <1>2, <1>3, ConstantsAssumption
  <1>5. QED
    BY <1>4 DEF LabObj, Phase

\* Writing a Lab keeps what is stored, cached and under way well typed.
LEMMA PutLabType ==
  ASSUME TypeOK, NEW l \in Labs, NEW x \in LabObj, PutLab(l, x)
  PROVE  /\ lab' \in [Labs -> LabObj] /\ labC' \in [Labs -> LabObj]
         /\ labQ' \in [Labs -> Seq(LabObj)]
  <1>1. Append(labQ[l], x) \in Seq(LabObj)
    BY AppendFacts DEF TypeOK
  <1>2. QED
    BY <1>1 DEF PutLab, TypeOK

\* Writing a LAN keeps what is stored, cached and under way well typed.
LEMMA PutLanType ==
  ASSUME TypeOK, NEW n \in Lans, NEW x \in LanObj, PutLan(n, x)
  PROVE  /\ lan' \in [Lans -> LanObj] /\ lanC' \in [Lans -> LanObj]
         /\ lanQ' \in Seq([name : Lans, obj : LanObj])
  <1>1. [name |-> n, obj |-> x] \in [name : Lans, obj : LanObj]
    OBVIOUS
  <1>2. lanQ' \in Seq([name : Lans, obj : LanObj])
    BY <1>1, AppendFacts DEF PutLan, TypeOK
  <1>3. QED
    BY <1>2 DEF PutLan, TypeOK

\* Writing a Pod or VMI keeps what is stored, cached and under way well typed.
LEMMA PutWlType ==
  ASSUME TypeOK, NEW l \in Labs, NEW m \in Nodes, NEW x \in WlObj, PutWl(l, m, x)
  PROVE  /\ wl' \in [Labs \X Nodes -> WlObj] /\ wlC' \in [Labs \X Nodes -> WlObj]
         /\ wlQ' \in [Labs \X Nodes -> Seq(WlObj)]
  <1>1. <<l, m>> \in Labs \X Nodes
    OBVIOUS
  <1>2. Append(wlQ[<<l, m>>], x) \in Seq(WlObj)
    BY <1>1, AppendFacts DEF TypeOK
  <1>3. QED
    BY <1>1, <1>2 DEF PutWl, TypeOK

\* The loop of EnsureLinks goes on within the bounds of vniList.
LEMMA NextLinkType ==
  ASSUME TypeOK, pc \in {"get", "create", "check"}, NextLink
  PROVE  /\ pc' \in Steps /\ cur' \in Labs /\ copy' \in LabObj /\ queue' \in SUBSET Labs
         /\ dev' \in BOOLEAN /\ vnis' \in Seq(0..MaxVNI) /\ idx' \in Nat
         /\ pc' \in {"get", "create", "check"} => /\ idx' \in 1..Len(LinkList[cur'])
                                                  /\ Len(vnis') = Len(LinkList[cur'])
         /\ spokes' \in [Links -> 0..MaxVNI] /\ todo' \in SUBSET Nodes /\ pc' # "strip"
  <1>1. Len(LinkList[cur]) \in Nat
    BY ConstantsAssumption DEF TypeOK
  <1>2. QED
    BY <1>1 DEF NextLink, Goto, TypeOK, Steps

\* So it does when createIfNotExistsOrRemove finds the LAN.
LEMMA LanFoundType ==
  ASSUME TypeOK, pc \in {"create", "check"}, LanFound
  PROVE  /\ pc' \in Steps /\ cur' \in Labs /\ copy' \in LabObj /\ queue' \in SUBSET Labs
         /\ dev' \in BOOLEAN /\ vnis' \in Seq(0..MaxVNI) /\ idx' \in Nat
         /\ pc' \in {"get", "create", "check"} => /\ idx' \in 1..Len(LinkList[cur'])
                                                  /\ Len(vnis') = Len(LinkList[cur'])
         /\ spokes' \in [Links -> 0..MaxVNI] /\ todo' \in SUBSET Nodes /\ pc' # "strip"
  <1>1. CASE NextLink
    BY <1>1, NextLinkType
  <1>2. CASE Return(FALSE)
    BY <1>2, ReturnType DEF Steps
  <1>3. QED
    BY <1>1, <1>2 DEF LanFound

\* An owner reference to the Lab being reconciled is a UID.
LEMMA OwnUid ==
  ASSUME TypeOK
  PROVE  <<cur, copy.uid>> \in Uids
  BY DEF TypeOK, Uids, LabObj


\* Every step of the worker, the informers, the collector and the environment
\* keeps the state well typed; in particular EnsureLinks never indexes beyond
\* vniList or the link list.
LEMMA TypeStep == TypeOK /\ [Next]_vars => TypeOK'
<1> SUFFICES ASSUME TypeOK, [Next]_vars PROVE TypeOK'
  OBVIOUS
<1> USE DEF Steps
<1>1. ASSUME NEW l \in Labs, StartReconcile(l) PROVE TypeOK'
  BY <1>1 DEF StartReconcile, TypeOK, LabObj, Phase, Exists,
     labVars, lanVars, wlVars, boundVars
<1>2. CASE AddFinalizer
  <2>1. CASE lab[cur] # copy
    BY <1>2, <2>1, ReturnType DEF AddFinalizer, TypeOK, labVars, lanVars, wlVars, boundVars
  <2>2. CASE lab[cur] = copy
    <3>1. WithFinalizer(copy) \in LabObj
      BY LabRequests DEF TypeOK
    <3>2. PutLab(cur, WithFinalizer(copy))
      BY <1>2, <2>2 DEF AddFinalizer
    <3>3. QED
      BY <1>2, <2>2, <3>1, <3>2, PutLabType DEF AddFinalizer, TypeOK, lanVars, wlVars, boundVars
  <2>3. QED BY <2>1, <2>2
<1>3. CASE GetAvailableVNIs
  <2>1. CASE Return(FALSE)
    BY <1>3, <2>1, ReturnType DEF GetAvailableVNIs, TypeOK, labVars, lanVars, wlVars, boundVars
  <2>2. ASSUME NEW s \in [1..Len(LinkList[cur]) -> 1..MaxVNI - 1],
               dev' = vxdev, vnis' = s, idx' = 1,
               todo' = IF Len(LinkList[cur]) = 0 THEN Nodes ELSE {},
               Goto(IF Len(LinkList[cur]) = 0 THEN "node" ELSE "get"),
               spokes' = spokes
        PROVE  TypeOK'
    <3>1. Len(LinkList[cur]) \in Nat
      BY ConstantsAssumption DEF TypeOK
    <3>2. s \in Seq(0..MaxVNI) /\ Len(s) = Len(LinkList[cur])
      <4>1. s \in [1..Len(LinkList[cur]) -> 0..MaxVNI]
        BY ConstantsAssumption
      <4>2. QED
        BY <3>1, <4>1, FunctionIsSeq
    <3>3. QED
      BY <1>3, <2>2, <3>1, <3>2 DEF GetAvailableVNIs, Goto, TypeOK, labVars, lanVars, wlVars, boundVars
  <2>3. QED
    BY <1>3, <2>1, <2>2 DEF GetAvailableVNIs
<1>4. CASE GetLan
  <2>1. pc = "get" /\ link \in Links /\ lanName \in Lans
    BY <1>4, CurrentLink DEF GetLan
  <2>2. CASE Return(TRUE)
    BY <1>4, <2>2, ReturnType DEF GetLan, TypeOK, labVars, lanVars, wlVars, boundVars
  <2>3. vnis[idx] \in 0..MaxVNI /\ lanC[lanName].vni \in 0..MaxVNI
    <3>1. idx \in 1..Len(vnis) /\ vnis \in Seq(0..MaxVNI)
      BY <2>1 DEF TypeOK
    <3>2. vnis[idx] \in 0..MaxVNI
      BY <3>1, ElementType
    <3>3. QED
      BY <2>1, <3>2 DEF TypeOK, LanObj
  <2>4. CASE /\ spokes' = [spokes EXCEPT ![link] = vnis[idx]]
             /\ Goto("create") /\ UNCHANGED <<vnis, dev, idx, todo>>
    BY <1>4, <2>1, <2>3, <2>4 DEF GetLan, Goto, TypeOK, labVars, lanVars, wlVars, boundVars
  <2>5. CASE /\ spokes' = [spokes EXCEPT ![link] = lanC[lanName].vni]
             /\ Goto("check") /\ UNCHANGED <<vnis, dev, idx, todo>>
    BY <1>4, <2>1, <2>3, <2>5 DEF GetLan, Goto, TypeOK, labVars, lanVars, wlVars, boundVars
  <2>6. QED BY <1>4, <2>2, <2>4, <2>5 DEF GetLan
<1>5. CASE CreateLan
  <2>1. pc = "create" /\ link \in Links /\ lanName \in Lans
    BY <1>5, CurrentLink DEF CreateLan
  <2>2. CASE LanFound
    BY <1>5, <2>1, <2>2, LanFoundType DEF CreateLan, LanFound, TypeOK, labVars, lanVars, wlVars, boundVars
  <2>3. CASE Return(FALSE) /\ UNCHANGED lanVars
    BY <1>5, <2>3, ReturnType DEF CreateLan, TypeOK, labVars, lanVars, wlVars, boundVars
  <2>4. CASE /\ PutLan(lanName, [ph |-> "held", owner |-> <<cur, copy.uid>>,
                                 vni |-> spokes[link]])
             /\ NextLink
    <3>1. [ph |-> "held", owner |-> <<cur, copy.uid>>, vni |-> spokes[link]] \in LanObj
      BY <2>1, OwnUid DEF TypeOK, LanObj, Phase
    <3>2. QED
      BY <1>5, <2>1, <2>4, <3>1, PutLanType, NextLinkType DEF CreateLan, TypeOK, labVars, wlVars, boundVars
  <2>5. QED BY <1>5, <2>2, <2>3, <2>4 DEF CreateLan
<1>6. CASE CheckLan
  <2>1. pc = "check"
    BY <1>6 DEF CheckLan
  <2>2. CASE LanFound
    BY <1>6, <2>1, <2>2, LanFoundType DEF CheckLan, LanFound, TypeOK, labVars, lanVars, wlVars, boundVars
  <2>3. CASE Return(FALSE) /\ UNCHANGED lanVars
    BY <1>6, <2>3, ReturnType DEF CheckLan, TypeOK, labVars, lanVars, wlVars, boundVars
  <2>4. QED BY <1>6, <2>2, <2>3 DEF CheckLan
<1>7. ASSUME NEW m \in Nodes, EnsureNode(m) PROVE TypeOK'
  <2>1. CASE Return(FALSE) /\ UNCHANGED wlVars
    BY <1>7, <2>1, ReturnType DEF EnsureNode, TypeOK, labVars, lanVars, wlVars, boundVars
  <2>2. CASE /\ todo' = todo \ {m}
             /\ Goto("node") /\ UNCHANGED <<vnis, dev, idx, spokes, wlVars>>
    BY <1>7, <2>2 DEF EnsureNode, Goto, TypeOK, labVars, lanVars, wlVars, boundVars
  <2>3. CASE /\ PutWl(cur, m, [ph |-> "bare", owner |-> <<cur, copy.uid>>, spokes |-> spokes])
             /\ todo' = todo \ {m}
             /\ Goto("node") /\ UNCHANGED <<vnis, dev, idx, spokes>>
    <3>1. [ph |-> "bare", owner |-> <<cur, copy.uid>>, spokes |-> spokes] \in WlObj
      BY OwnUid DEF TypeOK, WlObj
    <3>2. cur \in Labs
      BY DEF TypeOK
    <3>3. QED
      BY <1>7, <2>3, <3>1, <3>2, PutWlType DEF EnsureNode, Goto, TypeOK, labVars, lanVars, boundVars
  <2>4. QED BY <1>7, <2>1, <2>2, <2>3 DEF EnsureNode
<1>8. CASE EndReconcile
  BY <1>8, ReturnType DEF EndReconcile, TypeOK, labVars, lanVars, wlVars, boundVars
<1>9. ASSUME NEW k \in Links, StripLan(k) PROVE TypeOK'
  <2>1. CASE Return(TRUE) /\ UNCHANGED lanVars
    BY <1>9, <2>1, ReturnType DEF StripLan, TypeOK, labVars, lanVars, wlVars, boundVars
  <2>2. CASE /\ todo' = todo \ {k} /\ Goto("strip") /\ UNCHANGED <<vnis, dev, idx, spokes>>
             /\ UNCHANGED lanVars
    BY <1>9, <2>2 DEF StripLan, Goto, TypeOK, labVars, lanVars, wlVars, boundVars
  <2>3. CASE /\ todo' = todo \ {k} /\ Goto("strip") /\ UNCHANGED <<vnis, dev, idx, spokes>>
             /\ HasFinalizer(lan[Getk8lanName(cur, k)])
             /\ PutLan(Getk8lanName(cur, k), WithoutFinalizer(lan[Getk8lanName(cur, k)]))
    <3>1. Getk8lanName(cur, k) \in Lans
      BY <1>9, LanNames DEF StripLan, TypeOK
    <3>2. WithoutFinalizer(lan[Getk8lanName(cur, k)]) \in LanObj
      BY <3>1, LanRequests DEF TypeOK
    <3>3. QED
      BY <1>9, <2>3, <3>1, <3>2, PutLanType DEF StripLan, Goto, TypeOK, labVars, wlVars, boundVars
  <2>4. QED BY <1>9, <2>1, <2>2, <2>3 DEF StripLan
<1>10. CASE RemoveFinalizer
  <2>1. CASE Return(TRUE) /\ UNCHANGED labVars
    BY <1>10, <2>1, ReturnType DEF RemoveFinalizer, TypeOK, labVars, lanVars, wlVars, boundVars
  <2>2. CASE PutLab(cur, WithoutFinalizer(copy)) /\ Return(FALSE)
    <3>1. WithoutFinalizer(copy) \in LabObj /\ cur \in Labs
      BY LabRequests DEF TypeOK
    <3>2. QED
      BY <1>10, <2>2, <3>1, PutLabType, ReturnType DEF RemoveFinalizer, TypeOK, lanVars, wlVars, boundVars
  <2>3. QED BY <1>10, <2>1, <2>2 DEF RemoveFinalizer
<1>11. CASE ApiError
  <2>1. fails' \in 0..MaxFail
    BY <1>11, ConstantsAssumption DEF ApiError, TypeOK
  <2>2. QED
    BY <1>11, <2>1, ReturnType DEF ApiError, TypeOK, labVars, lanVars, wlVars
<1>12. ASSUME NEW l \in Labs, DeliverLab(l) PROVE TypeOK'
  <2>1. Head(labQ[l]) \in LabObj /\ Tail(labQ[l]) \in Seq(LabObj)
    BY <1>12, TailFacts DEF DeliverLab, TypeOK
  <2>2. QED
    BY <1>12, <2>1 DEF DeliverLab, TypeOK, lanVars, wlVars, workerVars, boundVars
<1>13. CASE DeliverLan
  <2>1. Head(lanQ) \in [name : Lans, obj : LanObj] /\ Tail(lanQ) \in Seq([name : Lans, obj : LanObj])
    BY <1>13, TailFacts DEF DeliverLan, TypeOK
  <2>2. \A x \in LanObj : OwnerName(x) \in Labs
    BY DEF LanObj, Uids, OwnerName
  <2>3. queue' \in SUBSET Labs
    <3>1. Head(lanQ).obj \in LanObj /\ Head(lanQ).name \in Lans
      BY <2>1
    <3>2. lanC[Head(lanQ).name] \in LanObj
      BY <3>1 DEF TypeOK
    <3>3. OwnerName(Head(lanQ).obj) \in Labs /\ OwnerName(lanC[Head(lanQ).name]) \in Labs
      BY <2>2, <3>1, <3>2
    <3>4. queue' \subseteq queue \cup {OwnerName(Head(lanQ).obj), OwnerName(lanC[Head(lanQ).name])}
      <4>1. queue' = queue \cup {OwnerName(Head(lanQ).obj)}
                \cup {OwnerName(x) : x \in {y \in {lanC[Head(lanQ).name]} : Exists(y)}}
        BY <1>13 DEF DeliverLan
      <4>2. QED BY <4>1
    <3>5. queue \subseteq Labs
      BY DEF TypeOK
    <3>6. QED BY <3>3, <3>4, <3>5
  <2>4. QED
    BY <1>13, <2>1, <2>3 DEF DeliverLan, TypeOK, labVars, wlVars, workerVars, boundVars
<1>14. ASSUME NEW l \in Labs, NEW m \in Nodes, DeliverWl(l, m) PROVE TypeOK'
  <2>1. <<l, m>> \in Labs \X Nodes
    OBVIOUS
  <2>2. Head(wlQ[<<l, m>>]) \in WlObj /\ Tail(wlQ[<<l, m>>]) \in Seq(WlObj)
    BY <1>14, <2>1, TailFacts DEF DeliverWl, TypeOK
  <2>3. OwnerName(Head(wlQ[<<l, m>>])) \in Labs
    BY <2>2 DEF WlObj, Uids, OwnerName
  <2>4. QED
    BY <1>14, <2>1, <2>2, <2>3 DEF DeliverWl, TypeOK, labVars, lanVars, workerVars, boundVars
<1>15. CASE Resync
  BY <1>15 DEF Resync, TypeOK, labVars, lanVars, wlVars, workerVars, boundVars
<1>16. CASE LoadConfig
  BY <1>16 DEF LoadConfig, TypeOK, labVars, lanVars, wlVars, workerVars, boundVars
<1>17. CASE Crash
  <2>1. crashes' \in 0..MaxCrash
    BY <1>17, ConstantsAssumption DEF Crash, TypeOK
  <2>2. QED
    BY <1>17, <2>1, AnyLabType, NoObjectTypes, EmptyQueues DEF Crash, TypeOK
<1>18. ASSUME NEW l \in Labs, UserCreateLab(l) PROVE TypeOK'
  <2>1. [ph |-> "bare", uid |-> lab[l].uid + 1] \in LabObj
    BY <1>18, NewLabType
  <2>2. QED
    BY <1>18, <2>1, PutLabType DEF UserCreateLab, TypeOK, lanVars, wlVars, workerVars, boundVars
<1>19. ASSUME NEW l \in Labs, UserDeleteLab(l) PROVE TypeOK'
  <2>1. Deleted(lab[l]) \in LabObj
    BY LabRequests DEF TypeOK
  <2>2. QED
    BY <1>19, <2>1, PutLabType DEF UserDeleteLab, TypeOK, lanVars, wlVars, workerVars, boundVars
<1>20. ASSUME NEW n \in Lans, UserDeleteLan(n) PROVE TypeOK'
  <2>1. Deleted(lan[n]) \in LanObj
    BY LanRequests DEF TypeOK
  <2>2. evicts' \in 0..MaxEvict
    BY <1>20, ConstantsAssumption DEF UserDeleteLan, TypeOK
  <2>3. QED
    BY <1>20, <2>1, <2>2, PutLanType DEF UserDeleteLan, TypeOK, labVars, wlVars, workerVars
<1>21. ASSUME NEW l \in Labs, NEW m \in Nodes, LoseWorkload(l, m) PROVE TypeOK'
  <2>1. Deleted(wl[<<l, m>>]) \in WlObj
    BY WlRequests DEF TypeOK
  <2>2. evicts' \in 0..MaxEvict
    BY <1>21, ConstantsAssumption DEF LoseWorkload, TypeOK
  <2>3. QED
    BY <1>21, <2>1, <2>2, PutWlType DEF LoseWorkload, TypeOK, labVars, lanVars, workerVars
<1>22. ASSUME NEW n \in Lans, CollectLan(n) PROVE TypeOK'
  <2>1. Deleted(lan[n]) \in LanObj
    BY LanRequests DEF TypeOK
  <2>2. QED
    BY <1>22, <2>1, PutLanType DEF CollectLan, TypeOK, labVars, wlVars, workerVars, boundVars
<1>23. ASSUME NEW l \in Labs, NEW m \in Nodes, CollectWl(l, m) PROVE TypeOK'
  <2>1. Deleted(wl[<<l, m>>]) \in WlObj
    BY WlRequests DEF TypeOK
  <2>2. QED
    BY <1>23, <2>1, PutWlType DEF CollectWl, TypeOK, labVars, lanVars, workerVars, boundVars
<1>24. CASE UNCHANGED vars
  BY <1>24 DEF vars, labVars, lanVars, wlVars, workerVars, boundVars, TypeOK
<1>25. QED
  BY <1>1, <1>2, <1>3, <1>4, <1>5, <1>6, <1>7, <1>8, <1>9, <1>10, <1>11, <1>12, <1>13,
     <1>14, <1>15, <1>16, <1>17, <1>18, <1>19, <1>20, <1>21, <1>22, <1>23, <1>24
     DEF Next, Worker, Informers, Collector, Environment

\* The operator starts in a well-typed state.
LEMMA TypeInit == Init => TypeOK
  <1>1. 0 \in 0..MaxFail /\ 0 \in 0..MaxCrash /\ 0 \in 0..MaxEvict
    BY ConstantsAssumption
  <1>2. QED
    <2> SUFFICES ASSUME Init PROVE TypeOK
      OBVIOUS
    <2>1. /\ lab \in [Labs -> LabObj] /\ labC \in [Labs -> LabObj]
          /\ lan \in [Lans -> LanObj] /\ lanC \in [Lans -> LanObj]
          /\ wl \in [Labs \X Nodes -> WlObj] /\ wlC \in [Labs \X Nodes -> WlObj]
      BY NoObjectTypes DEF Init
    <2>2. /\ labQ \in [Labs -> Seq(LabObj)] /\ lanQ \in Seq([name : Lans, obj : LanObj])
          /\ wlQ \in [Labs \X Nodes -> Seq(WlObj)] /\ vnis \in Seq(0..MaxVNI)
      BY EmptyQueues DEF Init
    <2>3. QED
      BY <1>1, <2>1, <2>2, AnyLabType, NoObjectTypes DEF Init, TypeOK, Steps

\* Type correctness, for any number of Labs, links, nodes and failures.
THEOREM TypeCorrect == Spec => []TypeOK
  BY TypeInit, TypeStep, PTL DEF Spec


=============================================================================
