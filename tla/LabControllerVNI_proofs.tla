----------------------- MODULE LabControllerVNI_proofs -----------------------
(***************************************************************************)
(* Two LANs have one VNI only if a list of GetAvailableVNIs was without    *)
(* one of them: VNIInv is inductive.  The workloads of a Lab in service    *)
(* are on its own LANs, link by link, where the LAN name is not shared     *)
(* (and by the LAN's VNI, where no list was without the LAN): SpokeInv.    *)
(***************************************************************************)
EXTENDS LabControllerOrphan_proofs

LanEvent == [name : Lans, obj : LanObj]

\* The part of VNIInv beyond types and the replay of LAN events.
HandInv == VNIsInHand /\ BuiltOnVNIInHand /\ VNIUniqueIfListed

\* A write of a LAN adds one event, the last, and touches no other LAN.
LEMMA PutLanKeepsReplay ==
  ASSUME TypeOK, LanCacheReplays, NEW n \in Lans, NEW x \in LanObj, PutLan(n, x)
  PROVE  LanCacheReplays'
  <1> DEFINE e == [name |-> n, obj |-> x]
  <1>1. lanQ \in Seq(LanEvent) /\ e \in LanEvent /\ lanQ' = Append(lanQ, e)
    BY DEF TypeOK, PutLan, LanEvent
  <1>2. e.name = n /\ e.obj = x
    OBVIOUS
  <1> HIDE DEF e
  <1>3. /\ Len(lanQ) \in Nat /\ Len(lanQ') = Len(lanQ) + 1
        /\ \A i \in 1..Len(lanQ) : lanQ'[i] = lanQ[i]
        /\ lanQ'[Len(lanQ) + 1] = e
    BY <1>1, AppendFacts
  <1>4. lan'[n] = x /\ lanC' = lanC /\ \A m \in Lans \ {n} : lan'[m] = lan[m]
    BY DEF PutLan, TypeOK
  <1>5. \A i \in 1..Len(lanQ) : lanQ[i].name \in Lans
    <2> TAKE i \in 1..Len(lanQ)
    <2>1. lanQ[i] \in LanEvent
      BY <1>1, ElementType
    <2>2. QED
      BY <2>1 DEF LanEvent
  <1>6. ASSUME NEW m \in Lans, \A i \in 1..Len(lanQ') : lanQ'[i].name # m
        PROVE  lanC'[m] = lan'[m]
    <2>1. m # n
      BY <1>2, <1>3, <1>6
    <2>2. \A i \in 1..Len(lanQ) : lanQ[i].name # m
      BY <1>3, <1>6
    <2>3. QED
      BY <1>4, <2>1, <2>2 DEF LanCacheReplays
  <1>7. ASSUME NEW i \in 1..Len(lanQ'),
               \A j \in 1..Len(lanQ') : i < j => lanQ'[j].name # lanQ'[i].name
        PROVE  lanQ'[i].obj = lan'[lanQ'[i].name]
    <2>1. CASE i = Len(lanQ) + 1
      BY <1>2, <1>3, <1>4, <2>1
    <2>2. CASE i \in 1..Len(lanQ)
      <3>1. lanQ'[i] = lanQ[i] /\ lanQ[i].name # n
        BY <1>2, <1>3, <1>7, <2>2
      <3>2. \A j \in 1..Len(lanQ) : i < j => lanQ[j].name # lanQ[i].name
        BY <1>3, <1>7, <2>2
      <3>3. QED
        BY <1>4, <1>5, <2>2, <3>1, <3>2 DEF LanCacheReplays
    <2>3. QED
      BY <1>3, <2>1, <2>2
  <1>8. QED
    BY <1>6, <1>7 DEF LanCacheReplays

\* Delivering the first LAN event keeps cache and pending events adding up.
LEMMA DeliverLanKeepsReplay ==
  ASSUME TypeOK, LanCacheReplays, DeliverLan
  PROVE  LanCacheReplays'
  <1> DEFINE e == lanQ[1]
  <1>1. lanQ \in Seq(LanEvent) /\ lanQ # <<>>
    BY DEF TypeOK, DeliverLan, LanEvent
  <1>2. /\ Head(lanQ) = e /\ e \in LanEvent /\ Len(lanQ) \in Nat /\ Len(lanQ) >= 1
        /\ Len(Tail(lanQ)) = Len(lanQ) - 1
        /\ \A i \in 1..Len(lanQ) - 1 : Tail(lanQ)[i] = lanQ[i + 1]
    BY <1>1, TailFacts
  <1>3. /\ lanQ' = Tail(lanQ) /\ lan' = lan
        /\ lanC'[e.name] = e.obj
        /\ \A m \in Lans \ {e.name} : lanC'[m] = lanC[m]
    BY <1>2 DEF DeliverLan, TypeOK, LanEvent
  <1> HIDE DEF e
  <1>4. ASSUME NEW m \in Lans, \A i \in 1..Len(lanQ') : lanQ'[i].name # m
        PROVE  lanC'[m] = lan'[m]
    <2>1. \A i \in 2..Len(lanQ) : lanQ[i].name # m
      <3> TAKE i \in 2..Len(lanQ)
      <3>1. i - 1 \in 1..Len(lanQ') /\ lanQ'[i - 1] = lanQ[i]
        BY <1>2, <1>3
      <3>2. QED
        BY <1>4, <3>1
    <2>2. CASE m = e.name
      <3>1. 1 \in 1..Len(lanQ) /\ \A j \in 1..Len(lanQ) : 1 < j => j \in 2..Len(lanQ)
        BY <1>2
      <3>2. \A j \in 1..Len(lanQ) : 1 < j => lanQ[j].name # lanQ[1].name
        BY <2>1, <2>2, <3>1 DEF e
      <3>3. lanQ[1].obj = lan[lanQ[1].name]
        BY <3>1, <3>2 DEF LanCacheReplays
      <3>4. QED
        BY <1>3, <2>2, <3>3 DEF e
    <2>3. CASE m # e.name
      <3>1. \A i \in 1..Len(lanQ) : i = 1 \/ i \in 2..Len(lanQ)
        BY <1>2
      <3>2. \A i \in 1..Len(lanQ) : lanQ[i].name # m
        BY <2>1, <2>3, <3>1 DEF e
      <3>3. QED
        BY <1>3, <2>3, <3>2 DEF LanCacheReplays
    <2>4. QED
      BY <2>2, <2>3
  <1>5. ASSUME NEW i \in 1..Len(lanQ'),
               \A j \in 1..Len(lanQ') : i < j => lanQ'[j].name # lanQ'[i].name
        PROVE  lanQ'[i].obj = lan'[lanQ'[i].name]
    <2>1. i + 1 \in 1..Len(lanQ) /\ lanQ'[i] = lanQ[i + 1]
      BY <1>2, <1>3
    <2>2. ASSUME NEW j \in 1..Len(lanQ), i + 1 < j PROVE lanQ[j].name # lanQ[i + 1].name
      <3>1. j - 1 \in 1..Len(lanQ') /\ i < j - 1 /\ lanQ'[j - 1] = lanQ[j]
        BY <1>2, <1>3, <2>2
      <3>2. QED
        BY <1>5, <2>1, <3>1
    <2>3. QED
      BY <1>3, <2>1, <2>2 DEF LanCacheReplays
  <1>6. QED
    BY <1>4, <1>5 DEF LanCacheReplays

\* Only PutLan, DeliverLan and a restart touch the LANs and their cache.
LEMMA ReplayStep ==
  ASSUME TypeOK, LanCacheReplays, [Next]_vars
  PROVE  LanCacheReplays'
<1>1. CASE UNCHANGED lanVars
  BY <1>1 DEF lanVars, LanCacheReplays
<1>2. CASE DeliverLan
  BY <1>2, DeliverLanKeepsReplay
<1>3. CASE Crash
  <2>1. lan' = lan /\ lanC' = lan /\ lanQ' = <<>>
    BY <1>3 DEF Crash
  <2>2. QED
    BY <2>1 DEF LanCacheReplays
<1>4. ASSUME NEW n \in Lans, UserDeleteLan(n) \/ CollectLan(n) PROVE LanCacheReplays'
  <2>1. lan[n] \in LanObj /\ PutLan(n, Deleted(lan[n]))
    BY <1>4 DEF UserDeleteLan, CollectLan, TypeOK
  <2>2. QED
    BY <2>1, LanRequests, PutLanKeepsReplay
<1>5. ASSUME CreateLan,
             PutLan(lanName, [ph |-> "held", owner |-> <<cur, copy.uid>>, vni |-> spokes[link]])
      PROVE  LanCacheReplays'
  <2>1. link \in Links /\ lanName \in Lans
    BY <1>5, CurrentLink DEF CreateLan
  <2>2. [ph |-> "held", owner |-> <<cur, copy.uid>>, vni |-> spokes[link]] \in LanObj
    BY <2>1, OwnUid DEF TypeOK, LanObj, Phase
  <2>3. QED
    BY <1>5, <2>1, <2>2, PutLanKeepsReplay
<1>6. ASSUME NEW k \in Links, StripLan(k),
             PutLan(Getk8lanName(cur, k), WithoutFinalizer(lan[Getk8lanName(cur, k)]))
      PROVE  LanCacheReplays'
  <2>1. Getk8lanName(cur, k) \in Lans
    BY <1>6, LanNames DEF StripLan, TypeOK
  <2>2. WithoutFinalizer(lan[Getk8lanName(cur, k)]) \in LanObj
    BY <2>1, LanRequests DEF TypeOK
  <2>3. QED
    BY <1>6, <2>1, <2>2, PutLanKeepsReplay
<1>7. CASE CreateLan
  BY <1>1, <1>5, <1>7 DEF CreateLan, LanFound
<1>8. ASSUME NEW k \in Links, StripLan(k) PROVE LanCacheReplays'
  BY <1>1, <1>6, <1>8 DEF StripLan
<1>9. CASE CheckLan
  BY <1>1, <1>9 DEF CheckLan, LanFound
<1>10. \/ UNCHANGED lanVars \/ DeliverLan \/ Crash \/ CreateLan \/ CheckLan
       \/ \E n \in Lans : UserDeleteLan(n) \/ CollectLan(n)
       \/ \E k \in Links : StripLan(k)
  BY DEF Next, Worker, Informers, Collector, Environment, StartReconcile, AddFinalizer,
     GetAvailableVNIs, GetLan, EnsureNode, EndReconcile,
     RemoveFinalizer, DeliverLab, DeliverWl, CollectWl, LoadConfig, ApiError,
     Resync, UserCreateLab, UserDeleteLab, LoseWorkload, vars
<1>11. QED
  BY <1>1, <1>2, <1>3, <1>4, <1>7, <1>8, <1>9, <1>10

-----------------------------------------------------------------------------
\* Leaving the loop of EnsureLinks drops the VNIs in hand.
LEMMA LeavesLoop ==
  ASSUME HandInv, pc' \notin {"get", "create", "check"}, UNCHANGED lan,
         unlisted \subseteq unlisted'
  PROVE  HandInv'
  BY DEF HandInv, VNIsInHand, BuiltOnVNIInHand, VNIUniqueIfListed, SameVNI

\* A LAN is replaced by one with the same VNI, or removed.
LEMMA LanKeepsVNI ==
  ASSUME TypeOK, HandInv, NEW n \in Lans, NEW x \in LanObj, PutLan(n, x),
         Exists(x) => Exists(lan[n]), x.vni = lan[n].vni, UNCHANGED unlisted,
         \/ UNCHANGED <<pc, cur, vnis, idx, spokes>>
         \/ pc' \notin {"get", "create", "check"}
  PROVE  HandInv'
  <1>1. \A m \in Lans : Exists(lan'[m]) => Exists(lan[m]) /\ lan'[m].vni = lan[m].vni
    <2>1. lan'[n] = x /\ \A m \in Lans \ {n} : lan'[m] = lan[m]
      BY DEF PutLan, TypeOK
    <2>2. QED
      BY <2>1
  <1>2. VNIUniqueIfListed'
    BY <1>1 DEF HandInv, VNIUniqueIfListed, SameVNI
  <1>3. VNIsInHand'
    BY <1>1 DEF HandInv, VNIsInHand
  <1>4. BuiltOnVNIInHand'
    BY DEF HandInv, BuiltOnVNIInHand, link
  <1>5. QED
    BY <1>2, <1>3, <1>4 DEF HandInv

\* Nothing that HandInv depends on changes.
LEMMA HandFrame ==
  ASSUME HandInv, UNCHANGED <<lan, unlisted, pc, cur, vnis, idx, spokes>>
  PROVE  HandInv'
  BY DEF HandInv, VNIsInHand, BuiltOnVNIInHand, VNIUniqueIfListed, SameVNI, link

\* The loop of EnsureLinks goes on without having created a LAN.
LEMMA LanFoundKeepsHand ==
  ASSUME TypeOK, HandInv, pc \in {"create", "check"}, LanFound, UNCHANGED unlisted
  PROVE  HandInv'
  <1>1. UNCHANGED lan
    BY DEF LanFound, lanVars
  <1>2. CASE Return(FALSE)
    BY <1>1, <1>2, LeavesLoop DEF Return
  <1>3. CASE NextLink
    <2>1. CASE pc' = "node"
      BY <1>1, <2>1, LeavesLoop
    <2>2. CASE idx' = idx + 1 /\ pc' = "get" /\ UNCHANGED <<vnis, cur, spokes>>
      <3>1. idx \in Nat /\ Len(vnis) \in Nat /\ \A i \in idx + 1..Len(vnis) : i \in idx..Len(vnis)
        BY DEF TypeOK
      <3>2. VNIsInHand'
        BY <1>1, <2>2, <3>1 DEF HandInv, VNIsInHand
      <3>3. QED
        BY <1>1, <2>2, <3>2 DEF HandInv, BuiltOnVNIInHand, VNIUniqueIfListed, SameVNI
    <2>3. QED
      BY <1>3, <2>1, <2>2 DEF NextLink, Goto
  <1>4. QED
    BY <1>2, <1>3 DEF LanFound

\* Every step keeps the VNIs of the LANs that no list was without distinct.
LEMMA HandStep ==
  ASSUME TypeOK, HandInv, [Next]_vars
  PROVE  HandInv'
<1>1. CASE GetAvailableVNIs
  <2>1. lan' = lan /\ unlisted' = unlisted \cup {n \in Lans : ~Listed(n)}
    BY <1>1 DEF GetAvailableVNIs, lanVars
  <2>2. CASE Return(FALSE)
    BY <2>1, <2>2, LeavesLoop DEF Return
  <2>3. ASSUME NEW s \in [1..Len(LinkList[cur]) -> 1..MaxVNI - 1], FirstFree(s, UsedVNIs),
               vnis' = s, idx' = 1,
               Goto(IF Len(LinkList[cur]) = 0 THEN "node" ELSE "get")
        PROVE  HandInv'
    <3>1. \A n \in Lans \ unlisted' : Exists(lan[n]) =>
            Exists(lanC[n]) /\ lanC[n].vni = lan[n].vni
      BY <2>1 DEF Listed, LanViews
    <3>2. \A n \in Lans \ unlisted' : Exists(lan[n]) => lan[n].vni \in UsedVNIs
      BY <3>1 DEF UsedVNIs
    <3>3. Len(LinkList[cur]) \in Nat
      BY ConstantsAssumption DEF TypeOK
    <3>4. DOMAIN s = 1..Len(LinkList[cur]) /\ Len(s) = Len(LinkList[cur])
      BY <3>3, FunctionIsSeq
    <3>5. /\ \A i \in 1..Len(s) : s[i] \notin UsedVNIs
          /\ \A i, j \in 1..Len(s) : i < j => s[i] < s[j]
      BY <2>3, <3>4 DEF FirstFree
    <3>6. VNIsInHand'
      BY <2>1, <2>3, <3>2, <3>5 DEF VNIsInHand
    <3>7. pc' # "create"
      BY <2>3 DEF Goto
    <3>8. QED
      BY <2>1, <3>6, <3>7 DEF HandInv, BuiltOnVNIInHand, VNIUniqueIfListed, SameVNI
  <2>4. QED
    BY <1>1, <2>2, <2>3 DEF GetAvailableVNIs
<1>2. CASE GetLan
  <2>1. pc = "get" /\ UNCHANGED <<lan, unlisted>> /\ link \in Links
    BY <1>2, CurrentLink DEF GetLan, lanVars
  <2>2. CASE Return(TRUE)
    BY <2>1, <2>2, LeavesLoop DEF Return
  <2>3. ASSUME NEW v, spokes' = [spokes EXCEPT ![link] = v], UNCHANGED <<cur, vnis, idx>>,
               pc' = "check" \/ (pc' = "create" /\ v = vnis[idx])
        PROVE  HandInv'
    <3>1. VNIsInHand' /\ VNIUniqueIfListed'
      BY <2>1, <2>3 DEF HandInv, VNIsInHand, VNIUniqueIfListed, SameVNI
    <3>2. spokes'[link] = v /\ link' = link
      BY <2>1, <2>3 DEF TypeOK, link
    <3>3. BuiltOnVNIInHand'
      BY <2>3, <3>2 DEF BuiltOnVNIInHand
    <3>4. QED
      BY <3>1, <3>3 DEF HandInv
  <2>4. QED
    BY <1>2, <2>2, <2>3 DEF GetLan, Goto
<1>3. CASE CreateLan
  <2>1. pc = "create" /\ link \in Links /\ lanName \in Lans
    BY <1>3, CurrentLink DEF CreateLan
  <2>2. CASE LanFound /\ UNCHANGED unlisted
    BY <2>1, <2>2, LanFoundKeepsHand
  <2>3. CASE Return(FALSE) /\ UNCHANGED <<lanVars, unlisted>>
    BY <2>3, LeavesLoop DEF Return, lanVars
  <2>4. CASE /\ unlisted' = unlisted \ {lanName}
             /\ PutLan(lanName, [ph |-> "held", owner |-> <<cur, copy.uid>>,
                                 vni |-> spokes[link]])
             /\ NextLink
    <3>1. lan'[lanName].vni = vnis[idx] /\ \A m \in Lans \ {lanName} : lan'[m] = lan[m]
      BY <2>1, <2>4 DEF PutLan, TypeOK, HandInv, BuiltOnVNIInHand
    <3>2. idx \in 1..Len(vnis) /\ Len(vnis) \in Nat /\ vnis \in Seq(0..MaxVNI)
      BY <2>1 DEF TypeOK
    <3>3. \A m \in Lans \ unlisted : Exists(lan[m]) => lan[m].vni # vnis[idx]
      BY <2>1, <3>2 DEF HandInv, VNIsInHand
    <3>4. VNIUniqueIfListed'
      <4>1. \A m \in Lans \ unlisted' : m = lanName \/ (m \in Lans \ unlisted /\ lan'[m] = lan[m])
        BY <2>4, <3>1
      <4>2. QED
        BY <3>1, <3>3, <4>1 DEF HandInv, VNIUniqueIfListed, SameVNI
    <3>5. vnis' = vnis /\ pc' \in {"get", "node"} /\ (pc' = "get" => idx' = idx + 1)
      BY <2>4 DEF NextLink, Goto
    <3>6. ASSUME pc' = "get", NEW i \in idx + 1..Len(vnis), NEW m \in Lans \ unlisted',
                 Exists(lan'[m])
          PROVE  lan'[m].vni # vnis[i]
      <4>1. i \in 1..Len(vnis) /\ idx < i /\ i \in idx..Len(vnis)
        BY <3>2
      <4>2. CASE m = lanName
        <5>1. vnis[idx] < vnis[i]
          BY <2>1, <3>2, <4>1 DEF HandInv, VNIsInHand
        <5>2. vnis[idx] \in 0..MaxVNI /\ vnis[i] \in 0..MaxVNI
          BY <3>2, <4>1, ElementType
        <5>3. QED
          BY <3>1, <4>2, <5>1, <5>2, ConstantsAssumption
      <4>3. CASE m # lanName
        <5>1. m \in Lans \ unlisted /\ lan'[m] = lan[m]
          BY <2>4, <3>1, <4>3
        <5>2. QED
          BY <2>1, <3>6, <4>1, <5>1 DEF HandInv, VNIsInHand
      <4>4. QED
        BY <4>2, <4>3
    <3>7. VNIsInHand'
      BY <2>1, <3>5, <3>6 DEF HandInv, VNIsInHand
    <3>8. QED
      BY <3>4, <3>5, <3>7 DEF HandInv, BuiltOnVNIInHand
  <2>5. QED
    BY <1>3, <2>2, <2>3, <2>4 DEF CreateLan
<1>4. CASE CheckLan
  <2>1. CASE LanFound
    BY <1>4, <2>1, LanFoundKeepsHand DEF CheckLan
  <2>2. CASE Return(FALSE) /\ UNCHANGED lanVars
    BY <1>4, <2>2, LeavesLoop DEF CheckLan, Return, lanVars
  <2>3. QED
    BY <1>4, <2>1, <2>2 DEF CheckLan
<1>5. ASSUME NEW k \in Links, StripLan(k) PROVE HandInv'
  <2> DEFINE n == Getk8lanName(cur, k)
  <2>1. /\ n \in Lans /\ lan[n] \in LanObj /\ pc' \in {"strip", "idle"}
        /\ UNCHANGED unlisted
    <3>1. n \in Lans
      BY <1>5, LanNames DEF StripLan, TypeOK
    <3>2. pc' \in {"strip", "idle"}
      BY <1>5 DEF StripLan, Goto, Return
    <3>3. QED
      BY <1>5, <3>1, <3>2 DEF TypeOK, StripLan
  <2>2. CASE UNCHANGED lanVars
    BY <2>1, <2>2, LeavesLoop DEF lanVars
  <2>3. CASE PutLan(n, WithoutFinalizer(lan[n]))
    BY <2>1, <2>3, LanRequests, LanKeepsVNI
  <2>4. QED
    BY <1>5, <2>2, <2>3 DEF StripLan
<1>6. ASSUME NEW n \in Lans, UserDeleteLan(n) \/ CollectLan(n) PROVE HandInv'
  <2>1. /\ lan[n] \in LanObj /\ PutLan(n, Deleted(lan[n]))
        /\ UNCHANGED <<unlisted, pc, cur, vnis, idx, spokes>>
    BY <1>6 DEF UserDeleteLan, CollectLan, TypeOK, workerVars
  <2>2. QED
    BY <2>1, LanRequests, LanKeepsVNI
<1>7. ASSUME NEW l \in Labs, StartReconcile(l) PROVE HandInv'
  <2>1. pc' \in {"idle", "addFinalizer", "list", "strip"} /\ UNCHANGED <<lan, unlisted>>
    BY <1>7 DEF StartReconcile, lanVars, TypeOK, LabObj, Phase, Exists
  <2>2. QED
    BY <2>1, LeavesLoop
<1>8. CASE AddFinalizer \/ EndReconcile \/ RemoveFinalizer \/ ApiError \/ Crash
  <2>1. pc' \in {"idle", "list"} /\ UNCHANGED <<lan, unlisted>>
    BY <1>8 DEF AddFinalizer, EndReconcile, RemoveFinalizer, ApiError, Crash, Return, lanVars
  <2>2. QED
    BY <2>1, LeavesLoop
<1>9. ASSUME NEW m \in Nodes, EnsureNode(m) PROVE HandInv'
  <2>1. pc' \in {"idle", "node"} /\ UNCHANGED <<lan, unlisted>>
    BY <1>9 DEF EnsureNode, Return, Goto, lanVars
  <2>2. QED
    BY <2>1, LeavesLoop
<1>10. CASE UNCHANGED <<lan, unlisted, workerVars>>
  BY <1>10, HandFrame DEF workerVars
<1>11. \/ GetAvailableVNIs \/ GetLan \/ CreateLan \/ CheckLan
       \/ \E k \in Links : StripLan(k)
       \/ \E n \in Lans : UserDeleteLan(n) \/ CollectLan(n)
       \/ \E l \in Labs : StartReconcile(l)
       \/ AddFinalizer \/ EndReconcile \/ RemoveFinalizer \/ ApiError \/ Crash
       \/ \E m \in Nodes : EnsureNode(m)
       \/ UNCHANGED <<lan, unlisted, workerVars>>
  BY DEF Next, Worker, Informers, Collector, Environment, DeliverLab, DeliverLan, DeliverWl,
     CollectWl, LoadConfig, Resync, UserCreateLab, UserDeleteLab, LoseWorkload, vars, lanVars
<1>12. QED
  BY <1>1, <1>2, <1>3, <1>4, <1>5, <1>6, <1>7, <1>8, <1>9, <1>10, <1>11

\* Initially there is no LAN and no VNI in hand.
LEMMA VNIInit == Init => VNIInv
  <1>1. Init => LanCacheReplays
    BY DEF Init, LanCacheReplays
  <1>2. Init => VNIsInHand /\ BuiltOnVNIInHand
    BY DEF Init, VNIsInHand, BuiltOnVNIInHand
  <1>3. Init => VNIUniqueIfListed
    BY DEF Init, VNIUniqueIfListed, SameVNI, NoLan, Exists
  <1>4. QED
    BY <1>1, <1>2, <1>3, TypeInit DEF VNIInv

\* The VNIs that the worker has in hand are used by no LAN, but for one that a
\* list of GetAvailableVNIs was without, until it has given them away, although
\* in between users delete LANs, the garbage collector takes them away and the
\* caches lag behind.
THEOREM VNIInvariant == Spec => []VNIInv
  <1>1. VNIInv /\ [Next]_vars => VNIInv'
    BY TypeStep, ReplayStep, HandStep DEF VNIInv, HandInv
  <1>2. QED
    BY VNIInit, <1>1, PTL DEF Spec

\* Two LANs have the same VNI only if a list of GetAvailableVNIs was without one
\* of them while it was stored: for any number of Labs and links, whatever else
\* the caches lag behind in, and over any crash.  The stale list is the only
\* way to a double VNI.
THEOREM VNIUniqueIfListedTheorem == Spec => []VNIUniqueIfListed
  <1>1. VNIInv => VNIUniqueIfListed
    BY DEF VNIInv
  <1>2. QED
    BY VNIInvariant, <1>1, PTL

-----------------------------------------------------------------------------
(* Whose LANs the workloads are on *)

\* The Lab that an object was made for is stored and not being deleted.
Serving(obj) ==
  lab[obj.owner[1]].ph = "held" /\ lab[obj.owner[1]].uid = obj.owner[2]

\* The object was not made for a Lab that is still without its finalizer.
Former(obj) ==
  /\ obj.owner[2] <= lab[obj.owner[1]].uid
  /\ lab[obj.owner[1]].ph = "bare" => obj.owner[2] # lab[obj.owner[1]].uid

\* The finalizer comes first: a Lab without one has neither LANs nor workloads.
FinalizerFirst ==
  /\ \A n \in Lans : \A v \in LanViews(n) : Exists(v) => Former(v)
  /\ \A l \in Labs, m \in Nodes : Exists(wl[<<l, m>>]) => Former(wl[<<l, m>>])

\* A LAN seen of a Lab in service is still there, with the VNI seen.
LanStays ==
  \A n \in Lans : Unshared(n) =>
    \A v \in LanViews(n) : Exists(v) /\ Serving(v) =>
      HasFinalizer(lan[n]) /\ lan[n].owner = v.owner /\ lan[n].vni = v.vni

\* The LANs that the loop of EnsureLinks has yet to get have not been replaced
\* since GetAvailableVNIs listed them.
Ahead ==
  pc \in {"get", "create", "check"} =>
    \A i \in idx..Len(LinkList[cur]) :
      LET n == Getk8lanName(cur, LinkList[cur][i]) IN
      Unshared(n) /\ n \notin unlisted => Listed(n)

\* What the first Get of the loop body said is true at the second.
AtLink ==
  pc \in {"create", "check"} /\ Unshared(lanName) /\ lanName \notin unlisted =>
    /\ pc = "create" => ~Exists(lan[lanName])
    /\ pc = "check" /\ Exists(lan[lanName]) => lan[lanName].vni = spokes[link]

\* If link k of the Lab has a LAN name of its own, its LAN is among the LANs f,
\* and unless a list was without it (un) the spokes sp lead to it.
OnLan(f, un, l, uid, sp, k) ==
  LET n == Getk8lanName(l, k) IN
  Unshared(n) => /\ HasFinalizer(f[n]) /\ f[n].owner = <<l, uid>>
                 /\ n \notin un => f[n].vni = sp[k]

Served(l, uid, sp, k) == OnLan(lan, unlisted, l, uid, sp, k)

\* As long as its Lab is not deleted, SpokeMap is right for the links done.
Behind ==
  lab[cur].ph = "held" =>
    /\ pc \in {"get", "create", "check"} =>
         \A i \in 1..idx - 1 : Served(cur, copy.uid, spokes, LinkList[cur][i])
    /\ pc = "node" =>
         \A i \in 1..Len(LinkList[cur]) : Served(cur, copy.uid, spokes, LinkList[cur][i])

\* The workloads of a Lab in service are on LANs that will stay.
Attached ==
  \A l \in Labs, m \in Nodes :
    Exists(wl[<<l, m>>]) /\ lab[l].ph = "held" /\ wl[<<l, m>>].owner = <<l, lab[l].uid>> =>
      \A i \in 1..Len(LinkList[l]) : Served(l, lab[l].uid, wl[<<l, m>>].spokes, LinkList[l][i])

SpokeInv == FinalizerFirst /\ LanStays /\ Ahead /\ AtLink /\ Behind /\ Attached

\* A write of a LAN adds one view of it.
LEMMA PutLanViews ==
  ASSUME TypeOK, NEW n \in Lans, NEW x \in LanObj, PutLan(n, x)
  PROVE  /\ lan'[n] = x /\ \A m \in Lans \ {n} : lan'[m] = lan[m]
         /\ LanViews(n)' \subseteq LanViews(n) \cup {x}
         /\ \A m \in Lans \ {n} : LanViews(m)' \subseteq LanViews(m)
  <1> DEFINE e == [name |-> n, obj |-> x]
  <1>1. lanQ \in Seq(LanEvent) /\ e \in LanEvent /\ lanQ' = Append(lanQ, e)
    BY DEF TypeOK, PutLan, LanEvent
  <1>2. e.name = n /\ e.obj = x
    OBVIOUS
  <1> HIDE DEF e
  <1>3. /\ Len(lanQ) \in Nat /\ Len(lanQ') = Len(lanQ) + 1
        /\ \A i \in 1..Len(lanQ) : lanQ'[i] = lanQ[i]
        /\ lanQ'[Len(lanQ) + 1] = e
    BY <1>1, AppendFacts
  <1>4. lan'[n] = x /\ lanC' = lanC /\ \A m \in Lans \ {n} : lan'[m] = lan[m]
    BY DEF PutLan, TypeOK
  <1>5. ASSUME NEW m \in Lans, NEW i \in 1..Len(lanQ'), lanQ'[i].name = m
        PROVE  lanQ'[i].obj \in LanViews(m) \/ (m = n /\ lanQ'[i].obj = x)
    <2>1. CASE i \in 1..Len(lanQ)
      BY <1>3, <1>5, <2>1 DEF LanViews
    <2>2. CASE i = Len(lanQ) + 1
      BY <1>2, <1>3, <1>5, <2>2
    <2>3. QED
      BY <1>3, <2>1, <2>2
  <1>6. \A m \in Lans : lanC'[m] \in LanViews(m) /\ (m # n => lan'[m] \in LanViews(m))
    BY <1>4 DEF LanViews
  <1>7. \A m \in Lans : \A v \in LanViews(m)' : v \in LanViews(m) \/ (m = n /\ v = x)
    BY <1>4, <1>5, <1>6 DEF LanViews
  <1>8. QED
    BY <1>4, <1>7

\* An event that arrives was a view already.
LEMMA DeliverLanViews ==
  ASSUME TypeOK, DeliverLan
  PROVE  lan' = lan /\ \A m \in Lans : LanViews(m)' \subseteq LanViews(m)
  <1> DEFINE e == lanQ[1]
  <1>1. lanQ \in Seq(LanEvent) /\ lanQ # <<>>
    BY DEF TypeOK, DeliverLan, LanEvent
  <1>2. /\ Head(lanQ) = e /\ e \in LanEvent /\ Len(lanQ) \in Nat /\ Len(lanQ) >= 1
        /\ Len(Tail(lanQ)) = Len(lanQ) - 1
        /\ \A i \in 1..Len(lanQ) - 1 : Tail(lanQ)[i] = lanQ[i + 1]
    BY <1>1, TailFacts
  <1>3. /\ lanQ' = Tail(lanQ) /\ lan' = lan
        /\ lanC'[e.name] = e.obj
        /\ \A m \in Lans \ {e.name} : lanC'[m] = lanC[m]
    BY <1>2 DEF DeliverLan, TypeOK, LanEvent
  <1>4. ASSUME NEW m \in Lans, NEW i \in 1..Len(lanQ'), lanQ'[i].name = m
        PROVE  lanQ'[i].obj \in LanViews(m)
    <2>1. i + 1 \in 1..Len(lanQ) /\ lanQ'[i] = lanQ[i + 1]
      BY <1>2, <1>3
    <2>2. QED
      BY <1>4, <2>1 DEF LanViews
  <1>5. ASSUME NEW m \in Lans PROVE lanC'[m] \in LanViews(m)
    <2>1. CASE m = e.name
      <3>1. 1 \in 1..Len(lanQ) /\ lanQ[1].name = m /\ lanC'[m] = lanQ[1].obj
        BY <1>2, <1>3, <2>1
      <3>2. QED
        BY <3>1 DEF LanViews
    <2>2. CASE m # e.name
      BY <1>3, <2>2 DEF LanViews
    <2>3. QED
      BY <2>1, <2>2
  <1> HIDE DEF e
  <1>6. \A m \in Lans : \A v \in LanViews(m)' : v \in LanViews(m)
    BY <1>3, <1>4, <1>5 DEF LanViews
  <1>7. QED
    BY <1>3, <1>6

\* What is written to a LAN: the worker creates one that does not exist, or
\* one that exists is deleted or loses its finalizer.
LEMMA LanWrites ==
  ASSUME TypeOK, [Next]_vars
  PROVE  \/ lan' = lan /\ \A m \in Lans : LanViews(m)' \subseteq LanViews(m)
         \/ \E n \in Lans : \E x \in LanObj :
              /\ PutLan(n, x) /\ Exists(lan[n]) /\ x.owner = lan[n].owner /\ x.vni = lan[n].vni
              /\ UNCHANGED labVars
         \/ /\ pc = "create" /\ ~Exists(lan[lanName]) /\ NextLink /\ UNCHANGED labVars
            /\ PutLan(lanName, [ph |-> "held", owner |-> <<cur, copy.uid>>,
                                vni |-> spokes[link]])
<1>1. CASE UNCHANGED lanVars
  BY <1>1 DEF lanVars, LanViews
<1>2. CASE DeliverLan
  BY <1>2, DeliverLanViews
<1>3. CASE Crash
  <2>1. lan' = lan /\ lanC' = lan /\ lanQ' = <<>>
    BY <1>3 DEF Crash
  <2>2. \A m \in Lans : LanViews(m)' \subseteq LanViews(m)
    BY <2>1 DEF LanViews
  <2>3. QED
    BY <2>1, <2>2
<1>4. ASSUME NEW n \in Lans, UserDeleteLan(n) \/ CollectLan(n)
      PROVE  \E x \in LanObj :
               /\ PutLan(n, x) /\ Exists(lan[n]) /\ x.owner = lan[n].owner /\ x.vni = lan[n].vni
               /\ UNCHANGED labVars
  <2>1. /\ lan[n] \in LanObj /\ PutLan(n, Deleted(lan[n])) /\ Exists(lan[n])
        /\ UNCHANGED labVars
    BY <1>4 DEF UserDeleteLan, CollectLan, TypeOK, Exists
  <2>2. QED
    BY <2>1, LanRequests
<1>5. ASSUME NEW k \in Links, StripLan(k), ~UNCHANGED lanVars
      PROVE  \E n \in Lans : \E x \in LanObj :
               /\ PutLan(n, x) /\ Exists(lan[n]) /\ x.owner = lan[n].owner /\ x.vni = lan[n].vni
               /\ UNCHANGED labVars
  <2> DEFINE n == Getk8lanName(cur, k)
  <2>1. n \in Lans
    BY <1>5, LanNames DEF StripLan, TypeOK
  <2>2. PutLan(n, WithoutFinalizer(lan[n])) /\ Exists(lan[n]) /\ UNCHANGED labVars
    BY <1>5 DEF StripLan
  <2>3. lan[n] \in LanObj
    BY <2>1 DEF TypeOK
  <2>4. QED
    BY <2>1, <2>2, <2>3, LanRequests
<1>6. ASSUME CreateLan, ~UNCHANGED lanVars
      PROVE  /\ pc = "create" /\ ~Exists(lan[lanName]) /\ NextLink /\ UNCHANGED labVars
             /\ PutLan(lanName, [ph |-> "held", owner |-> <<cur, copy.uid>>,
                                 vni |-> spokes[link]])
  BY <1>6 DEF CreateLan, LanFound
<1>7. \/ UNCHANGED lanVars \/ DeliverLan \/ Crash \/ CreateLan
      \/ \E n \in Lans : UserDeleteLan(n) \/ CollectLan(n)
      \/ \E k \in Links : StripLan(k)
  BY DEF Next, Worker, Informers, Collector, Environment, StartReconcile, AddFinalizer,
     GetAvailableVNIs, GetLan, EnsureNode, EndReconcile, CheckLan, LanFound,
     RemoveFinalizer, DeliverLab, DeliverWl, CollectWl, LoadConfig, ApiError,
     Resync, UserCreateLab, UserDeleteLab, LoseWorkload, vars
<1>8. QED
  BY <1>1, <1>2, <1>3, <1>4, <1>5, <1>6, <1>7

\* The owner of a LAN seen, or of a workload, is a UID.
LEMMA OwnerTypes ==
  ASSUME TypeOK
  PROVE  /\ \A n \in Lans : \A v \in LanViews(n) :
              v \in LanObj /\ v.owner[1] \in Labs /\ v.owner[2] \in Nat
         /\ \A l \in Labs, m \in Nodes :
              wl[<<l, m>>] \in WlObj /\ wl[<<l, m>>].owner[1] \in Labs
              /\ wl[<<l, m>>].owner[2] \in Nat
  <1>1. \A u \in Uids : u[1] \in Labs /\ u[2] \in Nat
    BY ConstantsAssumption DEF Uids
  <1>2. ASSUME NEW n \in Lans, NEW v \in LanViews(n) PROVE v \in LanObj
    <2>1. lanQ \in Seq(LanEvent) /\ lan[n] \in LanObj /\ lanC[n] \in LanObj
      BY DEF TypeOK, LanEvent
    <2>2. \A i \in 1..Len(lanQ) : lanQ[i] \in LanEvent
      BY <2>1, ElementType
    <2>3. \A i \in 1..Len(lanQ) : lanQ[i].obj \in LanObj
      BY <2>2 DEF LanEvent
    <2>4. QED
      BY <2>1, <2>3 DEF LanViews
  <1>3. \A v \in LanObj : v.owner \in Uids
    BY DEF LanObj
  <1>4. \A v \in WlObj : v.owner \in Uids
    BY DEF WlObj
  <1>5. \A l \in Labs, m \in Nodes : wl[<<l, m>>] \in WlObj
    BY DEF TypeOK
  <1>6. QED
    BY <1>1, <1>2, <1>3, <1>4, <1>5

\* A Lab enters service with its finalizer, which its objects come after.
LEMMA ServiceStep ==
  ASSUME OrphanInv, [Next]_vars, NEW l \in Labs, NEW u \in Nat,
         u <= lab[l].uid, lab[l].ph = "bare" => u # lab[l].uid
  PROVE  /\ u <= lab'[l].uid /\ (lab'[l].ph = "bare" => u # lab'[l].uid)
         /\ lab'[l].ph = "held" /\ lab'[l].uid = u => lab[l].ph = "held" /\ lab[l].uid = u
  <1>1. TypeOK /\ ViewsInv /\ WorkInv
    BY DEF OrphanInv, ViewsInv, WorkInv
  <1>2. CASE lab' = lab
    BY <1>2
  <1>3. ASSUME NEW m \in Labs, NEW x \in LabObj, PutLab(m, x), x.uid >= lab[m].uid,
               x.ph = "held" => lab[m] = copy /\ x.uid = copy.uid /\ copy.ph = "bare",
               x.ph = "bare" => x.uid > lab[m].uid
        PROVE  /\ u <= lab'[l].uid /\ (lab'[l].ph = "bare" => u # lab'[l].uid)
               /\ lab'[l].ph = "held" /\ lab'[l].uid = u => lab[l].ph = "held" /\ lab[l].uid = u
    <2>1. lab'[m] = x /\ (l # m => lab'[l] = lab[l])
      BY <1>1, <1>3, PutLabViews
    <2>2. lab[l].uid \in Nat /\ x.uid \in Nat
      BY <1>1, ViewTypes, ConstantsAssumption DEF LabObj
    <2>3. CASE l # m
      BY <2>1, <2>3
    <2>4. CASE l = m
      BY <1>3, <2>1, <2>2, <2>4
    <2>5. QED
      BY <2>3, <2>4
  <1>4. \/ lab' = lab
        \/ \E m \in Labs : \E x \in LabObj :
             /\ PutLab(m, x) /\ x.uid >= lab[m].uid
             /\ x.ph = "held" => lab[m] = copy /\ x.uid = copy.uid /\ copy.ph = "bare"
             /\ x.ph = "bare" => x.uid > lab[m].uid
    <2>1. \A m \in Labs : DeliverLab(m) => lab' = lab
      BY DEF DeliverLab
    <2>2. Crash => lab' = lab
      BY DEF Crash
    <2>3. UNCHANGED labVars => lab' = lab
      BY DEF labVars
    <2>4. QED
      BY <1>1, <2>1, <2>2, <2>3, LabWrites
  <1>5. QED
    BY <1>2, <1>3, <1>4

\* A LAN with the finalizer stays as long as its Lab is in service.
LEMMA LanKept ==
  ASSUME OrphanInv, StripInv, [Next]_vars, NEW n \in Lans, Unshared(n),
         HasFinalizer(lan[n]), Serving(lan[n])
  PROVE  HasFinalizer(lan'[n]) /\ lan'[n].owner = lan[n].owner /\ lan'[n].vni = lan[n].vni
  <1>1. TypeOK /\ Exists(lan[n])
    BY DEF OrphanInv, HasFinalizer, Exists
  <1>2. HasFinalizer(lan'[n])
    BY StripStep DEF Serving, OwnerName
  <1>3. ASSUME NEW m \in Lans, NEW x \in LanObj, PutLan(m, x),
               m = n => x.owner = lan[n].owner /\ x.vni = lan[n].vni
        PROVE  lan'[n].owner = lan[n].owner /\ lan'[n].vni = lan[n].vni
    <2>1. lan'[m] = x /\ (m # n => lan'[n] = lan[n])
      BY <1>1, <1>3, PutLanViews
    <2>2. QED
      BY <1>3, <2>1
  <1>4. CASE lan' = lan
    BY <1>2, <1>4
  <1>5. CASE /\ pc = "create" /\ ~Exists(lan[lanName])
             /\ PutLan(lanName, [ph |-> "held", owner |-> <<cur, copy.uid>>,
                                 vni |-> spokes[link]])
    <2>1. link \in Links /\ lanName \in Lans
      BY <1>1, <1>5, CurrentLink
    <2>2. [ph |-> "held", owner |-> <<cur, copy.uid>>, vni |-> spokes[link]] \in LanObj
      BY <1>1, <2>1, OwnUid DEF TypeOK, LanObj, Phase
    <2>3. n # lanName
      BY <1>1, <1>5
    <2>4. QED
      BY <1>2, <1>3, <1>5, <2>1, <2>2, <2>3
  <1>6. QED
    BY <1>1, <1>2, <1>3, <1>4, <1>5, LanWrites

\* Where a view of a LAN comes from.
LEMMA NewViews ==
  ASSUME TypeOK, [Next]_vars, NEW n \in Lans, NEW v \in LanViews(n)'
  PROVE  \/ v \in LanViews(n)
         \/ v = lan'[n] /\ Exists(lan[n]) /\ v.owner = lan[n].owner /\ v.vni = lan[n].vni
         \/ /\ pc = "create" /\ n = lanName /\ v = lan'[n] /\ ~Exists(lan[n])
            /\ v = [ph |-> "held", owner |-> <<cur, copy.uid>>, vni |-> spokes[link]]
  <1>1. CASE \A m \in Lans : LanViews(m)' \subseteq LanViews(m)
    BY <1>1
  <1>2. ASSUME NEW m \in Lans, NEW x \in LanObj, PutLan(m, x)
        PROVE  v \in LanViews(n) \/ (n = m /\ v = x /\ v = lan'[n])
    BY <1>2, PutLanViews
  <1>3. CASE /\ pc = "create" /\ ~Exists(lan[lanName])
             /\ PutLan(lanName, [ph |-> "held", owner |-> <<cur, copy.uid>>,
                                 vni |-> spokes[link]])
    <2>1. link \in Links /\ lanName \in Lans
      BY <1>3, CurrentLink
    <2>2. [ph |-> "held", owner |-> <<cur, copy.uid>>, vni |-> spokes[link]] \in LanObj
      BY <2>1, OwnUid DEF TypeOK, LanObj, Phase
    <2>3. QED
      BY <1>2, <1>3, <2>1, <2>2
  <1>4. QED
    BY <1>1, <1>2, <1>3, LanWrites

\* Where a workload comes from.
LEMMA NewWorkload ==
  ASSUME TypeOK, [Next]_vars, NEW l \in Labs, NEW m \in Nodes, Exists(wl'[<<l, m>>])
  PROVE  \/ wl'[<<l, m>>] = wl[<<l, m>>]
         \/ /\ pc = "node" /\ l = cur /\ UNCHANGED <<lab, lan, unlisted>>
            /\ wl'[<<l, m>>] = [ph |-> "bare", owner |-> <<cur, copy.uid>>, spokes |-> spokes]
<1>1. CASE wl' = wl
  BY <1>1
<1>2. ASSUME NEW k \in Labs, NEW j \in Nodes, LoseWorkload(k, j) \/ CollectWl(k, j)
      PROVE  wl'[<<l, m>>] = wl[<<l, m>>]
  <2>1. wl' = [wl EXCEPT ![<<k, j>>] = Deleted(wl[<<k, j>>])] /\ wl[<<k, j>>] \in WlObj
    BY <1>2 DEF LoseWorkload, CollectWl, PutWl, TypeOK
  <2>2. ~Exists(Deleted(wl[<<k, j>>]))
    BY <2>1 DEF Deleted, Exists, WlObj
  <2>3. <<k, j>> # <<l, m>>
    BY <2>1, <2>2 DEF TypeOK
  <2>4. QED
    BY <2>1, <2>3 DEF TypeOK
<1>3. ASSUME NEW j \in Nodes, EnsureNode(j)
      PROVE  \/ wl'[<<l, m>>] = wl[<<l, m>>]
             \/ /\ pc = "node" /\ l = cur /\ UNCHANGED <<lab, lan, unlisted>>
                /\ wl'[<<l, m>>] = [ph |-> "bare", owner |-> <<cur, copy.uid>>, spokes |-> spokes]
  <2>1. pc = "node" /\ UNCHANGED <<lab, lan, unlisted>>
    BY <1>3 DEF EnsureNode, labVars, lanVars
  <2>2. \/ wl' = wl
        \/ wl' = [wl EXCEPT ![<<cur, j>>] = [ph |-> "bare", owner |-> <<cur, copy.uid>>,
                                             spokes |-> spokes]]
    BY <1>3 DEF EnsureNode, PutWl, wlVars
  <2>3. cur \in Labs /\ wl \in [Labs \X Nodes -> WlObj]
    BY DEF TypeOK
  <2>4. QED
    BY <2>1, <2>2, <2>3
<1>4. \/ wl' = wl \/ \E j \in Nodes : EnsureNode(j)
      \/ \E k \in Labs, j \in Nodes : LoseWorkload(k, j) \/ CollectWl(k, j)
  BY DEF Next, Worker, Informers, Collector, Environment, StartReconcile, AddFinalizer,
     GetAvailableVNIs, GetLan, CreateLan, CheckLan, EndReconcile, StripLan, Crash,
     RemoveFinalizer, DeliverLab, DeliverLan, DeliverWl, CollectLan, LoadConfig, ApiError,
     Resync, UserCreateLab, UserDeleteLab, UserDeleteLan, vars, wlVars
<1>5. QED
  BY <1>1, <1>2, <1>3, <1>4

\* The Lab that the worker creates objects for has its finalizer.
LEMMA OwnerHeld ==
  ASSUME OrphanInv, pc \in {"list", "get", "create", "check", "node"}
  PROVE  /\ cur \in Labs /\ copy.uid \in Nat /\ copy.uid = lab[cur].uid
         /\ HasFinalizer(lab[cur]) /\ lab[cur].ph # "bare"
  <1>1. cur \in Labs /\ copy \in LabObj
    BY DEF OrphanInv, TypeOK
  <1>2. copy.uid \in Nat
    BY <1>1, ConstantsAssumption DEF LabObj
  <1>3. QED
    BY <1>1, <1>2 DEF OrphanInv, CreatingForHeldLab, HasFinalizer

\* Every step keeps objects off Labs without a finalizer.
LEMMA FirstStep ==
  ASSUME OrphanInv, FinalizerFirst, [Next]_vars
  PROVE  FinalizerFirst'
  <1>1. TypeOK
    BY DEF OrphanInv
  <1>2. ASSUME NEW v, v.owner[1] \in Labs, v.owner[2] \in Nat, Former(v) PROVE Former(v)'
    BY <1>2, ServiceStep DEF Former
  <1>3. ASSUME NEW v, v.owner = <<cur, copy.uid>>, pc \in {"create", "node"}
        PROVE  v.owner[1] \in Labs /\ v.owner[2] \in Nat /\ Former(v)
    BY <1>3, OwnerHeld DEF Former
  <1>4. ASSUME NEW n \in Lans, NEW v \in LanViews(n)', Exists(v) PROVE Former(v)'
    <2>1. lan[n] \in LanViews(n)
      BY DEF LanViews
    <2>2. CASE v \in LanViews(n)
      BY <1>1, <1>2, <1>4, <2>2, OwnerTypes DEF FinalizerFirst
    <2>3. CASE Exists(lan[n]) /\ v.owner = lan[n].owner
      BY <1>1, <1>2, <2>1, <2>3, OwnerTypes DEF FinalizerFirst, Former
    <2>4. CASE pc = "create" /\ v = [ph |-> "held", owner |-> <<cur, copy.uid>>, vni |-> spokes[link]]
      BY <1>2, <1>3, <2>4
    <2>5. QED
      BY <1>1, <2>2, <2>3, <2>4, NewViews
  <1>5. ASSUME NEW l \in Labs, NEW m \in Nodes, Exists(wl'[<<l, m>>]) PROVE Former(wl[<<l, m>>])'
    <2> DEFINE w == wl'[<<l, m>>]
    <2>1. w.owner[1] \in Labs /\ w.owner[2] \in Nat /\ Former(w)
      <3>1. CASE w = wl[<<l, m>>]
        BY <1>1, <1>5, <3>1, OwnerTypes DEF FinalizerFirst
      <3>2. CASE /\ pc = "node"
                 /\ w = [ph |-> "bare", owner |-> <<cur, copy.uid>>, spokes |-> spokes]
        BY <1>3, <3>2
      <3>3. QED
        BY <1>1, <1>5, <3>1, <3>2, NewWorkload
    <2>2. QED
      BY <2>1, ServiceStep DEF Former
  <1>6. QED
    BY <1>4, <1>5 DEF FinalizerFirst

\* Every step keeps the LANs of a Lab in service.
LEMMA StaysStep ==
  ASSUME OrphanInv, StripInv, FinalizerFirst, LanStays, [Next]_vars
  PROVE  LanStays'
  <1> SUFFICES ASSUME NEW n \in Lans, Unshared(n), NEW v \in LanViews(n)', Exists(v), Serving(v)'
               PROVE  HasFinalizer(lan'[n]) /\ lan'[n].owner = v.owner /\ lan'[n].vni = v.vni
    BY DEF LanStays, Unshared
  <1>1. TypeOK /\ lan[n] \in LanViews(n)
    BY DEF OrphanInv, LanViews
  <1>2. ASSUME NEW w \in LanViews(n), Exists(w), w.owner = v.owner
        PROVE  HasFinalizer(lan'[n]) /\ lan'[n].owner = w.owner /\ lan'[n].vni = w.vni
    <2>1. Former(w) /\ w.owner[1] \in Labs /\ w.owner[2] \in Nat
      BY <1>1, <1>2, OwnerTypes DEF FinalizerFirst
    <2>2. Serving(w)
      BY <1>2, <2>1, ServiceStep DEF Serving, Former
    <2>3. HasFinalizer(lan[n]) /\ lan[n].owner = w.owner /\ lan[n].vni = w.vni
      BY <1>2, <2>2 DEF LanStays
    <2>4. QED
      BY <2>2, <2>3, LanKept DEF Serving
  <1>3. CASE v \in LanViews(n)
    BY <1>2, <1>3
  <1>4. CASE v = lan'[n] /\ Exists(lan[n]) /\ v.owner = lan[n].owner /\ v.vni = lan[n].vni
    BY <1>1, <1>2, <1>4
  <1>5. CASE /\ v = lan'[n]
             /\ v = [ph |-> "held", owner |-> <<cur, copy.uid>>, vni |-> spokes[link]]
    BY <1>5 DEF HasFinalizer
  <1>6. QED
    BY <1>1, <1>3, <1>4, <1>5, NewViews

\* How the worker gets to a step of EnsureLinks or Ensure.
LEMMA LoopStep ==
  ASSUME TypeOK, [Next]_vars, pc' \in {"get", "create", "check", "node"}
  PROVE  \/ UNCHANGED <<pc, cur, copy, idx, spokes>>
         \/ /\ pc = "list" /\ cur' = cur /\ UNCHANGED lanVars
            /\ unlisted' = unlisted \cup {n \in Lans : ~Listed(n)}
            /\ (pc' = "get" /\ idx' = 1) \/ (pc' = "node" /\ Len(LinkList[cur]) = 0)
         \/ /\ pc = "get" /\ UNCHANGED <<cur, copy, idx, lab, lan, lanC>>
            /\ \/ /\ ~Exists(lanC[lanName]) /\ pc' = "create"
                  /\ spokes' = [spokes EXCEPT ![link] = vnis[idx]]
               \/ /\ Exists(lanC[lanName]) /\ pc' = "check"
                  /\ spokes' = [spokes EXCEPT ![link] = lanC[lanName].vni]
         \/ /\ pc \in {"create", "check"} /\ NextLink /\ UNCHANGED <<lab, lan>>
            /\ Exists(lanC[lanName]) /\ lanC[lanName].owner = <<cur, copy.uid>>
         \/ /\ pc = "create" /\ NextLink /\ UNCHANGED lab
            /\ PutLan(lanName, [ph |-> "held", owner |-> <<cur, copy.uid>>,
                                vni |-> spokes[link]])
<1>1. CASE GetAvailableVNIs
  BY <1>1 DEF GetAvailableVNIs, Goto, Return
<1>2. CASE GetLan
  BY <1>2 DEF GetLan, Goto, Return, labVars, lanVars
<1>3. CASE CreateLan \/ CheckLan
  BY <1>3 DEF CreateLan, CheckLan, LanFound, IsOwnedbyLab, Return, labVars, lanVars
<1>4. ASSUME NEW m \in Nodes, EnsureNode(m) PROVE UNCHANGED <<pc, cur, copy, idx, spokes>>
  BY <1>4 DEF EnsureNode, Goto, Return
<1>5. ASSUME NEW l \in Labs, StartReconcile(l) PROVE UNCHANGED <<pc, cur, copy, idx, spokes>>
  BY <1>5 DEF StartReconcile, TypeOK, LabObj, Phase, Exists
<1>6. CASE UNCHANGED workerVars
  BY <1>6 DEF workerVars
<1>7. \/ UNCHANGED workerVars \/ GetAvailableVNIs \/ GetLan \/ CreateLan \/ CheckLan
      \/ \E m \in Nodes : EnsureNode(m)
      \/ \E l \in Labs : StartReconcile(l)
  BY DEF Next, Worker, Informers, Collector, Environment, AddFinalizer, Goto, Return,
     EndReconcile, StripLan, RemoveFinalizer, DeliverLab, DeliverLan, DeliverWl, CollectLan,
     CollectWl, LoadConfig, ApiError, Crash, Resync, UserCreateLab, UserDeleteLab,
     UserDeleteLan, LoseWorkload, vars
<1>8. QED
  BY <1>1, <1>2, <1>3, <1>4, <1>5, <1>6, <1>7

\* The links of a Lab by their positions.
LEMMA LinkAt ==
  ASSUME NEW l \in Labs, NEW i \in 1..Len(LinkList[l])
  PROVE  /\ LinkList[l][i] \in LinksOf(l) /\ LinkList[l][i] \in Links
         /\ Getk8lanName(l, LinkList[l][i]) \in Lans
  <1>1. LinkList[l][i] \in LinksOf(l)
    BY DEF LinksOf
  <1>2. QED
    BY <1>1, LinksOfType, LanNames

\* The loop of EnsureLinks meets every link, and every LAN, once.
LEMMA OtherLink ==
  ASSUME TypeOK, pc \in {"get", "create", "check"},
         NEW i \in 1..Len(LinkList[cur]), i # idx
  PROVE  /\ LinkList[cur][i] # link
         /\ LET n == Getk8lanName(cur, LinkList[cur][i]) IN Unshared(n) => n # lanName
  <1>1. cur \in Labs /\ idx \in 1..Len(LinkList[cur])
    BY DEF TypeOK
  <1>2. LinkList[cur][i] # link
    BY <1>1, ConstantsAssumption DEF link
  <1>3. QED
    BY <1>1, <1>2, LinkAt DEF Unshared, link, lanName

\* A list may add to the LANs that one was without, creating a LAN takes it off.
LEMMA UnlistedStep ==
  ASSUME [Next]_vars
  PROVE  \/ unlisted' = unlisted
         \/ pc = "list" /\ unlisted' = unlisted \cup {n \in Lans : ~Listed(n)}
         \/ /\ pc = "create" /\ pc' # pc /\ ~Exists(lan[lanName])
            /\ unlisted' = unlisted \ {lanName}
  <1>1. GetAvailableVNIs => pc = "list" /\ unlisted' = unlisted \cup {n \in Lans : ~Listed(n)}
    BY DEF GetAvailableVNIs
  <1>2. CreateLan => \/ unlisted' = unlisted
                     \/ /\ pc = "create" /\ pc' # pc /\ ~Exists(lan[lanName])
                        /\ unlisted' = unlisted \ {lanName}
    BY DEF CreateLan, NextLink, Goto
  <1>3. unlisted' = unlisted \/ GetAvailableVNIs \/ CreateLan
    BY DEF Next, Worker, Informers, Collector, Environment, StartReconcile, AddFinalizer,
       GetLan, EnsureNode, EndReconcile, CheckLan, StripLan, Crash,
       RemoveFinalizer, DeliverLab, DeliverLan, DeliverWl, CollectLan, CollectWl, LoadConfig,
       ApiError, Resync, UserCreateLab, UserDeleteLab, UserDeleteLan, LoseWorkload, vars
  <1>4. QED
    BY <1>1, <1>2, <1>3

\* But for the one being created, no LAN appears and none changes its VNI.
LEMMA LanChange ==
  ASSUME TypeOK, [Next]_vars, NEW n \in Lans, pc = "create" /\ n = lanName => pc' = pc,
         Exists(lan'[n])
  PROVE  Exists(lan[n]) /\ lan'[n].vni = lan[n].vni
  <1>1. CASE lan' = lan
    BY <1>1
  <1>2. ASSUME NEW m \in Lans, NEW x \in LanObj, PutLan(m, x), Exists(lan[m]), x.vni = lan[m].vni
        PROVE  Exists(lan[n]) /\ lan'[n].vni = lan[n].vni
    <2>1. lan'[m] = x /\ (n # m => lan'[n] = lan[n])
      BY <1>2, PutLanViews
    <2>2. QED
      BY <1>2, <2>1
  <1>3. CASE /\ pc = "create" /\ NextLink
             /\ PutLan(lanName, [ph |-> "held", owner |-> <<cur, copy.uid>>,
                                 vni |-> spokes[link]])
    <2>1. pc' # pc
      BY <1>3 DEF NextLink, Goto
    <2>2. QED
      BY <1>3, <2>1 DEF PutLan, TypeOK
  <1>4. QED
    BY <1>1, <1>2, <1>3, LanWrites

\* Likewise for what is seen of it.
LEMMA ListedKept ==
  ASSUME TypeOK, [Next]_vars, NEW n \in Lans, pc = "create" /\ n = lanName => pc' = pc, Listed(n)
  PROVE  Listed(n)'
  <1> SUFFICES ASSUME Exists(lan'[n]), NEW v \in LanViews(n)'
               PROVE  Exists(v) /\ v.vni = lan'[n].vni
    BY DEF Listed
  <1>1. Exists(lan[n]) /\ lan'[n].vni = lan[n].vni
    BY LanChange
  <1>2. QED
    BY <1>1, NewViews DEF Listed

\* Every step keeps the LANs ahead as GetAvailableVNIs listed them.
LEMMA AheadStep ==
  ASSUME TypeOK, TypeOK', Ahead, [Next]_vars
  PROVE  Ahead'
  <1> SUFFICES ASSUME pc' \in {"get", "create", "check"}, NEW i \in idx'..Len(LinkList[cur']),
                      NEW n, n = Getk8lanName(cur', LinkList[cur'][i]),
                      Unshared(n), n \notin unlisted'
               PROVE  Listed(n)'
    BY DEF Ahead, Listed, LanViews, Unshared
  <1>1. cur' \in Labs /\ i \in 1..Len(LinkList[cur']) /\ i \in Nat /\ idx' \in Nat
    BY ConstantsAssumption DEF TypeOK
  <1>2. n \in Lans
    BY <1>1, LinkAt
  <1>3. ASSUME cur' = cur, pc \in {"get", "create", "check"}, i \in idx..Len(LinkList[cur]),
               pc = "create" /\ i = idx => pc' = pc
        PROVE  Listed(n)'
    <2>1. pc = "create" /\ n = lanName => i = idx
      BY <1>1, <1>3, OtherLink
    <2>2. n \notin unlisted
      BY <1>3, <2>1, UnlistedStep
    <2>3. Listed(n)
      BY <1>3, <2>2 DEF Ahead
    <2>4. QED
      BY <1>2, <1>3, <2>1, <2>3, ListedKept
  <1>4. CASE unlisted' = unlisted \cup {x \in Lans : ~Listed(x)} /\ UNCHANGED lanVars
    <2>1. Listed(n)
      BY <1>2, <1>4
    <2>2. QED
      BY <1>4, <2>1 DEF Listed, LanViews, lanVars
  <1>5. CASE pc \in {"create", "check"} /\ NextLink
    <2>1. cur' = cur /\ idx' = idx + 1
      BY <1>5 DEF NextLink, Goto
    <2>2. i \in idx..Len(LinkList[cur]) /\ i # idx
      BY <1>1, <2>1 DEF TypeOK
    <2>3. QED
      BY <1>3, <1>5, <2>1, <2>2
  <1>6. CASE UNCHANGED <<pc, cur, copy, idx, spokes>>
    BY <1>3, <1>6
  <1>7. CASE pc = "get" /\ UNCHANGED <<cur, idx>>
    BY <1>3, <1>7
  <1>8. QED
    BY <1>4, <1>5, <1>6, <1>7, LoopStep

\* Every step keeps the answer of the first Get true until the second.
LEMMA AtLinkStep ==
  ASSUME TypeOK, Ahead, AtLink, [Next]_vars
  PROVE  AtLink'
  <1> SUFFICES ASSUME pc' \in {"create", "check"}, Unshared(lanName'), lanName' \notin unlisted'
               PROVE  AtLink'
    BY DEF AtLink, Unshared
  <1>1. CASE UNCHANGED <<pc, cur, copy, idx, spokes>>
    <2>1. lanName' = lanName /\ link' = link /\ lanName \in Lans
      BY <1>1, CurrentLink DEF lanName, link
    <2>2. Exists(lan'[lanName]) => Exists(lan[lanName]) /\ lan'[lanName].vni = lan[lanName].vni
      BY <1>1, <2>1, LanChange
    <2>3. lanName \notin unlisted
      BY <1>1, <2>1, UnlistedStep
    <2>4. QED
      BY <1>1, <2>1, <2>2, <2>3 DEF AtLink
  <1>2. ASSUME pc = "get", UNCHANGED <<cur, copy, idx, lab, lan, lanC>>
        PROVE  /\ lanName' = lanName /\ link' = link /\ link \in Links
               /\ Exists(lan[lanName]) => /\ Exists(lanC[lanName])
                                          /\ lanC[lanName].vni = lan[lanName].vni
    <2>1. idx \in idx..Len(LinkList[cur]) /\ lanC[lanName] \in LanViews(lanName)
      BY <1>2, ConstantsAssumption DEF TypeOK, LanViews
    <2>2. lanName' = lanName /\ lanName \notin unlisted
      BY <1>2, UnlistedStep DEF lanName, link
    <2>3. Listed(lanName)
      BY <1>2, <2>1, <2>2 DEF Ahead, lanName, link
    <2>4. QED
      BY <1>2, <2>1, <2>3, CurrentLink DEF Listed, lanName, link
  <1>3. CASE /\ pc = "get" /\ UNCHANGED <<cur, copy, idx, lab, lan, lanC>>
             /\ ~Exists(lanC[lanName]) /\ pc' = "create"
    BY <1>2, <1>3 DEF AtLink
  <1>4. CASE /\ pc = "get" /\ UNCHANGED <<cur, copy, idx, lab, lan, lanC>>
             /\ Exists(lanC[lanName]) /\ pc' = "check"
             /\ spokes' = [spokes EXCEPT ![link] = lanC[lanName].vni]
    <2>1. spokes'[link] = lanC[lanName].vni
      BY <1>2, <1>4 DEF TypeOK
    <2>2. QED
      BY <1>2, <1>4, <2>1 DEF AtLink
  <1>5. NextLink => pc' \in {"get", "node"}
    BY DEF NextLink, Goto
  <1>6. QED
    BY <1>1, <1>3, <1>4, <1>5, LoopStep

\* A link of a Lab in service stays served.
LEMMA ServedKept ==
  ASSUME OrphanInv, StripInv, [Next]_vars, NEW l \in Labs,
         NEW i \in 1..Len(LinkList[l]), NEW sp, lab[l].ph = "held",
         Served(l, lab[l].uid, sp, LinkList[l][i])
  PROVE  OnLan(lan', unlisted', l, lab[l].uid, sp, LinkList[l][i])
  <1> DEFINE n == Getk8lanName(l, LinkList[l][i])
  <1> SUFFICES ASSUME Unshared(n)
               PROVE  /\ HasFinalizer(lan'[n]) /\ lan'[n].owner = <<l, lab[l].uid>>
                      /\ n \notin unlisted' => lan'[n].vni = sp[LinkList[l][i]]
    BY DEF OnLan
  <1>1. n \in Lans
    BY LinkAt
  <1>2. /\ HasFinalizer(lan[n]) /\ lan[n].owner = <<l, lab[l].uid>>
        /\ n \notin unlisted => lan[n].vni = sp[LinkList[l][i]]
    BY DEF Served, OnLan
  <1>3. Serving(lan[n])
    BY <1>2 DEF Serving
  <1>4. /\ HasFinalizer(lan'[n]) /\ lan'[n].owner = lan[n].owner
        /\ lan'[n].vni = lan[n].vni
    BY <1>1, <1>2, <1>3, LanKept
  <1>5. n \notin unlisted' => n \notin unlisted
    BY <1>2, UnlistedStep DEF HasFinalizer, Exists
  <1>6. QED
    BY <1>2, <1>4, <1>5

\* The loop goes on when SpokeMap is right for the link at hand too.
LEMMA BehindNext ==
  ASSUME TypeOK, pc \in {"create", "check"}, NextLink,
         \A i \in 1..idx : OnLan(lan', unlisted', cur, copy.uid, spokes, LinkList[cur][i])
  PROVE  Behind'
  <1>1. /\ UNCHANGED <<cur, copy, spokes>> /\ idx \in 1..Len(LinkList[cur])
        /\ Len(LinkList[cur]) \in Nat
        /\ (pc' = "get" /\ idx' = idx + 1) \/ (pc' = "node" /\ idx >= Len(LinkList[cur]))
    BY ConstantsAssumption DEF NextLink, Goto, TypeOK
  <1>2. CASE pc' = "get" /\ idx' = idx + 1
    <2>1. 1..idx' - 1 = 1..idx
      BY <1>1, <1>2
    <2>2. QED
      BY <1>1, <1>2, <2>1 DEF Behind, Served
  <1>3. CASE pc' = "node" /\ idx = Len(LinkList[cur])
    BY <1>1, <1>3 DEF Behind, Served
  <1>4. QED
    BY <1>1, <1>2, <1>3

\* Every step keeps SpokeMap right for the links done.
LEMMA BehindStep ==
  ASSUME OrphanInv, OrphanInv', StripInv, LanStays, AtLink, Behind, [Next]_vars
  PROVE  Behind'
  <1> SUFFICES ASSUME pc' \in {"get", "create", "check", "node"}, lab'[cur'].ph = "held"
               PROVE  Behind'
    BY DEF Behind
  <1>1. TypeOK /\ cur \in Labs /\ cur' \in Labs /\ copy'.uid = lab'[cur'].uid
    BY DEF OrphanInv, TypeOK, CreatingForHeldLab
  <1>2. CASE UNCHANGED <<pc, cur, copy, idx, spokes>>
    <2>1. /\ copy.uid \in Nat /\ copy.uid = lab[cur].uid /\ lab[cur].ph # "bare"
          /\ lab'[cur].uid = copy.uid
      BY <1>1, <1>2, OwnerHeld
    <2>2. lab[cur].ph = "held"
      BY <1>1, <1>2, <2>1, ServiceStep
    <2>3. ASSUME NEW i \in 1..Len(LinkList[cur]),
                 Served(cur, copy.uid, spokes, LinkList[cur][i])
          PROVE  OnLan(lan', unlisted', cur, copy.uid, spokes, LinkList[cur][i])
      BY <1>1, <2>1, <2>2, <2>3, ServedKept
    <2>4. pc # "node" => \A i \in 1..idx - 1 : i \in 1..Len(LinkList[cur])
      BY <1>2, ConstantsAssumption, <1>1 DEF TypeOK
    <2>5. QED
      BY <1>2, <2>2, <2>3, <2>4 DEF Behind, Served
  <1>3. CASE (pc' = "get" /\ idx' = 1) \/ (pc' = "node" /\ cur' = cur /\ Len(LinkList[cur]) = 0)
    BY <1>3 DEF Behind
  <1>4. ASSUME pc = "get", UNCHANGED <<cur, copy, idx, lab, lan>>, pc' \in {"create", "check"},
               NEW v, spokes' = [spokes EXCEPT ![link] = v]
        PROVE  Behind'
    <2>1. /\ idx \in 1..Len(LinkList[cur])
          /\ \A i \in 1..idx - 1 : i \in 1..Len(LinkList[cur]) /\ i # idx
      BY <1>1, <1>4, ConstantsAssumption DEF TypeOK
    <2>2. \A i \in 1..idx - 1 : LinkList[cur][i] \in Links /\ LinkList[cur][i] # link
      BY <1>1, <1>4, <2>1, LinkAt, OtherLink
    <2>3. \A i \in 1..idx - 1 : spokes'[LinkList[cur][i]] = spokes[LinkList[cur][i]]
      BY <1>1, <1>4, <2>2 DEF TypeOK
    <2>4. QED
      <3>1. unlisted' = unlisted
        BY <1>4, UnlistedStep
      <3>2. QED
        BY <1>4, <2>3, <3>1 DEF Behind, Served, OnLan
  <1>5. ASSUME pc \in {"create", "check"}, NextLink, UNCHANGED lab,
               OnLan(lan', unlisted', cur, copy.uid, spokes, link)
        PROVE  Behind'
    <2>1. copy.uid = lab[cur].uid /\ cur' = cur /\ lab[cur].ph = "held"
      BY <1>5, OwnerHeld DEF NextLink, Goto
    <2>2. \A i \in 1..idx : i = idx \/ (i \in 1..idx - 1 /\ i \in 1..Len(LinkList[cur]))
      <3>1. idx \in 1..Len(LinkList[cur]) /\ Len(LinkList[cur]) \in Nat
        BY <1>1, <1>5, ConstantsAssumption DEF TypeOK
      <3>2. QED
        BY <3>1
    <2>3. ASSUME NEW i \in 1..idx
          PROVE  OnLan(lan', unlisted', cur, copy.uid, spokes, LinkList[cur][i])
      <3>1. CASE i = idx
        BY <1>5, <3>1 DEF link
      <3>2. CASE i \in 1..idx - 1 /\ i \in 1..Len(LinkList[cur])
        <4>1. Served(cur, lab[cur].uid, spokes, LinkList[cur][i])
          BY <1>5, <2>1, <3>2 DEF Behind
        <4>2. QED
          BY <1>1, <2>1, <3>2, <4>1, ServedKept
      <3>3. QED
        BY <2>2, <3>1, <3>2
    <2>4. QED
      BY <1>1, <1>5, <2>3, BehindNext
  <1>6. CASE /\ pc \in {"create", "check"} /\ NextLink /\ UNCHANGED <<lab, lan>>
             /\ Exists(lanC[lanName]) /\ lanC[lanName].owner = <<cur, copy.uid>>
    <2>1. copy.uid = lab[cur].uid /\ lab[cur].ph = "held" /\ lanName \in Lans
      BY <1>1, <1>6, OwnerHeld, CurrentLink DEF NextLink, Goto
    <2>2. lanC[lanName] \in LanViews(lanName) /\ Serving(lanC[lanName])
      BY <1>6, <2>1 DEF LanViews, Serving
    <2>3. ASSUME Unshared(lanName)
          PROVE  /\ HasFinalizer(lan[lanName]) /\ lan[lanName].owner = <<cur, copy.uid>>
                 /\ lanName \notin unlisted' => lan[lanName].vni = spokes[link]
      <3>1. HasFinalizer(lan[lanName]) /\ lan[lanName].owner = <<cur, copy.uid>>
        BY <1>6, <2>1, <2>2, <2>3 DEF LanStays
      <3>2. lanName \notin unlisted' => lanName \notin unlisted
        BY <3>1, UnlistedStep DEF HasFinalizer, Exists
      <3>3. QED
        BY <1>6, <2>3, <3>1, <3>2 DEF AtLink, HasFinalizer, Exists
    <2>4. OnLan(lan', unlisted', cur, copy.uid, spokes, link)
      BY <1>6, <2>3 DEF OnLan, lanName
    <2>5. QED
      BY <1>5, <1>6, <2>4
  <1>7. CASE /\ pc = "create" /\ NextLink /\ UNCHANGED lab
             /\ PutLan(lanName, [ph |-> "held", owner |-> <<cur, copy.uid>>,
                                 vni |-> spokes[link]])
    <2>1. lan'[lanName] = [ph |-> "held", owner |-> <<cur, copy.uid>>, vni |-> spokes[link]]
      BY <1>1, <1>7, CurrentLink DEF PutLan, TypeOK
    <2>2. OnLan(lan', unlisted', cur, copy.uid, spokes, link)
      BY <2>1 DEF OnLan, lanName, HasFinalizer
    <2>3. QED
      BY <1>5, <1>7, <2>2
  <1>8. QED
    BY <1>1, <1>2, <1>3, <1>4, <1>6, <1>7, LoopStep

\* Every step keeps the workloads of Labs in service on their LANs.
LEMMA AttachedStep ==
  ASSUME OrphanInv, StripInv, FinalizerFirst, Behind, Attached, [Next]_vars
  PROVE  Attached'
  <1> SUFFICES ASSUME NEW l \in Labs, NEW m \in Nodes, Exists(wl'[<<l, m>>]),
                      lab'[l].ph = "held", wl'[<<l, m>>].owner = <<l, lab'[l].uid>>,
                      NEW i \in 1..Len(LinkList[l])
               PROVE  OnLan(lan', unlisted', l, lab'[l].uid, wl'[<<l, m>>].spokes, LinkList[l][i])
    BY DEF Attached, Served
  <1>1. TypeOK
    BY DEF OrphanInv
  <1>2. CASE wl'[<<l, m>>] = wl[<<l, m>>]
    <2>1. /\ wl[<<l, m>>].owner[1] = l /\ wl[<<l, m>>].owner[2] = lab'[l].uid
          /\ wl[<<l, m>>].owner[2] \in Nat /\ Former(wl[<<l, m>>])
      BY <1>1, <1>2, OwnerTypes DEF FinalizerFirst
    <2>2. lab[l].ph = "held" /\ lab[l].uid = lab'[l].uid
      BY <2>1, ServiceStep DEF Former
    <2>3. Served(l, lab[l].uid, wl[<<l, m>>].spokes, LinkList[l][i])
      BY <1>2, <2>2 DEF Attached
    <2>4. QED
      BY <1>2, <2>2, <2>3, ServedKept
  <1>3. CASE /\ pc = "node" /\ l = cur /\ UNCHANGED <<lab, lan, unlisted>>
             /\ wl'[<<l, m>>] = [ph |-> "bare", owner |-> <<cur, copy.uid>>, spokes |-> spokes]
    <2>1. copy.uid = lab[l].uid /\ lab[l].ph = "held"
      BY <1>3, OwnerHeld
    <2>2. Served(l, lab[l].uid, spokes, LinkList[l][i])
      BY <1>3, <2>1 DEF Behind
    <2>3. QED
      BY <1>3, <2>2 DEF Served
  <1>4. QED
    BY <1>1, <1>2, <1>3, NewWorkload

\* Initially there is nothing that could be on the wrong LAN.
LEMMA SpokeInit == Init => SpokeInv
  <1> SUFFICES ASSUME Init PROVE SpokeInv
    OBVIOUS
  <1>1. pc = "idle" /\ \A l \in Labs : lab[l].ph = "gone"
    BY DEF Init, NoLab
  <1>2. \A n \in Lans : \A v \in LanViews(n) : ~Exists(v)
    BY DEF Init, LanViews, NoLan, Exists
  <1>3. \A l \in Labs, m \in Nodes : ~Exists(wl[<<l, m>>])
    BY DEF Init, NoWl, Exists
  <1>4. FinalizerFirst /\ LanStays /\ Attached
    BY <1>2, <1>3 DEF FinalizerFirst, LanStays, Attached
  <1>5. Ahead /\ AtLink /\ Behind
    BY <1>1 DEF Ahead, AtLink, Behind
  <1>6. QED
    BY <1>4, <1>5 DEF SpokeInv

\* The Pods and VMIs of a Lab in service are attached to that Lab's own LANs,
\* for any number of Labs, links and nodes: for every link whose LAN name is not
\* shared the LAN is stored and is the Lab's, and the workload has the LAN's VNI
\* unless a list of GetAvailableVNIs was without that LAN.  EnsureLinks takes
\* the VNI from one Get of the cache and createIfNotExistsOrRemove decides by
\* another, and users, the garbage collector, events and crashes may come
\* between the two.
THEOREM SpokesOnOwnLanTheorem == Spec => []SpokesOnOwnLan
  <1> DEFINE Inv == OrphanInv /\ StripInv /\ SpokeInv
  <1>1. Init => Inv
    BY TypeInit, OrphanInit, StripInit, SpokeInit DEF OrphanInv, ViewsInv, WorkInv
  <1>2. Inv /\ [Next]_vars => Inv'
    <2> SUFFICES ASSUME Inv, [Next]_vars PROVE Inv'
      OBVIOUS
    <2>1. TypeOK /\ OrphanInv' /\ StripInv' /\ TypeOK'
      BY OrphanStep DEF OrphanInv
    <2>2. SpokeInv'
      BY <2>1, FirstStep, StaysStep, AheadStep, AtLinkStep, BehindStep, AttachedStep DEF SpokeInv
    <2>3. QED
      BY <2>1, <2>2
  <1>3. Inv => SpokesOnOwnLan
    <2> SUFFICES ASSUME Attached, NEW l \in Labs, NEW m \in Nodes, Exists(wl[<<l, m>>]),
                        lab[l].ph = "held", wl[<<l, m>>].owner = <<l, lab[l].uid>>,
                        NEW k \in LinksOf(l), NEW n, n = Getk8lanName(l, k), Unshared(n)
                 PROVE  /\ Exists(lan[n]) /\ lan[n].owner = wl[<<l, m>>].owner
                        /\ n \notin unlisted => lan[n].vni = wl[<<l, m>>].spokes[k]
      BY DEF SpokeInv, SpokesOnOwnLan
    <2>1. PICK i \in 1..Len(LinkList[l]) : k = LinkList[l][i]
      BY DEF LinksOf
    <2>2. Served(l, lab[l].uid, wl[<<l, m>>].spokes, k)
      BY <2>1 DEF Attached
    <2>3. QED
      BY <2>2 DEF Served, OnLan, HasFinalizer, Exists
  <1> HIDE DEF Inv
  <1>4. QED
    BY <1>1, <1>2, <1>3, PTL DEF Spec

=============================================================================
