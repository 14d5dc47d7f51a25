--------------------- MODULE LabControllerOrphan_proofs ---------------------
(***************************************************************************)
(* No LAN is orphaned with its finalizer, whatever the caches lag and      *)
(* whenever the operator crashes: OrphanInv is inductive.  And a LAN loses *)
(* its finalizer only with the Lab that owns it: StripInv.                 *)
(***************************************************************************)
EXTENDS LabController_proofs

\* What the Lab informer shows and will show: the three invariants on it.
ViewsInv == ViewsArePast /\ HeldViewsCurrent /\ DyingViewsFinal

\* A write of a Lab adds one view, the last, and touches no other Lab.
LEMMA PutLabViews ==
  ASSUME TypeOK, NEW l \in Labs, NEW x \in LabObj, PutLab(l, x)
  PROVE  /\ lab'[l] = x /\ labC' = labC
         /\ LabViews(l)' = LabViews(l) \cup {x}
         /\ Len(labQ[l]) \in Nat /\ Len(labQ'[l]) = Len(labQ[l]) + 1
         /\ \A i \in 1..Len(labQ[l]) : labQ'[l][i] = labQ[l][i]
         /\ labQ'[l][Len(labQ[l]) + 1] = x
         /\ \A m \in Labs \ {l} : /\ lab'[m] = lab[m] /\ labQ'[m] = labQ[m]
                                  /\ LabViews(m)' = LabViews(m)
  <1>1. /\ lab'[l] = x /\ labC' = labC
        /\ labQ'[l] = Append(labQ[l], x)
        /\ \A m \in Labs \ {l} : lab'[m] = lab[m] /\ labQ'[m] = labQ[m]
    BY DEF PutLab, TypeOK
  <1>2. labQ[l] \in Seq(LabObj)
    BY DEF TypeOK
  <1>3. /\ Len(labQ[l]) \in Nat /\ Len(labQ'[l]) = Len(labQ[l]) + 1
        /\ \A i \in 1..Len(labQ[l]) : labQ'[l][i] = labQ[l][i]
        /\ labQ'[l][Len(labQ[l]) + 1] = x
    BY <1>1, <1>2, AppendFacts
  <1>4. LabViews(l)' = LabViews(l) \cup {x}
    BY <1>1, <1>3 DEF LabViews
  <1>5. \A m \in Labs \ {l} : LabViews(m)' = LabViews(m)
    BY <1>1 DEF LabViews
  <1>6. QED
    BY <1>1, <1>3, <1>4, <1>5

\* The views stay in order when a Lab is written, provided the write keeps a
\* finalizer that was seen and does not revive a Lab seen dying.
LEMMA PutLabKeepsViews ==
  ASSUME TypeOK, ViewsInv, NEW l \in Labs, NEW x \in LabObj, PutLab(l, x),
         x.uid >= lab[l].uid,
         \A v \in LabViews(l) : v.ph = "held" => x.uid = v.uid /\ HasFinalizer(x),
         \A v \in LabViews(l) : v.ph = "dying" /\ v.uid = x.uid => x.ph \in {"dying", "gone"}
  PROVE  ViewsInv'
  <1> USE PutLabViews
  <1>a. \A v \in LabViews(l) \cup {x} : v \in LabObj /\ v.uid \in Nat
    <2>1. labC[l] \in LabObj /\ labQ[l] \in Seq(LabObj)
      BY DEF TypeOK
    <2>2. \A v \in LabViews(l) \cup {x} : v \in LabObj
      BY <2>1, ElementType DEF LabViews
    <2>3. QED
      BY <2>2, ConstantsAssumption DEF LabObj
  <1>b. lab[l].uid \in Nat
    BY ConstantsAssumption DEF TypeOK, LabObj
  <1>1. ViewsArePast'
    <2>1. \A v \in LabViews(l)' : v.uid <= lab'[l].uid
      BY <1>a, <1>b DEF ViewsInv, ViewsArePast
    <2>2. \A m \in Labs \ {l} : \A v \in LabViews(m)' : v.uid <= lab'[m].uid
      BY DEF ViewsInv, ViewsArePast
    <2>3. QED
      BY <2>1, <2>2 DEF ViewsArePast
  <1>2. HeldViewsCurrent'
    <2>1. \A v \in LabViews(l)' : v.ph = "held" => v.uid = lab'[l].uid /\ HasFinalizer(lab'[l])
      BY DEF HasFinalizer
    <2>2. \A m \in Labs \ {l} : \A v \in LabViews(m)' :
            v.ph = "held" => v.uid = lab'[m].uid /\ HasFinalizer(lab'[m])
      BY DEF ViewsInv, HeldViewsCurrent
    <2>3. QED
      BY <2>1, <2>2 DEF HeldViewsCurrent
  <1>3. DyingViewsFinal'
    <2>1. \A v \in LabViews(l)' : v.ph = "dying" /\ v.uid = lab'[l].uid
                                    => lab'[l].ph \in {"dying", "gone"}
      OBVIOUS
    <2>2. \A i \in 1..Len(labQ'[l]) : labC'[l].ph = "dying" /\ labQ'[l][i].ph = "held"
                                        => labC'[l].uid # labQ'[l][i].uid
      <3> SUFFICES ASSUME NEW i \in 1..Len(labQ'[l]), labC[l].ph = "dying", labQ'[l][i].ph = "held"
                   PROVE  labC[l].uid # labQ'[l][i].uid
        OBVIOUS
      <3>1. CASE i = Len(labQ[l]) + 1
        BY <3>1 DEF LabViews
      <3>2. CASE i \in 1..Len(labQ[l])
        BY <3>2 DEF ViewsInv, DyingViewsFinal
      <3>3. QED
        BY <3>1, <3>2
    <2>3. \A i, j \in 1..Len(labQ'[l]) :
            i < j /\ labQ'[l][i].ph = "dying" /\ labQ'[l][j].ph = "held"
              => labQ'[l][i].uid # labQ'[l][j].uid
      <3> SUFFICES ASSUME NEW i \in 1..Len(labQ'[l]), NEW j \in 1..Len(labQ'[l]), i < j,
                          labQ'[l][i].ph = "dying", labQ'[l][j].ph = "held"
                   PROVE  labQ'[l][i].uid # labQ'[l][j].uid
        OBVIOUS
      <3>1. i \in 1..Len(labQ[l])
        OBVIOUS
      <3>2. CASE j = Len(labQ[l]) + 1
        BY <3>1, <3>2 DEF LabViews
      <3>3. CASE j \in 1..Len(labQ[l])
        BY <3>1, <3>3 DEF ViewsInv, DyingViewsFinal
      <3>4. QED
        BY <3>2, <3>3
    <2>4. \A m \in Labs \ {l} :
            /\ \A v \in LabViews(m)' :
                 v.ph = "dying" /\ v.uid = lab'[m].uid => lab'[m].ph \in {"dying", "gone"}
            /\ \A i \in 1..Len(labQ'[m]) :
                 labC'[m].ph = "dying" /\ labQ'[m][i].ph = "held"
                   => labC'[m].uid # labQ'[m][i].uid
            /\ \A i, j \in 1..Len(labQ'[m]) :
                 i < j /\ labQ'[m][i].ph = "dying" /\ labQ'[m][j].ph = "held"
                   => labQ'[m][i].uid # labQ'[m][j].uid
      BY DEF ViewsInv, DyingViewsFinal
    <2>5. QED
      BY <2>1, <2>2, <2>3, <2>4 DEF DyingViewsFinal
  <1>4. QED
    BY <1>1, <1>2, <1>3 DEF ViewsInv

\* Delivering an event removes a view and keeps the order of the others.
LEMMA DeliverLabViews ==
  ASSUME TypeOK, NEW l \in Labs, DeliverLab(l)
  PROVE  /\ lab' = lab /\ labC'[l] = labQ[l][1]
         /\ Len(labQ[l]) \in Nat /\ Len(labQ[l]) >= 1
         /\ Len(labQ'[l]) = Len(labQ[l]) - 1
         /\ \A i \in 1..Len(labQ[l]) - 1 : labQ'[l][i] = labQ[l][i + 1]
         /\ \A m \in Labs : LabViews(m)' \subseteq LabViews(m)
         /\ \A m \in Labs \ {l} : labC'[m] = labC[m] /\ labQ'[m] = labQ[m]
  <1>1. /\ lab' = lab /\ labC'[l] = Head(labQ[l]) /\ labQ'[l] = Tail(labQ[l])
        /\ \A m \in Labs \ {l} : labC'[m] = labC[m] /\ labQ'[m] = labQ[m]
    BY DEF DeliverLab, TypeOK
  <1>2. labQ[l] \in Seq(LabObj) /\ labQ[l] # <<>>
    BY DEF TypeOK, DeliverLab
  <1>3. /\ Head(labQ[l]) = labQ[l][1] /\ Len(labQ[l]) \in Nat /\ Len(labQ[l]) >= 1
        /\ Len(labQ'[l]) = Len(labQ[l]) - 1
        /\ \A i \in 1..Len(labQ[l]) - 1 : labQ'[l][i] = labQ[l][i + 1]
    BY <1>1, <1>2, TailFacts
  <1>4. LabViews(l)' \subseteq LabViews(l)
    <2> SUFFICES ASSUME NEW v \in LabViews(l)' PROVE v \in LabViews(l)
      OBVIOUS
    <2>1. CASE v = labC'[l]
      BY <1>1, <1>3, <2>1 DEF LabViews
    <2>2. ASSUME NEW i \in 1..Len(labQ'[l]), v = labQ'[l][i] PROVE v \in LabViews(l)
      <3>1. i + 1 \in 1..Len(labQ[l]) /\ v = labQ[l][i + 1]
        BY <1>3, <2>2
      <3>2. QED
        BY <3>1 DEF LabViews
    <2>3. QED
      BY <2>1, <2>2 DEF LabViews
  <1>5. \A m \in Labs \ {l} : LabViews(m)' = LabViews(m)
    BY <1>1 DEF LabViews
  <1>6. QED
    BY <1>1, <1>3, <1>4, <1>5

\* A watch event of a Lab shows nothing that was not already to be shown.
LEMMA DeliverLabKeepsViews ==
  ASSUME TypeOK, ViewsInv, NEW l \in Labs, DeliverLab(l)
  PROVE  ViewsInv'
  <1> USE DeliverLabViews
  <1>1. ViewsArePast' /\ HeldViewsCurrent'
    BY DEF ViewsInv, ViewsArePast, HeldViewsCurrent
  <1>2. \A m \in Labs : \A v \in LabViews(m)' :
          v.ph = "dying" /\ v.uid = lab'[m].uid => lab'[m].ph \in {"dying", "gone"}
    BY DEF ViewsInv, DyingViewsFinal
  <1>3. \A m \in Labs : \A i \in 1..Len(labQ'[m]) :
          labC'[m].ph = "dying" /\ labQ'[m][i].ph = "held"
            => labC'[m].uid # labQ'[m][i].uid
    <2> SUFFICES ASSUME NEW m \in Labs, NEW i \in 1..Len(labQ'[m]),
                        labC'[m].ph = "dying", labQ'[m][i].ph = "held"
                 PROVE  labC'[m].uid # labQ'[m][i].uid
      OBVIOUS
    <2>1. CASE m = l
      <3>1. i + 1 \in 1..Len(labQ[l]) /\ 1 \in 1..Len(labQ[l]) /\ 1 < i + 1
            /\ labQ'[l][i] = labQ[l][i + 1]
        BY <2>1
      <3>2. QED
        BY <2>1, <3>1 DEF ViewsInv, DyingViewsFinal
    <2>2. CASE m # l
      BY <2>2 DEF ViewsInv, DyingViewsFinal
    <2>3. QED
      BY <2>1, <2>2
  <1>4. \A m \in Labs : \A i, j \in 1..Len(labQ'[m]) :
          i < j /\ labQ'[m][i].ph = "dying" /\ labQ'[m][j].ph = "held"
            => labQ'[m][i].uid # labQ'[m][j].uid
    <2> SUFFICES ASSUME NEW m \in Labs, NEW i \in 1..Len(labQ'[m]), NEW j \in 1..Len(labQ'[m]),
                        i < j, labQ'[m][i].ph = "dying", labQ'[m][j].ph = "held"
                 PROVE  labQ'[m][i].uid # labQ'[m][j].uid
      OBVIOUS
    <2>1. CASE m = l
      <3>1. /\ i + 1 \in 1..Len(labQ[l]) /\ j + 1 \in 1..Len(labQ[l]) /\ i + 1 < j + 1
            /\ labQ'[l][i] = labQ[l][i + 1] /\ labQ'[l][j] = labQ[l][j + 1]
        BY <2>1
      <3>2. QED
        BY <2>1, <3>1 DEF ViewsInv, DyingViewsFinal
    <2>2. CASE m # l
      BY <2>2 DEF ViewsInv, DyingViewsFinal
    <2>3. QED
      BY <2>1, <2>2
  <1>5. QED
    BY <1>1, <1>2, <1>3, <1>4 DEF ViewsInv, DyingViewsFinal

-----------------------------------------------------------------------------
(* The steps, as far as OrphanInv is concerned *)

orphanVars == <<lab, labC, labQ, lan, pc, cur, copy, todo>>

\* The part of OrphanInv that depends on the LANs and the worker.
WorkInv == CreatingForHeldLab /\ StrippingDyingLab /\ LanNamedAfterOwner /\ NoOrphanLan

\* A step that touches none of the variables concerned keeps everything.
LEMMA OrphanFrame ==
  ASSUME ViewsInv, WorkInv, UNCHANGED orphanVars
  PROVE  ViewsInv' /\ WorkInv'
  BY DEF orphanVars, ViewsInv, ViewsArePast, HeldViewsCurrent, DyingViewsFinal, LabViews,
     WorkInv, CreatingForHeldLab, StrippingDyingLab, LanNamedAfterOwner, NoOrphanLan

\* A step that touches no Lab keeps what the informer shows of Labs.
LEMMA LabFrame ==
  ASSUME ViewsInv, UNCHANGED labVars
  PROVE  ViewsInv' /\ \A l \in Labs : LabViews(l)' = LabViews(l)
  BY DEF labVars, ViewsInv, ViewsArePast, HeldViewsCurrent, DyingViewsFinal, LabViews

\* A worker that is idle has nothing to keep.
LEMMA IdleKeeps ==
  ASSUME WorkInv, pc' = "idle", UNCHANGED <<lab, lan>>
  PROVE  WorkInv'
  BY DEF WorkInv, CreatingForHeldLab, StrippingDyingLab, LanNamedAfterOwner, NoOrphanLan

\* A LAN is replaced by one with the same owner, and not with the finalizer
\* if it had none (a delete request, or the finalizer is removed).
LEMMA LanShrinks ==
  ASSUME TypeOK, WorkInv, NEW n \in Lans, NEW x \in LanObj, PutLan(n, x),
         HasFinalizer(x) => HasFinalizer(lan[n]), x.owner = lan[n].owner,
         UNCHANGED <<labVars, pc, cur, copy, todo>>
  PROVE  WorkInv'
  <1>1. /\ lan'[n] = x
        /\ \A m \in Lans \ {n} : lan'[m] = lan[m]
    BY DEF PutLan, TypeOK
  <1>2. \A m \in Lans : HasFinalizer(lan'[m]) =>
          HasFinalizer(lan[m]) /\ lan'[m].owner = lan[m].owner
    BY <1>1
  <1>3. CreatingForHeldLab'
    BY DEF WorkInv, CreatingForHeldLab, labVars
  <1>4. StrippingDyingLab'
    BY <1>2 DEF WorkInv, StrippingDyingLab, LabViews, labVars
  <1>5. LanNamedAfterOwner'
    BY <1>2 DEF WorkInv, LanNamedAfterOwner, OwnerName
  <1>6. NoOrphanLan'
    BY <1>2 DEF WorkInv, NoOrphanLan, OwnerName, labVars
  <1>7. QED
    BY <1>3, <1>4, <1>5, <1>6 DEF WorkInv

\* A Lab is replaced by one that keeps its finalizer and its UID, or by a new
\* one where there was none: the worker's promises hold for it as before.
LEMMA LabGrows ==
  ASSUME TypeOK, ViewsInv, WorkInv, NEW l \in Labs, NEW x \in LabObj, PutLab(l, x),
         HasFinalizer(lab[l]) => HasFinalizer(x) /\ x.uid = lab[l].uid,
         x.uid >= lab[l].uid,
         x.uid = lab[l].uid /\ lab[l].ph \in {"dying", "gone"} => x.ph \in {"dying", "gone"},
         pc = "strip" => x.ph # "held",
         UNCHANGED <<lan, pc, cur, copy, todo>>
  PROVE  WorkInv'
  <1> USE PutLabViews
  <1>1. CreatingForHeldLab'
    BY DEF WorkInv, CreatingForHeldLab, TypeOK
  <1>2. StrippingDyingLab'
    <2> SUFFICES ASSUME pc = "strip" PROVE StrippingDyingLab'
      BY DEF StrippingDyingLab
    <2>0. cur \in Labs
      BY DEF TypeOK
    <2>1. CASE cur # l
      BY <2>0, <2>1 DEF WorkInv, StrippingDyingLab
    <2>2. CASE cur = l
      <3>1. x.uid \in Nat /\ lab[l].uid \in Nat /\ copy.uid \in Nat
        BY ConstantsAssumption DEF TypeOK, LabObj
      <3>2. copy.uid <= lab[l].uid /\ copy.ph = "dying"
        BY <2>2 DEF WorkInv, StrippingDyingLab
      <3>3. copy.uid <= x.uid
        BY <3>1, <3>2
      <3>4. copy.uid = x.uid => x.ph \in {"dying", "gone"}
        BY <2>2, <3>1, <3>2 DEF WorkInv, StrippingDyingLab
      <3>5. \A v \in LabViews(cur)' : v.ph = "held" => v.uid # copy.uid
        BY <2>2 DEF WorkInv, StrippingDyingLab
      <3>6. \A m \in Lans : HasFinalizer(lan[m]) /\ lan[m].owner = <<cur, copy.uid>>
                              => \E k \in todo : m = Getk8lanName(cur, k)
        BY DEF WorkInv, StrippingDyingLab
      <3>7. QED
        BY <2>2, <3>2, <3>3, <3>4, <3>5, <3>6 DEF StrippingDyingLab
    <2>3. QED
      BY <2>1, <2>2
  <1>3. LanNamedAfterOwner'
    BY DEF WorkInv, LanNamedAfterOwner
  <1>4. NoOrphanLan'
    <2> SUFFICES ASSUME NEW n \in Lans, HasFinalizer(lan[n])
                 PROVE  /\ lab'[OwnerName(lan[n])].uid = lan[n].owner[2]
                        /\ HasFinalizer(lab'[OwnerName(lan[n])])
      BY DEF NoOrphanLan
    <2>1. OwnerName(lan[n]) \in Labs
      BY DEF TypeOK, LanObj, Uids, OwnerName
    <2>2. QED
      BY <2>1 DEF WorkInv, NoOrphanLan
  <1>5. QED
    BY <1>1, <1>2, <1>3, <1>4 DEF WorkInv


Creating == {"list", "get", "create", "check", "node"}

\* The worker goes on creating, without writing a Lab or a LAN.
LEMMA CreatingKeeps ==
  ASSUME WorkInv, pc \in Creating, pc' \in Creating, UNCHANGED <<lab, lan, cur, copy>>
  PROVE  WorkInv'
  BY DEF WorkInv, CreatingForHeldLab, StrippingDyingLab, LanNamedAfterOwner, NoOrphanLan, Creating

\* The loop of EnsureLinks goes on for the same Lab.
LEMMA NextLinkCreating ==
  ASSUME NextLink
  PROVE  pc' \in Creating /\ UNCHANGED <<cur, copy>>
  BY DEF NextLink, Goto, Creating

\* A reconcile that returns leaves the worker idle.
LEMMA ReturnIdle ==
  ASSUME NEW err, Return(err)
  PROVE  pc' = "idle"
  BY DEF Return

\* The second Get of createIfNotExistsOrRemove finds the LAN.
LEMMA LanFoundKeeps ==
  ASSUME WorkInv, pc \in Creating, LanFound, UNCHANGED lab
  PROVE  WorkInv'
  <1>1. UNCHANGED lan
    BY DEF LanFound, lanVars
  <1>2. CASE NextLink
    BY <1>1, <1>2, NextLinkCreating, CreatingKeeps
  <1>3. CASE Return(FALSE)
    BY <1>1, <1>3, ReturnIdle, IdleKeeps
  <1>4. QED
    BY <1>2, <1>3 DEF LanFound

\* Every step keeps the invariants on the Lab informer.
LEMMA ViewsStep ==
  ASSUME TypeOK, ViewsInv, WorkInv, [Next]_vars
  PROVE  ViewsInv'
<1>1. CASE UNCHANGED labVars
  BY <1>1, LabFrame
<1>2. ASSUME AddFinalizer, lab[cur] = copy PROVE ViewsInv'
  <2>1. cur \in Labs /\ copy \in LabObj /\ copy.ph = "bare"
    BY <1>2 DEF AddFinalizer, TypeOK, WorkInv, CreatingForHeldLab
  <2>2. PutLab(cur, WithFinalizer(copy)) /\ WithFinalizer(copy) \in LabObj
    BY <1>2, <2>1, LabRequests DEF AddFinalizer
  <2>3. WithFinalizer(copy).uid = lab[cur].uid /\ WithFinalizer(copy).ph = "held"
    BY <1>2, <2>1, LabRequests
  <2>4. \A v \in LabViews(cur) : v.ph # "held"
    BY <1>2, <2>1 DEF ViewsInv, HeldViewsCurrent, HasFinalizer
  <2>5. \A v \in LabViews(cur) : ~(v.ph = "dying" /\ v.uid = lab[cur].uid)
    BY <1>2, <2>1 DEF ViewsInv, DyingViewsFinal
  <2>6. WithFinalizer(copy).uid >= lab[cur].uid
    BY <1>2, <2>1, <2>3, ConstantsAssumption DEF LabObj
  <2>7. QED
    BY <2>1, <2>2, <2>3, <2>4, <2>5, <2>6, PutLabKeepsViews
<1>3. ASSUME RemoveFinalizer, lab[cur] = copy PROVE ViewsInv'
  <2>1. cur \in Labs /\ copy \in LabObj /\ copy.ph = "dying" /\ pc = "strip"
    BY <1>3 DEF RemoveFinalizer, TypeOK, WorkInv, StrippingDyingLab
  <2>2. PutLab(cur, WithoutFinalizer(copy)) /\ WithoutFinalizer(copy) \in LabObj
    BY <1>3, <2>1, LabRequests DEF RemoveFinalizer
  <2>3. WithoutFinalizer(copy).uid = lab[cur].uid /\ WithoutFinalizer(copy).ph = "gone"
    BY <1>3, <2>1, LabRequests
  <2>4. \A v \in LabViews(cur) : v.ph # "held"
    BY <1>3, <2>1 DEF ViewsInv, HeldViewsCurrent, WorkInv, StrippingDyingLab
  <2>5. WithoutFinalizer(copy).uid >= lab[cur].uid
    BY <1>3, <2>1, <2>3, ConstantsAssumption DEF LabObj
  <2>6. QED
    BY <2>1, <2>2, <2>3, <2>4, <2>5, PutLabKeepsViews
<1>4. ASSUME NEW l \in Labs, DeliverLab(l) PROVE ViewsInv'
  BY <1>4, DeliverLabKeepsViews
<1>5. CASE Crash
  <2>1. lab' = lab /\ labC' = lab /\ \A l \in Labs : labQ'[l] = <<>>
    BY <1>5 DEF Crash
  <2>2. \A l \in Labs : LabViews(l)' = {lab[l]}
    BY <2>1 DEF LabViews
  <2>3. \A l \in Labs : lab[l].uid \in Nat
    BY ConstantsAssumption DEF TypeOK, LabObj
  <2>4. ViewsArePast' /\ HeldViewsCurrent'
    BY <2>1, <2>2, <2>3 DEF ViewsArePast, HeldViewsCurrent, HasFinalizer
  <2>5. DyingViewsFinal'
    BY <2>1, <2>2 DEF DyingViewsFinal
  <2>6. QED
    BY <2>4, <2>5 DEF ViewsInv
<1>6. ASSUME NEW l \in Labs, UserCreateLab(l) PROVE ViewsInv'
  <2> DEFINE x == [ph |-> "bare", uid |-> lab[l].uid + 1]
  <2>1. x \in LabObj /\ PutLab(l, x)
    BY <1>6, NewLabType DEF UserCreateLab
  <2>2. lab[l].uid \in Nat /\ x.uid = lab[l].uid + 1 /\ x.ph = "bare"
    BY ConstantsAssumption DEF TypeOK, LabObj
  <2>3. \A v \in LabViews(l) : v.ph # "held"
    BY <1>6 DEF UserCreateLab, ViewsInv, HeldViewsCurrent, HasFinalizer, Exists
  <2>4. \A v \in LabViews(l) : v.uid <= lab[l].uid /\ v.uid \in Nat
    <3>1. labC[l] \in LabObj /\ labQ[l] \in Seq(LabObj)
      BY DEF TypeOK
    <3>2. \A v \in LabViews(l) : v \in LabObj
      BY <3>1, ElementType DEF LabViews
    <3>3. QED
      BY <3>2, ConstantsAssumption DEF LabObj, ViewsInv, ViewsArePast
  <2>5. \A v \in LabViews(l) : v.uid # x.uid
    BY <2>2, <2>4
  <2>6. x.uid >= lab[l].uid
    BY <2>2
  <2> HIDE DEF x
  <2>7. QED
    BY <2>1, <2>3, <2>5, <2>6, PutLabKeepsViews
<1>7. ASSUME NEW l \in Labs, UserDeleteLab(l) PROVE ViewsInv'
  <2>1. lab[l] \in LabObj /\ lab[l].ph \in {"bare", "held"} /\ PutLab(l, Deleted(lab[l]))
    BY <1>7 DEF UserDeleteLab, TypeOK
  <2>2. /\ Deleted(lab[l]) \in LabObj /\ Deleted(lab[l]).uid = lab[l].uid
        /\ Deleted(lab[l]).ph \in {"dying", "gone"}
        /\ lab[l].ph = "held" => Deleted(lab[l]).ph = "dying"
    BY <2>1, LabRequests
  <2>3. \A v \in LabViews(l) : v.ph = "held" => v.uid = lab[l].uid /\ lab[l].ph = "held"
    BY <2>1 DEF ViewsInv, HeldViewsCurrent, HasFinalizer
  <2>4. Deleted(lab[l]).uid >= lab[l].uid
    BY <2>1, <2>2, ConstantsAssumption DEF LabObj
  <2>5. QED
    BY <2>1, <2>2, <2>3, <2>4, PutLabKeepsViews DEF HasFinalizer
<1>8. \/ UNCHANGED labVars
      \/ AddFinalizer /\ lab[cur] = copy
      \/ RemoveFinalizer /\ lab[cur] = copy
      \/ \E l \in Labs : DeliverLab(l) \/ UserCreateLab(l) \/ UserDeleteLab(l)
      \/ Crash
  BY DEF Next, Worker, Informers, Collector, Environment, StartReconcile, AddFinalizer,
     GetAvailableVNIs, GetLan, CreateLan, CheckLan, EnsureNode, EndReconcile, StripLan,
     RemoveFinalizer, DeliverLan, DeliverWl, CollectLan, CollectWl, LoadConfig, ApiError,
     Resync, UserDeleteLan, LoseWorkload, vars
<1>9. QED
  BY <1>1, <1>2, <1>3, <1>4, <1>5, <1>6, <1>7, <1>8


\* Every step keeps the invariants on the LANs and the worker.
LEMMA WorkStep ==
  ASSUME TypeOK, ViewsInv, WorkInv, [Next]_vars
  PROVE  WorkInv'
<1>1. ASSUME NEW l \in Labs, StartReconcile(l) PROVE WorkInv'
  <2>1. lab' = lab /\ lan' = lan /\ labC' = labC /\ labQ' = labQ /\ pc = "idle"
    BY <1>1 DEF StartReconcile, labVars, lanVars
  <2>2. LanNamedAfterOwner' /\ NoOrphanLan'
    BY <2>1 DEF WorkInv, LanNamedAfterOwner, NoOrphanLan
  <2>3. CASE ~Exists(labC[l])
    BY <1>1, <2>1, <2>3, IdleKeeps DEF StartReconcile
  <2>4. labC[l] \in LabObj /\ labC[l] \in LabViews(l)
    BY DEF TypeOK, LabViews
  <2>5. CASE labC[l].ph = "bare"
    <3>1. pc' = "addFinalizer" /\ copy' = labC[l]
      BY <1>1, <2>5 DEF StartReconcile, Exists
    <3>2. QED
      BY <2>2, <2>5, <3>1 DEF WorkInv, CreatingForHeldLab, StrippingDyingLab
  <2>6. CASE labC[l].ph = "held"
    <3>1. pc' = "list" /\ copy' = labC[l] /\ cur' = l
      BY <1>1, <2>6 DEF StartReconcile, Exists
    <3>2. labC[l].uid = lab[l].uid /\ HasFinalizer(lab[l])
      BY <2>4, <2>6 DEF ViewsInv, HeldViewsCurrent
    <3>3. QED
      BY <2>1, <2>2, <2>6, <3>1, <3>2 DEF WorkInv, CreatingForHeldLab, StrippingDyingLab
  <2>7. CASE labC[l].ph = "dying"
    <3>1. pc' = "strip" /\ copy' = labC[l] /\ cur' = l /\ todo' = LinksOf(l)
      BY <1>1, <2>7 DEF StartReconcile, Exists
    <3>2. labC[l].uid <= lab[l].uid
      BY <2>4 DEF ViewsInv, ViewsArePast
    <3>3. labC[l].uid = lab[l].uid => lab[l].ph \in {"dying", "gone"}
      BY <2>4, <2>7 DEF ViewsInv, DyingViewsFinal
    <3>4. \A v \in LabViews(l) : v.ph = "held" => v.uid # labC[l].uid
      BY <2>7 DEF ViewsInv, DyingViewsFinal, LabViews
    <3>5. \A n \in Lans : HasFinalizer(lan[n]) /\ lan[n].owner = <<l, labC[l].uid>>
                            => \E k \in LinksOf(l) : n = Getk8lanName(l, k)
      BY DEF WorkInv, LanNamedAfterOwner, OwnerName
    <3>6. LabViews(l)' = LabViews(l)
      BY <2>1 DEF LabViews
    <3>7. StrippingDyingLab'
      BY <2>1, <2>7, <3>1, <3>2, <3>3, <3>4, <3>5, <3>6 DEF StrippingDyingLab
    <3>8. QED
      BY <2>2, <3>1, <3>7 DEF WorkInv, CreatingForHeldLab
  <2>8. QED
    BY <2>3, <2>4, <2>5, <2>6, <2>7 DEF LabObj, Phase, Exists
<1>2. CASE AddFinalizer
  <2>1. lan' = lan /\ pc = "addFinalizer" /\ cur \in Labs /\ copy \in LabObj /\ copy.ph = "bare"
    BY <1>2 DEF AddFinalizer, lanVars, TypeOK, WorkInv, CreatingForHeldLab
  <2>2. CASE lab[cur] # copy
    BY <1>2, <2>1, <2>2, ReturnIdle, IdleKeeps DEF AddFinalizer, labVars
  <2>3. CASE lab[cur] = copy
    <3>1. /\ PutLab(cur, WithFinalizer(copy)) /\ pc' = "list" /\ cur' = cur
          /\ copy' = WithFinalizer(copy)
      BY <1>2, <2>3 DEF AddFinalizer
    <3>2. /\ WithFinalizer(copy) \in LabObj /\ WithFinalizer(copy).ph = "held"
          /\ WithFinalizer(copy).uid = lab[cur].uid
      BY <2>1, <2>3, LabRequests
    <3>3. lab'[cur] = WithFinalizer(copy) /\ \A m \in Labs \ {cur} : lab'[m] = lab[m]
      BY <2>1, <3>1, <3>2, PutLabViews
    <3>4. CreatingForHeldLab' /\ StrippingDyingLab'
      BY <3>1, <3>2, <3>3 DEF CreatingForHeldLab, StrippingDyingLab, HasFinalizer
    <3>5. \A n \in Lans : OwnerName(lan[n]) \in Labs
      BY DEF TypeOK, LanObj, Uids, OwnerName
    <3>6. NoOrphanLan'
      BY <2>1, <2>3, <3>2, <3>3, <3>5 DEF WorkInv, NoOrphanLan, HasFinalizer
    <3>7. LanNamedAfterOwner'
      BY <2>1 DEF WorkInv, LanNamedAfterOwner
    <3>8. QED
      BY <3>4, <3>6, <3>7 DEF WorkInv
  <2>4. QED
    BY <2>2, <2>3
<1>3. CASE GetAvailableVNIs
  <2>1. pc \in Creating /\ UNCHANGED <<lab, lan>>
    BY <1>3 DEF GetAvailableVNIs, Creating, labVars, lanVars
  <2>2. CASE Return(FALSE)
    BY <2>1, <2>2, ReturnIdle, IdleKeeps
  <2>3. CASE pc' \in {"node", "get"} /\ UNCHANGED <<cur, copy>>
    BY <2>1, <2>3, CreatingKeeps DEF Creating
  <2>4. QED
    BY <1>3, <2>2, <2>3 DEF GetAvailableVNIs, Goto
<1>4. CASE GetLan
  <2>1. pc \in Creating /\ UNCHANGED <<lab, lan>>
    BY <1>4 DEF GetLan, Creating, labVars, lanVars
  <2>2. CASE Return(TRUE)
    BY <2>1, <2>2, ReturnIdle, IdleKeeps
  <2>3. CASE pc' \in {"create", "check"} /\ UNCHANGED <<cur, copy>>
    BY <2>1, <2>3, CreatingKeeps DEF Creating
  <2>4. QED
    BY <1>4, <2>2, <2>3 DEF GetLan, Goto
<1>5. CASE CreateLan
  <2>1. pc = "create" /\ UNCHANGED lab
    BY <1>5 DEF CreateLan, labVars
  <2>2. CASE LanFound
    BY <2>1, <2>2, LanFoundKeeps DEF Creating
  <2>3. CASE Return(FALSE) /\ UNCHANGED lanVars
    BY <2>1, <2>3, ReturnIdle, IdleKeeps DEF lanVars
  <2>4. CASE /\ PutLan(lanName, [ph |-> "held", owner |-> <<cur, copy.uid>>,
                                 vni |-> spokes[link]])
             /\ NextLink
    <3>1. link \in LinksOf(cur) /\ lanName \in Lans /\ lanName = Getk8lanName(cur, link)
      BY <2>1, CurrentLink DEF lanName
    <3>2. pc' \in Creating /\ cur' = cur /\ copy' = copy
      BY <2>4, NextLinkCreating
    <3>3. /\ lan'[lanName].owner = <<cur, copy.uid>>
          /\ \A m \in Lans \ {lanName} : lan'[m] = lan[m]
      BY <2>4, <3>1 DEF PutLan, TypeOK
    <3>4. copy.ph = "held" /\ copy.uid = lab[cur].uid /\ HasFinalizer(lab[cur])
      BY <2>1 DEF WorkInv, CreatingForHeldLab
    <3>5. CreatingForHeldLab' /\ StrippingDyingLab'
      BY <2>1, <3>2, <3>4 DEF CreatingForHeldLab, StrippingDyingLab, Creating
    <3>6. NoOrphanLan'
      BY <2>1, <3>3, <3>4 DEF WorkInv, NoOrphanLan, OwnerName
    <3>7. LanNamedAfterOwner'
      BY <3>1, <3>3 DEF WorkInv, LanNamedAfterOwner, OwnerName
    <3>8. QED
      BY <3>5, <3>6, <3>7 DEF WorkInv
  <2>5. QED
    BY <1>5, <2>2, <2>3, <2>4 DEF CreateLan
<1>6. CASE CheckLan
  <2>1. pc = "check" /\ UNCHANGED lab
    BY <1>6 DEF CheckLan, labVars
  <2>2. CASE LanFound
    BY <2>1, <2>2, LanFoundKeeps DEF Creating
  <2>3. CASE Return(FALSE) /\ UNCHANGED lanVars
    BY <2>1, <2>3, ReturnIdle, IdleKeeps DEF lanVars
  <2>4. QED
    BY <1>6, <2>2, <2>3 DEF CheckLan
<1>7. ASSUME NEW m \in Nodes, EnsureNode(m) PROVE WorkInv'
  <2>1. pc \in Creating /\ UNCHANGED <<lab, lan>>
    BY <1>7 DEF EnsureNode, Creating, labVars, lanVars
  <2>2. CASE Return(FALSE)
    BY <2>1, <2>2, ReturnIdle, IdleKeeps
  <2>3. CASE Goto("node")
    BY <2>1, <2>3, CreatingKeeps DEF Creating, Goto
  <2>4. QED
    BY <1>7, <2>2, <2>3 DEF EnsureNode
<1>8. CASE EndReconcile \/ ApiError \/ Crash
  <2>1. pc' = "idle" /\ UNCHANGED <<lab, lan>>
    BY <1>8 DEF EndReconcile, ApiError, Crash, Return, labVars, lanVars
  <2>2. QED
    BY <2>1, IdleKeeps
<1>9. ASSUME NEW k \in Links, StripLan(k) PROVE WorkInv'
  <2> DEFINE n == Getk8lanName(cur, k)
  <2>1. pc = "strip" /\ k \in todo /\ UNCHANGED labVars /\ n \in Lans
    BY <1>9, LanNames DEF StripLan, TypeOK
  <2>2. CASE Return(TRUE) /\ UNCHANGED lanVars
    BY <2>1, <2>2, ReturnIdle, IdleKeeps DEF lanVars, labVars
  <2>3. ASSUME todo' = todo \ {k}, Goto("strip"),
               IF HasFinalizer(lan[n]) THEN PutLan(n, WithoutFinalizer(lan[n])) ELSE UNCHANGED lanVars
        PROVE  WorkInv'
    <3>1. pc' = "strip" /\ cur' = cur /\ copy' = copy /\ lab' = lab /\ labC' = labC /\ labQ' = labQ
      BY <2>1, <2>3 DEF Goto, labVars
    <3>2. /\ ~HasFinalizer(lan'[n])
          /\ \A m \in Lans : HasFinalizer(lan'[m]) => lan'[m] = lan[m]
      <4>1. CASE HasFinalizer(lan[n])
        <5>1. lan[n] \in LanObj
          BY <2>1 DEF TypeOK
        <5>2. lan'[n] = WithoutFinalizer(lan[n]) /\ \A m \in Lans \ {n} : lan'[m] = lan[m]
          BY <2>1, <2>3, <4>1 DEF PutLan, TypeOK
        <5>3. ~HasFinalizer(WithoutFinalizer(lan[n]))
          BY <5>1, LanRequests
        <5>4. QED
          BY <5>2, <5>3 DEF HasFinalizer
      <4>2. CASE ~HasFinalizer(lan[n])
        BY <2>3, <4>2 DEF lanVars
      <4>3. QED
        BY <4>1, <4>2
    <3>3. \A m \in Lans : HasFinalizer(lan'[m]) /\ lan'[m].owner = <<cur, copy.uid>>
                            => \E j \in todo' : m = Getk8lanName(cur, j)
      <4> SUFFICES ASSUME NEW m \in Lans, HasFinalizer(lan'[m]), lan'[m].owner = <<cur, copy.uid>>
                   PROVE  \E j \in todo' : m = Getk8lanName(cur, j)
        OBVIOUS
      <4>1. m # n /\ HasFinalizer(lan[m]) /\ lan[m].owner = <<cur, copy.uid>>
        BY <3>2
      <4>2. PICK j \in todo : m = Getk8lanName(cur, j)
        BY <2>1, <4>1 DEF WorkInv, StrippingDyingLab
      <4>3. j # k
        BY <4>1, <4>2
      <4>4. QED
        BY <2>3, <4>2, <4>3
    <3>4. StrippingDyingLab'
      BY <2>1, <3>1, <3>3 DEF WorkInv, StrippingDyingLab, LabViews
    <3>5. CreatingForHeldLab'
      BY <3>1 DEF CreatingForHeldLab
    <3>6. LanNamedAfterOwner' /\ NoOrphanLan'
      BY <3>1, <3>2 DEF WorkInv, LanNamedAfterOwner, NoOrphanLan
    <3>7. QED
      BY <3>4, <3>5, <3>6 DEF WorkInv
  <2>4. QED
    BY <1>9, <2>2, <2>3 DEF StripLan
<1>10. CASE RemoveFinalizer
  <2>1. pc = "strip" /\ todo = {} /\ lan' = lan /\ pc' = "idle"
    BY <1>10 DEF RemoveFinalizer, Return, lanVars
  <2>2. CASE UNCHANGED labVars
    BY <2>1, <2>2, IdleKeeps DEF labVars
  <2>3. CASE lab[cur] = copy /\ PutLab(cur, WithoutFinalizer(copy))
    <3>1. cur \in Labs /\ WithoutFinalizer(copy) \in LabObj
      BY LabRequests DEF TypeOK
    <3>2. \A m \in Labs \ {cur} : lab'[m] = lab[m]
      BY <2>3, <3>1, PutLabViews
    <3>3. \A n \in Lans : HasFinalizer(lan[n]) => OwnerName(lan[n]) \in Labs \ {cur}
      <4> SUFFICES ASSUME NEW n \in Lans, HasFinalizer(lan[n]), OwnerName(lan[n]) = cur
                   PROVE  FALSE
        BY DEF TypeOK, LanObj, Uids, OwnerName
      <4>1. lan[n].owner \in Labs \X (0..MaxUid)
        BY DEF TypeOK, LanObj, Uids
      <4>2. lan[n].owner = <<cur, copy.uid>>
        BY <2>3, <4>1 DEF WorkInv, NoOrphanLan, OwnerName
      <4>3. QED
        BY <2>1, <4>2 DEF WorkInv, StrippingDyingLab
    <3>4. NoOrphanLan'
      BY <2>1, <3>2, <3>3 DEF WorkInv, NoOrphanLan
    <3>5. QED
      BY <2>1, <3>4 DEF WorkInv, CreatingForHeldLab, StrippingDyingLab, LanNamedAfterOwner
  <2>4. QED
    BY <1>10, <2>2, <2>3 DEF RemoveFinalizer
<1>11. ASSUME NEW l \in Labs, DeliverLab(l) PROVE WorkInv'
  <2>1. UNCHANGED <<lab, lan, pc, cur, copy, todo>>
    BY <1>11 DEF DeliverLab, lanVars, workerVars
  <2>2. LabViews(cur)' \subseteq LabViews(cur)
    <3>1. \A m \in Labs : LabViews(m)' \subseteq LabViews(m)
      BY <1>11, DeliverLabViews
    <3>2. LabViews(cur)' = {labC'[cur]} \cup {labQ'[cur][i] : i \in 1..Len(labQ'[cur])}
      BY <2>1 DEF LabViews
    <3>3. QED
      BY <3>1, <3>2 DEF TypeOK, LabViews
  <2>3. StrippingDyingLab'
    BY <2>1, <2>2 DEF WorkInv, StrippingDyingLab
  <2>4. QED
    BY <2>1, <2>3 DEF WorkInv, CreatingForHeldLab, LanNamedAfterOwner, NoOrphanLan
<1>12. ASSUME NEW l \in Labs, UserCreateLab(l) PROVE WorkInv'
  <2> DEFINE x == [ph |-> "bare", uid |-> lab[l].uid + 1]
  <2>1. x \in LabObj /\ PutLab(l, x)
    BY <1>12, NewLabType DEF UserCreateLab
  <2>2. lab[l].uid \in Nat /\ x.uid = lab[l].uid + 1 /\ x.ph = "bare" /\ lab[l].ph = "gone"
    BY <1>12, ConstantsAssumption DEF UserCreateLab, TypeOK, LabObj, Exists
  <2>3. UNCHANGED <<lan, pc, cur, copy, todo>>
    BY <1>12 DEF UserCreateLab, lanVars, workerVars
  <2>4. x.uid >= lab[l].uid /\ x.uid # lab[l].uid
    BY <2>2
  <2>5. ~HasFinalizer(lab[l]) /\ x.ph # "held"
    BY <2>2 DEF HasFinalizer
  <2> HIDE DEF x
  <2>6. QED
    BY <2>1, <2>3, <2>4, <2>5, LabGrows
<1>13. ASSUME NEW l \in Labs, UserDeleteLab(l) PROVE WorkInv'
  <2>1. /\ lab[l] \in LabObj /\ lab[l].ph \in {"bare", "held"} /\ PutLab(l, Deleted(lab[l]))
        /\ UNCHANGED <<lan, pc, cur, copy, todo>>
    BY <1>13 DEF UserDeleteLab, TypeOK, lanVars, workerVars
  <2>2. /\ Deleted(lab[l]) \in LabObj /\ Deleted(lab[l]).uid = lab[l].uid
        /\ Deleted(lab[l]).ph \in {"dying", "gone"}
        /\ lab[l].ph = "held" => Deleted(lab[l]).ph = "dying"
    BY <2>1, LabRequests
  <2>3. Deleted(lab[l]).uid >= lab[l].uid
    BY <2>1, <2>2, ConstantsAssumption DEF LabObj
  <2>4. HasFinalizer(lab[l]) => HasFinalizer(Deleted(lab[l]))
    BY <2>1, <2>2 DEF HasFinalizer
  <2>5. QED
    BY <2>1, <2>2, <2>3, <2>4, LabGrows
<1>14. ASSUME NEW n \in Lans, UserDeleteLan(n) \/ CollectLan(n) PROVE WorkInv'
  <2>1. /\ lan[n] \in LanObj /\ PutLan(n, Deleted(lan[n]))
        /\ UNCHANGED <<labVars, pc, cur, copy, todo>>
    BY <1>14 DEF UserDeleteLan, CollectLan, TypeOK, workerVars
  <2>2. QED
    BY <2>1, LanRequests, LanShrinks
<1>15. CASE UNCHANGED orphanVars
  BY <1>15, OrphanFrame
<1>16. ASSUME NEW l \in Labs, NEW m \in Nodes,
              DeliverWl(l, m) \/ LoseWorkload(l, m) \/ CollectWl(l, m)
       PROVE  WorkInv'
  BY <1>16, <1>15 DEF DeliverWl, LoseWorkload, CollectWl, orphanVars, labVars, lanVars, workerVars
<1>17. CASE DeliverLan \/ Resync \/ LoadConfig \/ UNCHANGED vars
  BY <1>17, <1>15 DEF DeliverLan, Resync, LoadConfig, vars, orphanVars, labVars, lanVars, workerVars
<1>18. QED
  BY <1>1, <1>2, <1>3, <1>4, <1>5, <1>6, <1>7, <1>8, <1>9, <1>10, <1>11, <1>12, <1>13,
     <1>14, <1>16, <1>17 DEF Next, Worker, Informers, Collector, Environment

\* Initially there is no Lab and no LAN.
LEMMA OrphanInit == Init => ViewsInv /\ WorkInv
  <1> SUFFICES ASSUME Init PROVE ViewsInv /\ WorkInv
    OBVIOUS
  <1>1. \A l \in Labs : lab[l] = NoLab /\ labQ[l] = <<>> /\ LabViews(l) = {NoLab}
    BY DEF Init, LabViews
  <1>2. \A n \in Lans : ~HasFinalizer(lan[n])
    BY DEF Init, NoLan, HasFinalizer
  <1>3. ViewsInv
    BY <1>1 DEF ViewsInv, ViewsArePast, HeldViewsCurrent, DyingViewsFinal, NoLab
  <1>4. pc = "idle"
    BY DEF Init
  <1>5. QED
    BY <1>2, <1>3, <1>4 DEF WorkInv, CreatingForHeldLab, StrippingDyingLab,
       LanNamedAfterOwner, NoOrphanLan

\* The inductive invariant holds in every reachable state.
THEOREM OrphanInvariant == Spec => []OrphanInv
  <1>1. Init => OrphanInv
    BY TypeInit, OrphanInit DEF OrphanInv, ViewsInv, WorkInv
  <1>2. OrphanInv /\ [Next]_vars => OrphanInv'
    BY TypeStep, ViewsStep, WorkStep DEF OrphanInv, ViewsInv, WorkInv
  <1>3. QED
    BY <1>1, <1>2, PTL DEF Spec

\* A LAN that carries the operator's finalizer always has its Lab, with the
\* Lab's own finalizer, so that deleteExternalResources will come to it: for
\* any number of Labs and links, any lag of the informer caches, any crash.
THEOREM NoOrphanLanTheorem == Spec => []NoOrphanLan
  <1>1. OrphanInv => NoOrphanLan
    BY DEF OrphanInv
  <1>2. QED
    BY <1>1, OrphanInvariant, PTL

-----------------------------------------------------------------------------
(* Whose finalizers are removed *)

\* The Lab informer shows the Labs of one name in the order of their UIDs.
SeenInOrder ==
  \A l \in Labs :
    /\ \A i \in 1..Len(labQ[l]) : labC[l].uid <= labQ[l][i].uid
    /\ \A i, j \in 1..Len(labQ[l]) : i < j => labQ[l][i].uid <= labQ[l][j].uid

\* Whoever gave a Lab its finalizer had seen it, and no former Lab is to come.
FinalizerSeen ==
  \A l \in Labs : HasFinalizer(lab[l]) => \A v \in LabViews(l) : v.uid = lab[l].uid

\* Nor does the worker strip for a former Lab when the present one has LANs.
WorkerUpToDate ==
  /\ pc = "addFinalizer" => \A v \in LabViews(cur) : copy.uid <= v.uid
  /\ pc = "strip" /\ HasFinalizer(lab[cur]) => copy.uid = lab[cur].uid

StripInv == SeenInOrder /\ FinalizerSeen /\ WorkerUpToDate

\* The UIDs that are seen are numbers.
LEMMA ViewTypes ==
  ASSUME TypeOK, NEW l \in Labs
  PROVE  /\ \A v \in LabViews(l) : v \in LabObj /\ v.uid \in Nat
         /\ lab[l].uid \in Nat /\ labC[l] \in LabViews(l) /\ Len(labQ[l]) \in Nat
         /\ \A i \in 1..Len(labQ[l]) : labQ[l][i] \in LabViews(l)
  <1>1. labC[l] \in LabObj /\ labQ[l] \in Seq(LabObj) /\ lab[l] \in LabObj
    BY DEF TypeOK
  <1>2. \A v \in LabViews(l) : v \in LabObj
    BY <1>1, ElementType DEF LabViews
  <1>3. \A v \in LabObj : v.uid \in Nat
    BY ConstantsAssumption DEF LabObj
  <1>4. QED
    BY <1>1, <1>2, <1>3 DEF LabViews

\* What is written to a Lab.
LEMMA LabWrites ==
  ASSUME TypeOK, ViewsInv, WorkInv, [Next]_vars
  PROVE  \/ UNCHANGED labVars
         \/ \E l \in Labs : DeliverLab(l)
         \/ Crash
         \/ \E l \in Labs : \E x \in LabObj :
              /\ PutLab(l, x) /\ x.uid >= lab[l].uid
              /\ x.ph = "held" => /\ pc = "addFinalizer" /\ l = cur /\ lab[l] = copy
                                  /\ x.uid = copy.uid /\ pc' = "list" /\ copy.ph = "bare"
              /\ x.ph = "dying" => lab[l].ph = "held" /\ x.uid = lab[l].uid
              /\ x.ph = "bare" => x.uid > lab[l].uid
<1>1. ASSUME AddFinalizer, lab[cur] = copy
      PROVE  \E x \in LabObj :
               /\ PutLab(cur, x) /\ x.uid = copy.uid /\ x.ph = "held" /\ pc' = "list"
  <2>1. copy \in LabObj /\ copy.ph = "bare"
    BY <1>1 DEF AddFinalizer, TypeOK, WorkInv, CreatingForHeldLab
  <2>2. QED
    BY <1>1, <2>1, LabRequests DEF AddFinalizer
<1>2. ASSUME RemoveFinalizer, lab[cur] = copy
      PROVE  \E x \in LabObj : PutLab(cur, x) /\ x.uid = lab[cur].uid /\ x.ph = "gone"
  <2>1. copy \in LabObj /\ copy.ph = "dying"
    BY <1>2 DEF RemoveFinalizer, TypeOK, WorkInv, StrippingDyingLab
  <2>2. QED
    BY <1>2, <2>1, LabRequests DEF RemoveFinalizer
<1>3. ASSUME NEW l \in Labs, UserCreateLab(l)
      PROVE  \E x \in LabObj : PutLab(l, x) /\ x.uid = lab[l].uid + 1 /\ x.ph = "bare"
  <2>1. [ph |-> "bare", uid |-> lab[l].uid + 1] \in LabObj
    BY <1>3, NewLabType
  <2>2. QED
    BY <1>3, <2>1 DEF UserCreateLab
<1>4. ASSUME NEW l \in Labs, UserDeleteLab(l)
      PROVE  \E x \in LabObj : /\ PutLab(l, x) /\ x.uid = lab[l].uid
                               /\ x.ph \in {"gone", "dying"}
                               /\ x.ph = "dying" => lab[l].ph = "held"
  <2>1. lab[l] \in LabObj /\ lab[l].ph \in {"bare", "held"} /\ PutLab(l, Deleted(lab[l]))
    BY <1>4 DEF UserDeleteLab, TypeOK
  <2>2. QED
    BY <2>1, LabRequests
<1>5. \A l \in Labs : lab[l].uid \in Nat
  BY ViewTypes
<1>6. AddFinalizer => cur \in Labs /\ pc = "addFinalizer" /\ copy.ph = "bare"
  BY DEF AddFinalizer, TypeOK, WorkInv, CreatingForHeldLab
<1>7. \/ UNCHANGED labVars
      \/ AddFinalizer /\ lab[cur] = copy
      \/ RemoveFinalizer /\ lab[cur] = copy
      \/ \E l \in Labs : DeliverLab(l) \/ UserCreateLab(l) \/ UserDeleteLab(l)
      \/ Crash
  BY DEF Next, Worker, Informers, Collector, Environment, StartReconcile, AddFinalizer,
     GetAvailableVNIs, GetLan, CreateLan, CheckLan, EnsureNode, EndReconcile, StripLan,
     RemoveFinalizer, DeliverLan, DeliverWl, CollectLan, CollectWl, LoadConfig, ApiError,
     Resync, UserDeleteLan, LoseWorkload, vars
<1>8. CASE AddFinalizer /\ lab[cur] = copy
  <2>1. PICK x \in LabObj : PutLab(cur, x) /\ x.uid = copy.uid /\ x.ph = "held" /\ pc' = "list"
    BY <1>1, <1>8
  <2>2. x.uid >= lab[cur].uid
    BY <1>5, <1>6, <1>8, <2>1
  <2>3. QED
    BY <1>6, <1>8, <2>1, <2>2
<1>9. CASE RemoveFinalizer /\ lab[cur] = copy
  <2>1. PICK x \in LabObj : PutLab(cur, x) /\ x.uid = lab[cur].uid /\ x.ph = "gone"
    BY <1>2, <1>9
  <2>2. cur \in Labs /\ x.uid >= lab[cur].uid
    BY <1>5, <2>1 DEF TypeOK
  <2>3. QED
    BY <2>1, <2>2
<1>10. ASSUME NEW l \in Labs, UserCreateLab(l) \/ UserDeleteLab(l)
       PROVE  \E x \in LabObj :
                /\ PutLab(l, x) /\ x.uid >= lab[l].uid /\ x.ph # "held"
                /\ x.ph = "dying" => lab[l].ph = "held" /\ x.uid = lab[l].uid
                /\ x.ph = "bare" => x.uid > lab[l].uid
  <2>1. lab[l].uid \in Nat
    BY <1>5
  <2>2. CASE UserCreateLab(l)
    BY <1>3, <2>1, <2>2
  <2>3. CASE UserDeleteLab(l)
    BY <1>4, <2>1, <2>3
  <2>4. QED
    BY <1>10, <2>2, <2>3
<1>11. QED
  BY <1>7, <1>8, <1>9, <1>10

\* The worker gets to these steps from the workqueue only.
LEMMA StripWorker ==
  ASSUME [Next]_vars, pc' \in {"addFinalizer", "strip"}
  PROVE  (\E l \in Labs : StartReconcile(l)) \/ UNCHANGED <<pc, cur, copy>>
  BY DEF Next, Worker, Informers, Collector, Environment, AddFinalizer, Goto, Return, NextLink,
     LanFound, GetAvailableVNIs, GetLan, CreateLan, CheckLan, EnsureNode, EndReconcile, StripLan,
     RemoveFinalizer, DeliverLab, DeliverLan, DeliverWl, CollectLan, CollectWl, LoadConfig,
     ApiError, Crash, Resync, UserCreateLab, UserDeleteLab, UserDeleteLan, LoseWorkload, vars,
     workerVars

\* Every step keeps the order in which the Lab informer shows Labs.
LEMMA InOrderStep ==
  ASSUME TypeOK, ViewsInv, WorkInv, SeenInOrder, [Next]_vars
  PROVE  SeenInOrder'
  <1>1. CASE UNCHANGED labVars
    BY <1>1 DEF labVars, SeenInOrder
  <1>2. ASSUME NEW l \in Labs, DeliverLab(l) PROVE SeenInOrder'
    <2> USE <1>2, DeliverLabViews
    <2>1. ASSUME NEW i \in 1..Len(labQ'[l]) PROVE labC'[l].uid <= labQ'[l][i].uid
      <3>1. i + 1 \in 1..Len(labQ[l]) /\ 1 \in 1..Len(labQ[l]) /\ 1 < i + 1
            /\ labQ'[l][i] = labQ[l][i + 1]
        OBVIOUS
      <3>2. QED
        BY <3>1 DEF SeenInOrder
    <2>2. ASSUME NEW i \in 1..Len(labQ'[l]), NEW j \in 1..Len(labQ'[l]), i < j
          PROVE  labQ'[l][i].uid <= labQ'[l][j].uid
      <3>1. /\ i + 1 \in 1..Len(labQ[l]) /\ j + 1 \in 1..Len(labQ[l]) /\ i + 1 < j + 1
            /\ labQ'[l][i] = labQ[l][i + 1] /\ labQ'[l][j] = labQ[l][j + 1]
        BY <2>2
      <3>2. QED
        BY <3>1 DEF SeenInOrder
    <2>3. \A m \in Labs \ {l} : labC'[m] = labC[m] /\ labQ'[m] = labQ[m]
      OBVIOUS
    <2>4. QED
      BY <2>1, <2>2, <2>3 DEF SeenInOrder
  <1>3. CASE Crash
    <2>1. \A l \in Labs : labQ'[l] = <<>>
      BY <1>3 DEF Crash
    <2>2. QED
      BY <2>1 DEF SeenInOrder
  <1>4. ASSUME NEW l \in Labs, NEW x \in LabObj, PutLab(l, x), x.uid >= lab[l].uid
        PROVE  SeenInOrder'
    <2> USE <1>4, PutLabViews
    <2>1. \A v \in LabViews(l) : v.uid <= x.uid
      <3>1. \A v \in LabViews(l) : v.uid <= lab[l].uid /\ v.uid \in Nat
        BY ViewTypes DEF ViewsInv, ViewsArePast
      <3>2. lab[l].uid \in Nat /\ x.uid \in Nat
        BY ViewTypes, ConstantsAssumption DEF LabObj
      <3>3. QED
        BY <3>1, <3>2
    <2>2. /\ labC[l].uid <= x.uid /\ \A i \in 1..Len(labQ[l]) : labQ[l][i].uid <= x.uid
          /\ Len(labQ[l]) \in Nat
      BY <2>1, ViewTypes
    <2>3. \A i \in 1..Len(labQ'[l]) : i \in 1..Len(labQ[l]) \/ i = Len(labQ[l]) + 1
      BY <2>2
    <2>4. \A i \in 1..Len(labQ'[l]) : labC'[l].uid <= labQ'[l][i].uid
      BY <2>2, <2>3 DEF SeenInOrder
    <2>5. ASSUME NEW i \in 1..Len(labQ'[l]), NEW j \in 1..Len(labQ'[l]), i < j
          PROVE  labQ'[l][i].uid <= labQ'[l][j].uid
      <3>1. i \in 1..Len(labQ[l])
        BY <2>2, <2>3, <2>5
      <3>2. QED
        BY <2>2, <2>3, <2>5, <3>1 DEF SeenInOrder
    <2>6. \A m \in Labs \ {l} : labC'[m] = labC[m] /\ labQ'[m] = labQ[m]
      OBVIOUS
    <2>7. QED
      BY <2>4, <2>5, <2>6 DEF SeenInOrder
  <1>5. QED
    BY <1>1, <1>2, <1>3, <1>4, LabWrites

\* Every step keeps finalizers off Labs that have not been seen.
LEMMA SeenStep ==
  ASSUME TypeOK, ViewsInv, WorkInv, StripInv, [Next]_vars
  PROVE  FinalizerSeen'
  <1>1. CASE UNCHANGED labVars
    BY <1>1 DEF labVars, StripInv, FinalizerSeen, LabViews
  <1>2. ASSUME NEW l \in Labs, DeliverLab(l) PROVE FinalizerSeen'
    <2>1. lab' = lab /\ \A m \in Labs : LabViews(m)' \subseteq LabViews(m)
      BY <1>2, DeliverLabViews
    <2>2. QED
      BY <2>1 DEF StripInv, FinalizerSeen
  <1>3. CASE Crash
    <2>1. lab' = lab /\ \A l \in Labs : LabViews(l)' = {lab[l]}
      BY <1>3 DEF Crash, LabViews
    <2>2. QED
      BY <2>1 DEF FinalizerSeen
  <1>4. ASSUME NEW l \in Labs, NEW x \in LabObj, PutLab(l, x),
               x.ph = "held" => pc = "addFinalizer" /\ l = cur /\ lab[l] = copy /\ x.uid = copy.uid,
               x.ph = "dying" => lab[l].ph = "held" /\ x.uid = lab[l].uid
        PROVE  FinalizerSeen'
    <2>1. /\ lab'[l] = x /\ LabViews(l)' = LabViews(l) \cup {x}
          /\ \A m \in Labs \ {l} : lab'[m] = lab[m] /\ LabViews(m)' = LabViews(m)
      BY <1>4, PutLabViews
    <2>2. HasFinalizer(x) => \A v \in LabViews(l) : v.uid = x.uid
      <3>1. CASE x.ph = "held"
        <4>1. \A v \in LabViews(l) : v.uid \in Nat /\ v.uid <= x.uid /\ x.uid <= v.uid
          BY <1>4, <3>1, ViewTypes DEF ViewsInv, ViewsArePast, StripInv, WorkerUpToDate
        <4>2. x.uid \in Nat
          BY ConstantsAssumption DEF LabObj
        <4>3. QED
          BY <4>1, <4>2
      <3>2. CASE x.ph = "dying"
        BY <1>4, <3>2 DEF StripInv, FinalizerSeen, HasFinalizer
      <3>3. QED
        BY <3>1, <3>2 DEF HasFinalizer
    <2>3. QED
      BY <2>1, <2>2 DEF StripInv, FinalizerSeen
  <1>5. QED
    BY <1>1, <1>2, <1>3, <1>4, LabWrites

\* Every step keeps the worker from working for a former Lab.
LEMMA UpToDateStep ==
  ASSUME TypeOK, ViewsInv, WorkInv, StripInv, [Next]_vars
  PROVE  WorkerUpToDate'
  <1>1. ASSUME NEW l \in Labs, StartReconcile(l) PROVE WorkerUpToDate'
    <2>1. UNCHANGED labVars
      BY <1>1 DEF StartReconcile
    <2>2. CASE Exists(labC[l])
      <3>1. cur' = l /\ copy' = labC[l]
        BY <1>1, <2>2 DEF StartReconcile
      <3>2. LabViews(cur)' = LabViews(l)
        BY <2>1, <3>1 DEF LabViews, labVars
      <3>3. \A v \in LabViews(l) : labC[l].uid <= v.uid
        <4>1. labC[l].uid \in Nat
          BY ViewTypes
        <4>2. QED
          BY <4>1 DEF StripInv, SeenInOrder, LabViews
      <3>4. HasFinalizer(lab[l]) => labC[l].uid = lab[l].uid
        BY ViewTypes DEF StripInv, FinalizerSeen
      <3>5. QED
        BY <2>1, <3>1, <3>2, <3>3, <3>4 DEF WorkerUpToDate, labVars
    <2>3. CASE ~Exists(labC[l])
      <3>1. pc' = "idle"
        BY <1>1, <2>3 DEF StartReconcile
      <3>2. QED
        BY <3>1 DEF WorkerUpToDate
    <2>4. QED
      BY <2>2, <2>3
  <1>2. ASSUME UNCHANGED <<pc, cur, copy>>, pc \in {"addFinalizer", "strip"} PROVE WorkerUpToDate'
    <2>1. cur \in Labs /\ LabViews(cur)' = {labC'[cur]} \cup {labQ'[cur][i] : i \in 1..Len(labQ'[cur])}
      BY <1>2 DEF LabViews, TypeOK
    <2>2. CASE UNCHANGED labVars
      BY <1>2, <2>2 DEF StripInv, WorkerUpToDate, LabViews, labVars
    <2>3. ASSUME NEW l \in Labs, DeliverLab(l) PROVE WorkerUpToDate'
      <3>1. lab' = lab /\ \A m \in Labs : LabViews(m)' \subseteq LabViews(m)
        BY <2>3, DeliverLabViews
      <3>2. LabViews(cur)' \subseteq LabViews(cur)
        BY <2>1, <3>1 DEF LabViews
      <3>3. QED
        BY <1>2, <3>1, <3>2 DEF StripInv, WorkerUpToDate
    <2>4. CASE Crash
      BY <1>2, <2>4 DEF Crash
    <2>5. ASSUME NEW l \in Labs, NEW x \in LabObj, PutLab(l, x), x.uid >= lab[l].uid,
                 x.ph = "held" => pc = "addFinalizer" /\ pc' = "list",
                 x.ph = "dying" => lab[l].ph = "held" /\ x.uid = lab[l].uid
          PROVE  WorkerUpToDate'
      <3>1. /\ lab'[l] = x /\ LabViews(l)' = LabViews(l) \cup {x}
            /\ \A m \in Labs \ {l} : lab'[m] = lab[m] /\ LabViews(m)' = LabViews(m)
        BY <2>5, PutLabViews
      <3>2. ASSUME l = cur PROVE LabViews(cur)' = LabViews(cur) \cup {x}
        <4>1. LabViews(l)' = {labC'[l]} \cup {labQ'[l][i] : i \in 1..Len(labQ'[l])}
          BY DEF LabViews
        <4>2. LabViews(cur)' = LabViews(l)'
          BY <1>2, <2>1, <3>2, <4>1
        <4>3. QED
          BY <3>1, <3>2, <4>2
      <3>3. ASSUME l # cur PROVE LabViews(cur)' = LabViews(cur) /\ lab'[cur] = lab[cur]
        <4>1. labC' = labC /\ labQ'[cur] = labQ[cur] /\ lab'[cur] = lab[cur]
          BY <2>1, <2>5, <3>3, PutLabViews
        <4>2. QED
          BY <1>2, <4>1 DEF LabViews
      <3>4. pc = "addFinalizer" /\ l = cur => copy.uid <= x.uid
        <4>1. /\ copy.uid \in Nat /\ x.uid \in Nat /\ lab[cur].uid \in Nat /\ labC[cur].uid \in Nat
              /\ labC[cur] \in LabViews(cur) /\ labC[cur].uid <= lab[cur].uid
          <5>1. \A v \in LabObj : v.uid \in Nat
            BY ConstantsAssumption DEF LabObj
          <5>2. copy \in LabObj /\ x \in LabObj
            BY <2>5 DEF TypeOK
          <5>3. lab[cur].uid \in Nat /\ labC[cur].uid \in Nat /\ labC[cur] \in LabViews(cur)
            BY <2>1, ViewTypes
          <5>4. labC[cur].uid <= lab[cur].uid
            BY <2>1, <5>3 DEF ViewsInv, ViewsArePast
          <5>5. QED
            BY <5>1, <5>2, <5>3, <5>4
        <4>2. pc = "addFinalizer" => copy.uid <= labC[cur].uid
          BY <4>1 DEF StripInv, WorkerUpToDate
        <4>3. QED
          BY <2>5, <4>1, <4>2
      <3>5. pc = "strip" /\ HasFinalizer(x) /\ l = cur => copy.uid = x.uid
        BY <1>2, <2>5 DEF StripInv, WorkerUpToDate, HasFinalizer
      <3>6. QED
        BY <1>2, <3>1, <3>2, <3>3, <3>4, <3>5 DEF StripInv, WorkerUpToDate
    <2>6. QED
      BY <2>2, <2>3, <2>4, <2>5, LabWrites
  <1>3. CASE pc' \notin {"addFinalizer", "strip"}
    BY <1>3 DEF WorkerUpToDate
  <1>4. QED
    BY <1>1, <1>2, <1>3, StripWorker

\* Initially no Lab has been seen.
LEMMA StripInit == Init => StripInv
  <1> SUFFICES ASSUME Init PROVE StripInv
    OBVIOUS
  <1>1. \A l \in Labs : lab[l] = NoLab /\ labQ[l] = <<>>
    BY DEF Init
  <1>2. pc = "idle"
    BY DEF Init
  <1>3. QED
    BY <1>1, <1>2 DEF StripInv, SeenInOrder, FinalizerSeen, WorkerUpToDate, NoLab, HasFinalizer

\* A LAN that the worker strips is the dying Lab's.
LEMMA StripOwn ==
  ASSUME OrphanInv, StripInv, NEW k \in Links, StripLan(k),
         Unshared(Getk8lanName(cur, k)), HasFinalizer(lan[Getk8lanName(cur, k)])
  PROVE  LET x == lan[Getk8lanName(cur, k)] IN
         /\ x.owner[1] = cur /\ lab[cur].uid = x.owner[2] /\ lab[cur].ph = "dying"
  <1> DEFINE n == Getk8lanName(cur, k)
  <1>1. cur \in Labs /\ k \in LinksOf(cur) /\ n \in Lans /\ pc = "strip"
    BY LanNames DEF StripLan, OrphanInv, TypeOK
  <1>2. lan[n] \in LanObj /\ lan[n].owner[1] \in Labs
    BY <1>1 DEF OrphanInv, TypeOK, LanObj, Uids
  <1>3. PICK j \in LinksOf(lan[n].owner[1]) : n = Getk8lanName(lan[n].owner[1], j)
    BY <1>1 DEF OrphanInv, LanNamedAfterOwner, OwnerName
  <1>4. lan[n].owner[1] = cur
    BY <1>1, <1>2, <1>3 DEF Unshared
  <1>5. lab[cur].uid = lan[n].owner[2] /\ HasFinalizer(lab[cur])
    BY <1>1, <1>4 DEF OrphanInv, NoOrphanLan, OwnerName
  <1>6. lab[cur].ph = "dying"
    BY <1>1, <1>5 DEF StripInv, WorkerUpToDate, OrphanInv, StrippingDyingLab, HasFinalizer
  <1>7. QED
    BY <1>4, <1>5, <1>6

\* Every step is a step of StripOnlyOwnLan.
LEMMA StripStep ==
  ASSUME OrphanInv, StripInv, [Next]_vars, NEW n \in Lans, Unshared(n),
         HasFinalizer(lan[n]), ~HasFinalizer(lan'[n])
  PROVE  lab[OwnerName(lan[n])].uid = lan[n].owner[2] /\ lab[OwnerName(lan[n])].ph = "dying"
  <1>1. TypeOK /\ lan \in [Lans -> LanObj]
    BY DEF OrphanInv, TypeOK
  <1>2. ASSUME NEW k \in Links, StripLan(k)
        PROVE  lab[OwnerName(lan[n])].uid = lan[n].owner[2] /\ lab[OwnerName(lan[n])].ph = "dying"
    <2>1. n = Getk8lanName(cur, k)
      BY <1>1, <1>2 DEF StripLan, PutLan, lanVars
    <2>2. QED
      BY <1>2, <2>1, StripOwn DEF OwnerName
  <1>3. CASE lan' = lan
    BY <1>3
  <1>4. ASSUME NEW m \in Lans, UserDeleteLan(m) \/ CollectLan(m) PROVE FALSE
    <2>1. lan' = [lan EXCEPT ![m] = Deleted(lan[m])] /\ lan[m].ph \in {"bare", "held"}
      BY <1>4 DEF UserDeleteLan, CollectLan, PutLan
    <2>2. lan[m] \in LanObj
      BY <1>1
    <2>3. QED
      BY <1>1, <2>1, <2>2, LanRequests
  <1>5. CASE CreateLan
    <2>1. lan' = lan \/ lan' = [lan EXCEPT ![lanName] = [ph |-> "held", owner |-> <<cur, copy.uid>>,
                                                          vni |-> spokes[link]]]
      BY <1>5 DEF CreateLan, LanFound, PutLan, lanVars
    <2>2. QED
      BY <1>1, <2>1 DEF HasFinalizer
  <1>6. \/ lan' = lan \/ CreateLan
        \/ \E m \in Lans : UserDeleteLan(m) \/ CollectLan(m)
        \/ \E k \in Links : StripLan(k)
    BY DEF Next, Worker, Informers, Collector, Environment, StartReconcile, AddFinalizer, CheckLan,
       GetAvailableVNIs, GetLan, EnsureNode, EndReconcile, LanFound, Crash, DeliverLan,
       RemoveFinalizer, DeliverLab, DeliverWl, CollectWl, LoadConfig, ApiError,
       Resync, UserCreateLab, UserDeleteLab, LoseWorkload, vars, lanVars
  <1>7. QED
    BY <1>2, <1>3, <1>4, <1>5, <1>6

\* What is proved of Labs and of their LANs is kept by every step.
LEMMA OrphanStep ==
  ASSUME OrphanInv, StripInv, [Next]_vars
  PROVE  OrphanInv' /\ StripInv'
  BY TypeStep, ViewsStep, WorkStep, InOrderStep, SeenStep, UpToDateStep
     DEF OrphanInv, ViewsInv, WorkInv, StripInv

\* deleteExternalResources takes the finalizer off a LAN whose name is that of
\* one link only for the Lab that owns it and that is being deleted, although
\* it looks LANs up by name, in a cache, for a copy of the Lab that may be a
\* former Lab of the name, and although other links may share their names.
THEOREM StripOnlyOwnLanTheorem == Spec => StripOnlyOwnLan
  <1> DEFINE Own == \A n \in Lans :
                      Unshared(n) /\ HasFinalizer(lan[n]) /\ ~HasFinalizer(lan'[n]) =>
                      /\ lab[OwnerName(lan[n])].uid = lan[n].owner[2]
                      /\ lab[OwnerName(lan[n])].ph = "dying"
  <1>1. Init => OrphanInv /\ StripInv
    BY TypeInit, OrphanInit, StripInit DEF OrphanInv, ViewsInv, WorkInv
  <1>2. OrphanInv /\ StripInv /\ [Next]_vars => (OrphanInv /\ StripInv)'
    BY OrphanStep
  <1>3. OrphanInv /\ StripInv /\ [Next]_vars => [Own]_vars
    BY StripStep
  <1>4. QED
    BY <1>1, <1>2, <1>3, PTL DEF Spec, StripOnlyOwnLan

=============================================================================
