-------------------------- MODULE LabControllerInv --------------------------
(***************************************************************************)
(* The inductive invariants behind the theorems on LabController, stated   *)
(* apart from their proofs so that TLC can check them too.                 *)
(***************************************************************************)
EXTENDS LabController

\* Everything the Lab informer shows or will still show of Lab l.
LabViews(l) == {labC[l]} \cup {labQ[l][i] : i \in 1..Len(labQ[l])}

\* A view is never ahead of the API server.
ViewsArePast ==
  \A l \in Labs : \A v \in LabViews(l) : v.uid <= lab[l].uid

\* The finalizer, once seen on a Lab that is not being deleted, is still
\* there: only the worker removes it, from a Lab it has seen dying.
HeldViewsCurrent ==
  \A l \in Labs : \A v \in LabViews(l) :
    v.ph = "held" => v.uid = lab[l].uid /\ HasFinalizer(lab[l])

\* A Lab seen dying is dying or gone, and is not shown alive afterwards.
DyingViewsFinal ==
  \A l \in Labs :
    /\ \A v \in LabViews(l) :
         v.ph = "dying" /\ v.uid = lab[l].uid => lab[l].ph \in {"dying", "gone"}
    /\ \A i \in 1..Len(labQ[l]) :
         labC[l].ph = "dying" /\ labQ[l][i].ph = "held"
           => labC[l].uid # labQ[l][i].uid
    /\ \A i, j \in 1..Len(labQ[l]) :
         i < j /\ labQ[l][i].ph = "dying" /\ labQ[l][j].ph = "held"
           => labQ[l][i].uid # labQ[l][j].uid

\* While it creates LANs and workloads the worker's Lab has its finalizer; it
\* is about to add the finalizer to a Lab that had none.
CreatingForHeldLab ==
  /\ pc = "addFinalizer" => copy.ph = "bare"
  /\ pc \in {"list", "get", "create", "check", "node"} =>
       copy.ph = "held" /\ copy.uid = lab[cur].uid /\ HasFinalizer(lab[cur])

\* While it deletes, no view of the Lab is to come in which it is alive, and
\* the LANs that still have the finalizer are those not yet visited.
StrippingDyingLab ==
  pc = "strip" =>
    /\ copy.ph = "dying" /\ copy.uid <= lab[cur].uid
    /\ copy.uid = lab[cur].uid => lab[cur].ph \in {"dying", "gone"}
    /\ \A v \in LabViews(cur) : v.ph = "held" => v.uid # copy.uid
    /\ \A n \in Lans : HasFinalizer(lan[n]) /\ lan[n].owner = <<cur, copy.uid>>
                         => \E k \in todo : n = Getk8lanName(cur, k)

\* A LAN with the finalizer is named after its owner and one of its links.
LanNamedAfterOwner ==
  \A n \in Lans : HasFinalizer(lan[n]) =>
    \E k \in LinksOf(OwnerName(lan[n])) : n = Getk8lanName(OwnerName(lan[n]), k)

OrphanInv ==
  /\ TypeOK
  /\ ViewsArePast
  /\ HeldViewsCurrent
  /\ DyingViewsFinal
  /\ CreatingForHeldLab
  /\ StrippingDyingLab
  /\ LanNamedAfterOwner
  /\ NoOrphanLan

-----------------------------------------------------------------------------
\* The LAN cache and the events under way add up to what is stored.
LanCacheReplays ==
  /\ \A n \in Lans :
       (\A i \in 1..Len(lanQ) : lanQ[i].name # n) => lanC[n] = lan[n]
  /\ \A i \in 1..Len(lanQ) :
       (\A j \in 1..Len(lanQ) : i < j => lanQ[j].name # lanQ[i].name)
         => lanQ[i].obj = lan[lanQ[i].name]

\* The VNIs the worker has in hand are all different, and not in use but by a
\* LAN that a list was without.
VNIsInHand ==
  pc \in {"get", "create", "check"} =>
    /\ \A i, j \in 1..Len(vnis) : i < j => vnis[i] < vnis[j]
    /\ \A i \in idx..Len(vnis) : \A n \in Lans \ unlisted :
         Exists(lan[n]) => lan[n].vni # vnis[i]

BuiltOnVNIInHand == pc = "create" => spokes[link] = vnis[idx]

VNIInv ==
  /\ TypeOK
  /\ LanCacheReplays
  /\ VNIsInHand
  /\ BuiltOnVNIInHand
  /\ VNIUniqueIfListed

=============================================================================
