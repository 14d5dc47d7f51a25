------------------------- MODULE SRVMEnsure_proofs -------------------------
(***************************************************************************)
(* Proofs about SRVMEnsure, for any set of chassis and cards, any number   *)
(* of faults and any lag of the caches: it implements VmiLife, its fabric  *)
(* networks share no bridge if the lists of NADs were current, and its     *)
(* VMIs have what they boot from.                                          *)
(***************************************************************************)
EXTENDS SRVMEnsure, FiniteSetTheorems, WellFoundedInduction, TLAPS

(* What is cached of a card's VMI, and the events under way, belong to one *)
(* life of the VMI, but for a first cached "gone".                         *)

VmiType ==
  /\ vmi \in [Cards -> VmiObj] /\ vmiC \in [Cards -> VmiObj]
  /\ vmiQ \in [Cards -> Seq(VmiObj)]

\* The card that the worker is at.
CardType ==
  /\ node \in Chassis /\ slots \subseteq SlotsOf[node] /\ lic \in BOOLEAN
  /\ pc \in {"idle", "node", "index", "nad"} => slots = {}
  /\ pc \in {"license", "dv", "vmi", "recreate"} => slot \in SlotsOf[node]

\* The last event is the VMI as it is.
UpToDate(x) ==
  /\ vmiQ[x] = <<>> => vmiC[x] = vmi[x]
  /\ vmiQ[x] # <<>> => vmiQ[x][Len(vmiQ[x])] = vmi[x]

\* Nothing follows the event that the VMI is gone: until the cache knows, the
\* operator creates none.
GoneIsLast(x) ==
  /\ \A i \in 1..Len(vmiQ[x]) : vmiQ[x][i].ph = "gone" => i = Len(vmiQ[x])
  /\ vmiC[x].ph = "gone" /\ vmi[x].ph = "gone" => vmiQ[x] = <<>>

\* A VMI that has failed does not run again.
FailedForGood(x) ==
  /\ vmiC[x].ph = "Failed" => \A i \in 1..Len(vmiQ[x]) : vmiQ[x][i].ph # "Running"
  /\ \A i, j \in 1..Len(vmiQ[x]) :
       i < j /\ vmiQ[x][i].ph = "Failed" => vmiQ[x][j].ph # "Running"

\* Only what the cache has seen is deleted, and only what has failed.
DyingWasSeen(x) == vmi[x].dying => vmi[x].ph = "Failed" /\ vmiC[x].ph # "gone"

InLife(x) == UpToDate(x) /\ GoneIsLast(x) /\ FailedForGood(x) /\ DyingWasSeen(x)

LifeInv == VmiType /\ CardType /\ \A x \in Cards : InLife(x)

-----------------------------------------------------------------------------
\* What Append does to a queue of events.
LEMMA AppendEvent ==
  ASSUME NEW q \in Seq(VmiObj), NEW o \in VmiObj
  PROVE  /\ Append(q, o) \in Seq(VmiObj) /\ Append(q, o) # <<>>
         /\ Len(q) \in Nat /\ Len(Append(q, o)) = Len(q) + 1
         /\ \A i \in 1..Len(q) : Append(q, o)[i] = q[i]
         /\ Append(q, o)[Len(q) + 1] = o
         /\ q = <<>> <=> Len(q) = 0
  OBVIOUS

\* What Tail does to one.
LEMMA TailEvent ==
  ASSUME NEW q \in Seq(VmiObj), q # <<>>
  PROVE  /\ Tail(q) \in Seq(VmiObj) /\ Head(q) \in VmiObj /\ Head(q) = q[1]
         /\ Len(q) \in Nat /\ Len(q) >= 1 /\ Len(Tail(q)) = Len(q) - 1
         /\ \A i \in 1..Len(q) - 1 : Tail(q)[i] = q[i + 1]
         /\ Tail(q) = <<>> <=> Len(q) = 1
  <1>1. /\ Head(q) \in VmiObj /\ Head(q) = q[1] /\ Len(q) \in Nat /\ Len(q) >= 1
        /\ Tail(q) \in Seq(VmiObj) /\ Len(Tail(q)) = Len(q) - 1
        /\ \A i \in 1..Len(q) - 1 : Tail(q)[i] = q[i + 1]
    OBVIOUS
  <1>2. \A t \in Seq(VmiObj) : t = <<>> <=> Len(t) = 0
    OBVIOUS
  <1>3. QED
    BY <1>1, <1>2

\* A step that leaves the VMIs, their cache and their events alone.
LEMMA SameVmis ==
  ASSUME VmiType, \A x \in Cards : InLife(x), UNCHANGED vmiVars
  PROVE  VmiType' /\ \A x \in Cards : InLife(x)'
  BY DEF vmiVars, VmiType, InLife, UpToDate, GoneIsLast, FailedForGood, DyingWasSeen

\* A VMI is written: created when it is neither there nor cached, or changed
\* when it is there; it is deleted, or gone, only when it is cached.
LEMMA PutKeeps ==
  ASSUME VmiType, \A y \in Cards : InLife(y),
         NEW x \in Cards, NEW o \in VmiObj, PutVmi(x, o),
         vmi[x].ph = "gone" => vmiC[x].ph = "gone" /\ o.ph = "Running",
         o.ph = "Running" => vmi[x].ph = "gone",
         o.ph = "gone" => vmiC[x].ph # "gone",
         o.dying => o.ph = "Failed" /\ vmiC[x].ph # "gone"
  PROVE  VmiType' /\ \A y \in Cards : InLife(y)'
  <1>1. /\ vmi' = [vmi EXCEPT ![x] = o] /\ vmiC' = vmiC
        /\ vmiQ' = [vmiQ EXCEPT ![x] = Append(vmiQ[x], o)]
    BY DEF PutVmi
  <1>2. /\ vmiQ[x] \in Seq(VmiObj) /\ vmi[x] \in VmiObj /\ vmiC[x] \in VmiObj
        /\ vmi'[x] = o /\ vmiQ'[x] = Append(vmiQ[x], o)
        /\ \A y \in Cards \ {x} : vmi'[y] = vmi[y] /\ vmiQ'[y] = vmiQ[y]
    BY <1>1 DEF VmiType
  <1> DEFINE q == vmiQ[x]
  <1>3. /\ Append(q, o) \in Seq(VmiObj) /\ Append(q, o) # <<>>
        /\ Len(q) \in Nat /\ Len(Append(q, o)) = Len(q) + 1
        /\ \A i \in 1..Len(q) : Append(q, o)[i] = q[i]
        /\ Append(q, o)[Len(q) + 1] = o
        /\ q = <<>> <=> Len(q) = 0
    BY <1>2, AppendEvent
  <1>4. VmiType'
    BY <1>1, <1>3 DEF VmiType
  <1>5. UpToDate(x) /\ GoneIsLast(x) /\ FailedForGood(x) /\ DyingWasSeen(x)
    BY DEF InLife
  <1>6. o.ph = "Running" => q = <<>> /\ vmiC[x].ph = "gone"
    BY <1>5 DEF GoneIsLast
  <1>7. \A i \in 1..Len(q) : q[i].ph # "gone"
    <2>1. CASE vmi[x].ph = "gone"
      BY <2>1, <1>3, <1>5 DEF GoneIsLast
    <2>2. CASE vmi[x].ph # "gone"
      BY <2>2, <1>3, <1>5 DEF GoneIsLast, UpToDate
    <2>3. QED
      BY <2>1, <2>2
  <1>8. InLife(x)'
    <2>1. UpToDate(x)'
      BY <1>1, <1>2, <1>3 DEF UpToDate
    <2>2. GoneIsLast(x)'
      BY <1>1, <1>2, <1>3, <1>7 DEF GoneIsLast
    <2>3. FailedForGood(x)'
      <3>1. CASE o.ph = "Running"
        BY <3>1, <1>1, <1>2, <1>3, <1>6 DEF FailedForGood
      <3>2. CASE o.ph # "Running"
        <4>1. \A i \in 1..Len(q) + 1 : i \in 1..Len(q) \/ i = Len(q) + 1
          BY <1>3
        <4>2. vmiC[x].ph = "Failed" => \A i \in 1..Len(q) + 1 : Append(q, o)[i].ph # "Running"
          BY <3>2, <4>1, <1>3, <1>5 DEF FailedForGood
        <4>3. \A i, j \in 1..Len(q) + 1 :
                i < j /\ Append(q, o)[i].ph = "Failed" => Append(q, o)[j].ph # "Running"
          BY <3>2, <4>1, <1>3, <1>5 DEF FailedForGood
        <4>4. QED
          BY <4>2, <4>3, <1>1, <1>2, <1>3 DEF FailedForGood
      <3>3. QED
        BY <3>1, <3>2
    <2>4. DyingWasSeen(x)'
      BY <1>1, <1>2 DEF DyingWasSeen
    <2>5. QED
      BY <2>1, <2>2, <2>3, <2>4 DEF InLife
  <1>9. ASSUME NEW y \in Cards \ {x} PROVE InLife(y)'
    BY <1>1, <1>2 DEF InLife, UpToDate, GoneIsLast, FailedForGood, DyingWasSeen
  <1>10. QED
    BY <1>4, <1>8, <1>9

\* An event arrives.
LEMMA DeliverVmiKeeps ==
  ASSUME VmiType, \A y \in Cards : InLife(y), NEW x \in Cards, DeliverVmi(x)
  PROVE  VmiType' /\ \A y \in Cards : InLife(y)'
  <1> DEFINE q == vmiQ[x]
  <1>1. /\ vmi' = vmi /\ vmiC' = [vmiC EXCEPT ![x] = Head(q)] /\ q # <<>>
        /\ vmiQ' = [vmiQ EXCEPT ![x] = Tail(q)]
    BY DEF DeliverVmi
  <1>2. /\ q \in Seq(VmiObj) /\ vmi[x] \in VmiObj
        /\ vmiC'[x] = Head(q) /\ vmiQ'[x] = Tail(q)
        /\ \A y \in Cards \ {x} : vmiC'[y] = vmiC[y] /\ vmiQ'[y] = vmiQ[y]
    BY <1>1 DEF VmiType
  <1>3. /\ Tail(q) \in Seq(VmiObj) /\ Head(q) \in VmiObj /\ Head(q) = q[1]
        /\ Len(q) \in Nat /\ Len(q) >= 1 /\ Len(Tail(q)) = Len(q) - 1
        /\ \A i \in 1..Len(q) - 1 : Tail(q)[i] = q[i + 1]
        /\ Tail(q) = <<>> <=> Len(q) = 1
    BY <1>1, <1>2, TailEvent
  <1>4. VmiType'
    BY <1>1, <1>3 DEF VmiType
  <1>5. UpToDate(x) /\ GoneIsLast(x) /\ FailedForGood(x) /\ DyingWasSeen(x)
    BY DEF InLife
  <1>6. q[Len(q)] = vmi[x]
    BY <1>1, <1>5 DEF UpToDate
  <1>7. InLife(x)'
    <2>1. UpToDate(x)'
      <3>1. CASE Len(q) = 1
        BY <3>1, <1>1, <1>2, <1>3, <1>6 DEF UpToDate
      <3>2. CASE Len(q) # 1
        BY <3>2, <1>1, <1>2, <1>3, <1>6 DEF UpToDate
      <3>3. QED
        BY <3>1, <3>2
    <2>2. GoneIsLast(x)'
      <3>1. \A i \in 1..Len(q) - 1 : Tail(q)[i].ph = "gone" => i = Len(q) - 1
        BY <1>3, <1>5 DEF GoneIsLast
      <3>2. Head(q).ph = "gone" => Tail(q) = <<>>
        BY <1>3, <1>5 DEF GoneIsLast
      <3>3. QED
        BY <3>1, <3>2, <1>1, <1>2, <1>3 DEF GoneIsLast
    <2>3. FailedForGood(x)'
      BY <1>1, <1>2, <1>3, <1>5 DEF FailedForGood
    <2>4. DyingWasSeen(x)'
      BY <1>1, <1>2, <1>3, <1>5, <1>6 DEF DyingWasSeen, GoneIsLast
    <2>5. QED
      BY <2>1, <2>2, <2>3, <2>4 DEF InLife
  <1>8. ASSUME NEW y \in Cards \ {x} PROVE InLife(y)'
    BY <1>1, <1>2 DEF InLife, UpToDate, GoneIsLast, FailedForGood, DyingWasSeen
  <1>9. QED
    BY <1>4, <1>7, <1>8

\* A restart reads every VMI anew.
LEMMA CrashKeeps ==
  ASSUME VmiType, \A y \in Cards : InLife(y), Crash
  PROVE  VmiType' /\ \A y \in Cards : InLife(y)'
  <1>1. vmi' = vmi /\ vmiC' = vmi /\ vmiQ' = [x \in Cards |-> <<>>]
    BY DEF Crash
  <1>2. VmiType'
    BY <1>1 DEF VmiType
  <1>3. ASSUME NEW x \in Cards PROVE InLife(x)'
    <2>1. vmiQ'[x] = <<>> /\ vmi'[x] = vmi[x] /\ vmiC'[x] = vmi[x] /\ Len(vmiQ'[x]) = 0
      BY <1>1
    <2>2. QED
      BY <2>1 DEF InLife, UpToDate, GoneIsLast, FailedForGood, DyingWasSeen
  <1>4. QED
    BY <1>2, <1>3

-----------------------------------------------------------------------------
(* The steps *)

\* There is a chassis.
LEMMA AnyChassisType == AnyChassis \in Chassis
  BY SRVMAssumption DEF AnyChassis

\* The worker, once in a card, is at a card of the Lab.
LEMMA CardInTurn ==
  ASSUME CardType, pc \in {"license", "dv", "vmi", "recreate"}
  PROVE  <<node, slot>> \in Cards
  BY DEF CardType, Cards

\* An error leaves the worker at no card.
LEMMA ReturnCard ==
  ASSUME Return
  PROVE  CardType'
  BY AnyChassisType DEF Return, CardType

\* The steps of the worker keep it at cards of the chassis in turn.
LEMMA WorkerCard ==
  ASSUME CardType, Worker \/ ApiError \/ Crash
  PROVE  CardType'
  <1>1. CASE Reconcile
    BY <1>1 DEF Reconcile, CardType
  <1>2. CASE \E c \in Chassis : Ensure(c)
    BY <1>2 DEF Ensure, CardType
  <1>3. CASE EndReconcile \/ Recreate \/ ApiError \/ Crash
    BY <1>3, ReturnCard DEF EndReconcile, Recreate, ApiError, Crash
  <1>4. CASE GetAvailableBrIndex
    <2>1. CASE Return
      BY <2>1, ReturnCard
    <2>2. CASE pc = "index" /\ pc' = "nad" /\ UNCHANGED <<node, slot, lic, nodes, slots>>
      BY <2>2 DEF CardType
    <2>3. QED
      BY <1>4, <2>1, <2>2 DEF GetAvailableBrIndex
  <1>5. CASE EnsureNad
    <2>1. CASE Return
      BY <2>1, ReturnCard
    <2>2. CASE UNCHANGED <<pc, node, indexes, slot, lic, nodes, slots>>
      BY <2>2 DEF CardType
    <2>3. QED
      BY <1>5, <2>1, <2>2 DEF EnsureNad
  <1>6. CASE PrepareFiles
    BY <1>6 DEF PrepareFiles, CardType
  <1>7. CASE \E s \in UNION {SlotsOf[c] : c \in Chassis} : VisitCard(s)
    BY <1>7 DEF VisitCard, CardType
  <1>8. CASE CardsDone
    BY <1>8 DEF CardsDone, CardType
  <1>9. CASE CopyLicense
    <2>1. CASE Return
      BY <2>1, ReturnCard
    <2>2. CASE pc = "license" /\ pc' = "dv" /\ lic' = TRUE
              /\ UNCHANGED <<node, indexes, at, slot, nodes, slots>>
      BY <2>2 DEF CardType
    <2>3. QED
      BY <1>9, <2>1, <2>2 DEF CopyLicense
  <1>10. CASE EnsureDv
    <2>1. CASE Return
      BY <2>1, ReturnCard
    <2>2. CASE pc = "dv" /\ Goto("vmi")
      BY <2>2 DEF CardType, Goto
    <2>3. QED
      BY <1>10, <2>1, <2>2 DEF EnsureDv, Panic
  <1>11. CASE EnsureVmi
    <2>1. CASE Return
      BY <2>1, ReturnCard
    <2>2. CASE pc = "vmi" /\ (Goto("card") \/ Goto("recreate"))
      BY <2>2 DEF CardType, Goto
    <2>3. QED
      BY <1>11, <2>1, <2>2 DEF EnsureVmi, CreateOrReplace, Panic
  <1>12. QED
    BY <1>1, <1>2, <1>3, <1>4, <1>5, <1>6, <1>7, <1>8, <1>9, <1>10, <1>11 DEF Worker

\* Writing one VMI changes the state of that VMI.
LEMMA PutState ==
  ASSUME VmiType, NEW x \in Cards, NEW o \in VmiObj, PutVmi(x, o)
  PROVE  States' = [States EXCEPT ![x] = VmiState(o)]
  <1>1. vmi' = [vmi EXCEPT ![x] = o]
    BY DEF PutVmi
  <1>2. \A y \in Cards : vmi'[y] = IF y = x THEN o ELSE vmi[y]
    BY <1>1 DEF VmiType
  <1>3. QED
    BY <1>2 DEF States

\* States of the VMIs that the steps start from.
LEMMA StateOf ==
  ASSUME VmiType, NEW x \in Cards
  PROVE  /\ vmi[x].ph = "gone" => States[x] = "off"
         /\ vmi[x].ph = "Running" /\ ~vmi[x].dying => States[x] = "on"
         /\ vmi[x].ph = "Failed" /\ ~vmi[x].dying => States[x] = "ended"
         /\ vmi[x].ph # "gone" /\ vmi[x].dying => States[x] = "ending"
  <1>1. States[x] = VmiState(vmi[x])
    BY DEF States
  <1>2. vmi[x] \in VmiObj
    BY DEF VmiType
  <1>3. QED
    BY <1>1, <1>2 DEF VmiState, VmiObj

\* Ensure of a card's VMI: it starts one when there is none, or deletes one
\* that has ended, and not the one that replaced it.
LEMMA EnsureVmiStep ==
  ASSUME LifeInv, EnsureVmi
  PROVE  /\ VmiType' /\ \A y \in Cards : InLife(y)'
         /\ Life!Next \/ States' = States
  <1> DEFINE x == <<node, slot>>
  <1>1. x \in Cards /\ VmiType /\ \A y \in Cards : InLife(y)
    BY CardInTurn DEF EnsureVmi, LifeInv
  <1>2. vmi[x] \in VmiObj /\ vmiC[x] \in VmiObj /\ vmiQ[x] \in Seq(VmiObj)
    BY <1>1 DEF VmiType
  <1>3. UpToDate(x) /\ GoneIsLast(x) /\ FailedForGood(x) /\ DyingWasSeen(x)
    BY <1>1 DEF InLife
  <1>4. CASE vmiC[x].ph = "gone" /\ vmi[x].ph = "gone" /\ PutVmi(x, NewVmi)
    <2>1. CASE lic \in BOOLEAN
      <3>1. NewVmi \in VmiObj /\ NewVmi.ph = "Running" /\ ~NewVmi.dying
            /\ VmiState(NewVmi) = "on"
        BY <2>1 DEF NewVmi, VmiObj, VmiState
      <3>2. VmiType' /\ \A y \in Cards : InLife(y)'
        BY <1>1, <1>4, <3>1, PutKeeps
      <3>3. Life!Start(x)
        BY <1>1, <1>4, <3>1, PutState, StateOf DEF Life!Start, Life!Move
      <3>4. QED
        BY <1>1, <3>2, <3>3 DEF Life!Next
    <2>2. QED
      BY <2>1 DEF LifeInv, CardType
  <1>5. CASE UNCHANGED vmiVars
    BY <1>1, <1>5, SameVmis DEF vmiVars, States
  <1>6. CASE /\ vmiC[x].ph = "Failed" /\ vmi[x].ph # "gone" /\ ~vmi[x].dying
             /\ PutVmi(x, [vmi[x] EXCEPT !.dying = TRUE])
    <2> DEFINE o == [vmi[x] EXCEPT !.dying = TRUE]
    <2>1. vmi[x].ph # "Running"
      <3>1. CASE vmiQ[x] = <<>>
        BY <3>1, <1>3, <1>6 DEF UpToDate
      <3>2. CASE vmiQ[x] # <<>>
        <4>1. Len(vmiQ[x]) \in 1..Len(vmiQ[x])
          BY <1>2, <3>2
        <4>2. QED
          BY <4>1, <3>2, <1>3, <1>6 DEF UpToDate, FailedForGood
      <3>3. QED
        BY <3>1, <3>2
    <2>2. vmi[x].ph = "Failed"
      BY <1>2, <1>6, <2>1 DEF VmiObj
    <2>3. o \in VmiObj /\ o.ph = "Failed" /\ o.dying /\ VmiState(o) = "ending"
      BY <1>2, <2>2 DEF VmiObj, VmiState
    <2>4. VmiType' /\ \A y \in Cards : InLife(y)'
      BY <1>1, <1>6, <2>2, <2>3, PutKeeps
    <2>5. Life!Remove(x)
      BY <1>1, <1>6, <2>2, <2>3, PutState, StateOf DEF Life!Remove, Life!Move
    <2>6. QED
      BY <1>1, <2>4, <2>5 DEF Life!Next
  <1>7. QED
    BY <1>4, <1>5, <1>6 DEF EnsureVmi, CreateOrReplace

\* A guest ends.
LEMMA VmiEndsStep ==
  ASSUME LifeInv, NEW x \in Cards, VmiEnds(x)
  PROVE  VmiType' /\ (\A y \in Cards : InLife(y)') /\ Life!Next
  <1> DEFINE o == [vmi[x] EXCEPT !.ph = "Failed"]
  <1>1. VmiType /\ \A y \in Cards : InLife(y)
    BY DEF LifeInv
  <1>2. vmi[x] \in VmiObj /\ vmi[x].ph = "Running" /\ PutVmi(x, o)
    BY <1>1 DEF VmiType, VmiEnds
  <1>3. ~vmi[x].dying
    BY <1>1, <1>2 DEF InLife, DyingWasSeen
  <1>4. o \in VmiObj /\ o.ph = "Failed" /\ ~o.dying /\ VmiState(o) = "ended"
    BY <1>2, <1>3 DEF VmiObj, VmiState
  <1>5. VmiType' /\ \A y \in Cards : InLife(y)'
    BY <1>1, <1>2, <1>4, PutKeeps
  <1>6. Life!End(x)
    BY <1>1, <1>2, <1>3, <1>4, PutState, StateOf DEF Life!End, Life!Move
  <1>7. QED
    BY <1>5, <1>6 DEF Life!Next

\* KubeVirt has cleaned up.
LEMMA VmiGoneStep ==
  ASSUME LifeInv, NEW x \in Cards, VmiGone(x)
  PROVE  VmiType' /\ (\A y \in Cards : InLife(y)') /\ Life!Next
  <1>1. VmiType /\ \A y \in Cards : InLife(y)
    BY DEF LifeInv
  <1>2. vmi[x] \in VmiObj /\ vmi[x].dying /\ PutVmi(x, NoVmi)
    BY <1>1 DEF VmiType, VmiGone
  <1>3. vmi[x].ph = "Failed" /\ vmiC[x].ph # "gone"
    BY <1>1, <1>2 DEF InLife, DyingWasSeen
  <1>4. NoVmi \in VmiObj /\ NoVmi.ph = "gone" /\ ~NoVmi.dying /\ VmiState(NoVmi) = "off"
    BY DEF NoVmi, VmiObj, VmiState
  <1>5. VmiType' /\ \A y \in Cards : InLife(y)'
    BY <1>1, <1>2, <1>3, <1>4, PutKeeps
  <1>6. Life!Gone(x)
    BY <1>1, <1>2, <1>3, <1>4, PutState, StateOf DEF Life!Gone, Life!Move
  <1>7. QED
    BY <1>5, <1>6 DEF Life!Next

\* Initially no VMI is there.
LEMMA LifeInit == Init => LifeInv /\ Life!Init
  <1> SUFFICES ASSUME Init PROVE LifeInv /\ Life!Init
    OBVIOUS
  <1>1. /\ vmi = [x \in Cards |-> NoVmi] /\ vmiC = vmi /\ vmiQ = [x \in Cards |-> <<>>]
        /\ NoVmi \in VmiObj /\ NoVmi.ph = "gone" /\ ~NoVmi.dying /\ VmiState(NoVmi) = "off"
    BY DEF Init, NoVmi, VmiObj, VmiState
  <1>2. VmiType
    BY <1>1 DEF VmiType
  <1>3. ASSUME NEW x \in Cards PROVE InLife(x)
    <2>1. vmiQ[x] = <<>> /\ vmi[x] = NoVmi /\ vmiC[x] = NoVmi /\ Len(vmiQ[x]) = 0
      BY <1>1
    <2>2. QED
      BY <1>1, <2>1 DEF InLife, UpToDate, GoneIsLast, FailedForGood, DyingWasSeen
  <1>4. CardType
    BY AnyChassisType DEF Init, CardType
  <1>5. Life!Init
    BY <1>1 DEF Life!Init, States
  <1>6. QED
    BY <1>2, <1>3, <1>4, <1>5 DEF LifeInv

\* Every step keeps the invariant, and is a step of VmiLife or none.
LEMMA LifeStep ==
  ASSUME LifeInv, [Next]_vars
  PROVE  LifeInv' /\ [Life!Next]_(Life!vars)
  <1>1. VmiType /\ CardType /\ \A y \in Cards : InLife(y)
    BY DEF LifeInv
  <1>2. CASE UNCHANGED vmiVars /\ CardType'
    BY <1>1, <1>2, SameVmis DEF LifeInv, Life!vars, States, vmiVars
  <1>3. CASE UNCHANGED vars
    <2>1. UNCHANGED vmiVars /\ CardType'
      BY <1>1, <1>3 DEF vars, vmiVars, workerVars, CardType
    <2>2. QED
      BY <2>1, <1>2
  <1>4. CASE Worker /\ ~EnsureVmi
    <2>1. UNCHANGED vmiVars
      BY <1>4 DEF Worker, Reconcile, Ensure, EndReconcile, GetAvailableBrIndex, EnsureNad,
         PrepareFiles, VisitCard, CardsDone, CopyLicense, EnsureDv, Recreate
    <2>2. QED
      BY <1>1, <1>2, <1>4, <2>1, WorkerCard
  <1>5. CASE EnsureVmi
    <2>1. CardType'
      BY <1>1, <1>5, WorkerCard DEF Worker
    <2>2. QED
      BY <1>5, <2>1, EnsureVmiStep DEF LifeInv, Life!vars
  <1>6. CASE \/ DeliverNad \/ DeliverDv \/ UserCreatesSecret \/ Resync
             \/ \E c \in Configs : LoadConfig(c)
    <2>1. UNCHANGED <<vmiVars, workerVars>>
      BY <1>6 DEF DeliverNad, DeliverDv, UserCreatesSecret, Resync, LoadConfig
    <2>2. QED
      BY <1>1, <1>2, <2>1 DEF workerVars, CardType
  <1>7. CASE ApiError
    BY <1>1, <1>2, <1>7, WorkerCard DEF ApiError
  <1>8. CASE Crash
    <2>1. States' = States
      BY <1>8 DEF Crash, States
    <2>2. QED
      BY <1>1, <1>8, <2>1, CrashKeeps, WorkerCard DEF LifeInv, Life!vars
  <1>9. ASSUME NEW x \in Cards, DeliverVmi(x) PROVE LifeInv' /\ [Life!Next]_(Life!vars)
    <2>1. UNCHANGED workerVars /\ vmi' = vmi
      BY <1>9 DEF DeliverVmi
    <2>2. CardType' /\ States' = States
      BY <1>1, <2>1 DEF workerVars, CardType, States
    <2>3. QED
      BY <1>1, <1>9, <2>2, DeliverVmiKeeps DEF LifeInv, Life!vars
  <1>10. ASSUME NEW x \in Cards, VmiEnds(x) \/ VmiGone(x)
         PROVE  LifeInv' /\ [Life!Next]_(Life!vars)
    <2>1. CardType'
      BY <1>1, <1>10 DEF VmiEnds, VmiGone, workerVars, CardType
    <2>2. QED
      BY <1>10, <2>1, VmiEndsStep, VmiGoneStep DEF LifeInv
  <1>11. QED
    BY <1>3, <1>4, <1>5, <1>6, <1>7, <1>8, <1>9, <1>10 DEF Next

\* The operator's VMIs live as VmiLife says: one is deleted only when it has
\* ended, and started only when there is none, although SRVM.Ensure decides by
\* a cached VMI, deletes by name, and creates again at once.
THEOREM LifeOfVmisTheorem == Spec => LifeOfVmis
  <1>1. Init => LifeInv /\ Life!Init
    BY LifeInit
  <1>2. LifeInv /\ [Next]_vars => LifeInv' /\ [Life!Next]_(Life!vars)
    BY LifeStep
  <1>3. QED
    BY <1>1, <1>2, PTL DEF Spec, LifeOfVmis, Life!Spec

-----------------------------------------------------------------------------
(* What a VMI finds when it boots, and which bridges its networks are on *)

NadEvent == [name : Nads, obj : NadObj]

NadType ==
  /\ nad \in [Nads -> NadObj] /\ nadC \in [Nads -> NadObj]
  /\ nadQ \in Seq(NadEvent)

MiscType ==
  /\ dvC \subseteq dv /\ dv \subseteq {x \in Cards : x[2] \in CPMs}
  /\ files \subseteq Chassis \X {"img", "cfg", "lic"}
  /\ secret \in BOOLEAN /\ queued \in BOOLEAN /\ nodes \subseteq Chassis
  /\ gconf \subseteq Loaders /\ conf \subseteq Loaders /\ loads \in 0..MaxLoad

\* A NAD is written once, and what its informer shows is that.
NadSeen ==
  /\ \A n \in Nads : nadC[n] # 0 => nadC[n] = nad[n]
  /\ \A i \in 1..Len(nadQ) : nadQ[i].obj = nad[nadQ[i].name] /\ nadQ[i].obj # 0
  /\ \A n \in Nads : nad[n] # 0 /\ nadC[n] = 0 => \E i \in 1..Len(nadQ) : nadQ[i].name = n

\* indexList suffices for the NADs of the chassis, and those done exist.
InHand ==
  pc = "nad" =>
    /\ at \in 1..Len(NadsOf(node)) + 1 /\ Len(indexes) >= Len(NadsOf(node))
    /\ \A i \in 1..Len(NadsOf(node)) : indexes[i] \in 1..MaxIndex - 1
    /\ \A i \in 1..at - 1 : nad[NadsOf(node)[i]] # 0

\* The indices not given away yet are different, and unused if the list of
\* NADs was current.
Unused ==
  pc = "nad" =>
    /\ \A i, j \in 1..Len(NadsOf(node)) : indexes[i] = indexes[j] => i = j
    /\ ~stale => \A i \in at..Len(NadsOf(node)) : \A n \in Nads : nad[n] # indexes[i]

AtCards == {"card", "license", "dv", "vmi", "recreate"}

\* The loop over the cards starts when networks and folders are there.
Prepared ==
  pc \in AtCards =>
    /\ \A i \in 1..Len(NadsOf(node)) : nad[NadsOf(node)[i]] # 0
    /\ <<node, "img">> \in files /\ <<node, "cfg">> \in files
    /\ lic => <<node, "lic">> \in files

\* A CPM gets its license and its data volume first.
CpmPrepared ==
  /\ pc \in {"license", "dv"} => slot \in CPMs
  /\ pc = "dv" => lic
  /\ pc = "vmi" /\ slot \in CPMs => lic /\ <<node, slot>> \in dv

NadInv  == NadType /\ NadSeen /\ InHand /\ Unused /\ BridgeIndexUnique
BootInv == MiscType /\ Prepared /\ CpmPrepared /\ Bootable

-----------------------------------------------------------------------------
\* The fabric networks of a chassis.
LEMMA NadsOfFacts ==
  ASSUME NEW c \in Chassis
  PROVE  /\ Len(NadsOf(c)) \in Nat
         /\ Len(NadsOf(c)) <= (IF KindOf[c] = "magc" THEN 2 ELSE 1)
         /\ \A i \in 1..Len(NadsOf(c)) : NadsOf(c)[i] \in Nads
         /\ \A i, j \in 1..Len(NadsOf(c)) : NadsOf(c)[i] = NadsOf(c)[j] => i = j
  <1>1. CASE IsIntegratedChassis(ModelOf[c])
    <2>1. NadsOf(c) = <<>>
      BY <1>1 DEF NadsOf
    <2>2. QED
      BY <2>1
  <1>2. CASE ~IsIntegratedChassis(ModelOf[c]) /\ KindOf[c] = "magc"
    <2>1. NadsOf(c) = << <<c, "fb">>, <<c, "df">> >>
      BY <1>2 DEF NadsOf
    <2>2. /\ Len(NadsOf(c)) = 2 /\ NadsOf(c)[1] = <<c, "fb">> /\ NadsOf(c)[2] = <<c, "df">>
          /\ <<c, "fb">> # <<c, "df">>
      BY <2>1
    <2>3. \A i \in 1..Len(NadsOf(c)) : i = 1 \/ i = 2
      BY <2>2
    <2>4. QED
      BY <1>2, <2>2, <2>3 DEF Nads
  <1>3. CASE ~IsIntegratedChassis(ModelOf[c]) /\ KindOf[c] # "magc"
    <2>1. NadsOf(c) = << <<c, "fb">> >>
      BY <1>3 DEF NadsOf
    <2>2. Len(NadsOf(c)) = 1
      BY <2>1
    <2>3. \A i \in 1..Len(NadsOf(c)) : i = 1
      BY <2>2
    <2>4. QED
      BY <1>3, <2>2, <2>3 DEF Nads
  <1>4. QED
    BY <1>1, <1>2, <1>3

\* A NAD bears the name of the chassis it belongs to.
LEMMA NadOwner ==
  ASSUME NEW n \in Nads
  PROVE  \E i \in 1..Len(NadsOf(n[1])) : n = NadsOf(n[1])[i]
  <1>1. PICK c \in Chassis : \E i \in 1..Len(NadsOf(c)) : n = NadsOf(c)[i]
    BY DEF Nads
  <1>2. PICK i \in 1..Len(NadsOf(c)) : n = NadsOf(c)[i]
    BY <1>1
  <1>3. \/ NadsOf(c) = <<>> \/ NadsOf(c) = << <<c, "fb">>, <<c, "df">> >>
        \/ NadsOf(c) = << <<c, "fb">> >>
    BY DEF NadsOf
  <1>4. n = <<c, "fb">> \/ n = <<c, "df">>
    <2>1. CASE NadsOf(c) = <<>>
      BY <1>2, <2>1
    <2>2. CASE NadsOf(c) = << <<c, "fb">>, <<c, "df">> >>
      <3>1. Len(NadsOf(c)) = 2 /\ NadsOf(c)[1] = <<c, "fb">> /\ NadsOf(c)[2] = <<c, "df">>
        BY <2>2
      <3>2. QED
        BY <1>2, <3>1
    <2>3. CASE NadsOf(c) = << <<c, "fb">> >>
      <3>1. Len(NadsOf(c)) = 1 /\ NadsOf(c)[1] = <<c, "fb">>
        BY <2>3
      <3>2. QED
        BY <1>2, <3>1
    <2>4. QED
      BY <1>3, <2>1, <2>2, <2>3
  <1>5. n[1] = c
    BY <1>4
  <1>6. QED
    BY <1>2, <1>5

\* With the SysInfo of its own chassis, a card is attached to fabric networks
\* that Ensure makes for the chassis.
LEMMA OwnNetworks ==
  ASSUME NEW c \in Chassis, NEW s \in SlotsOf[c], OwnSysInfo(c, s), NEW n \in Networks(c, s)
  PROVE  n \in Nads /\ n[1] = c
  <1>1. \/ n = <<c, "fb">> /\ ~IsIntegratedChassis(SysInfoOf[c][s])
        \/ n = <<c, "df">> /\ KindOf[c] = "magc"
    <2>1. n = <<c, "fb">> \/ n = <<c, "df">>
      BY DEF Networks
    <2>2. CASE n = <<c, "fb">>
      <3>1. n[2] = "fb"
        BY <2>2
      <3>2. QED
        BY <2>2, <3>1 DEF Networks
    <2>3. CASE n = <<c, "df">>
      <3>1. n[2] # "fb"
        BY <2>3
      <3>2. QED
        BY <2>3, <3>1 DEF Networks
    <2>4. QED
      BY <2>1, <2>2, <2>3
  <1>2. ~IsIntegratedChassis(ModelOf[c]) /\ n[1] = c
    BY <1>1 DEF OwnSysInfo
  <1>3. CASE KindOf[c] = "magc"
    <2>1. NadsOf(c) = << <<c, "fb">>, <<c, "df">> >>
      BY <1>2, <1>3 DEF NadsOf
    <2>2. Len(NadsOf(c)) = 2 /\ NadsOf(c)[1] = <<c, "fb">> /\ NadsOf(c)[2] = <<c, "df">>
      BY <2>1
    <2>3. QED
      BY <1>1, <1>2, <2>2 DEF Nads
  <1>4. CASE KindOf[c] # "magc"
    <2>1. NadsOf(c) = << <<c, "fb">> >>
      BY <1>2, <1>4 DEF NadsOf
    <2>2. Len(NadsOf(c)) = 1 /\ NadsOf(c)[1] = <<c, "fb">>
      BY <2>1
    <2>3. QED
      BY <1>1, <1>2, <1>4, <2>2 DEF Nads
  <1>5. QED
    BY <1>3, <1>4

\* A set of natural numbers that is not empty has a least element.
LEMMA LeastElement ==
  ASSUME NEW S \in SUBSET Nat, NEW v \in S
  PROVE  \E j \in S : \A k \in S : j <= k
  <1> DEFINE R == OpToRel(<, Nat)
  <1>1. PICK j \in S : \A k \in S : ~(<<k, j>> \in R)
    <2>1. IsWellFoundedOn(R, Nat)
      BY NatLessThanWellFounded
    <2> HIDE DEF R
    <2>2. QED
      BY <2>1, WFMin
  <1>2. \A k \in S : ~(k < j)
    BY <1>1 DEF OpToRel
  <1>3. QED
    BY <1>2

\* A set of one index or more has a lowest, one of two or more a second.
LEMMA LowestTwo ==
  ASSUME NEW S \in SUBSET Nat, NEW k \in {1, 2}, Cardinality(S) >= k, NEW i \in 1..k
  PROVE  \E v \in S : Cardinality({w \in S : w < v}) = i - 1
  <1>1. PICK v \in S : \A w \in S : v <= w
    <2>1. S # {}
      BY FS_EmptySet
    <2>2. QED
      BY <2>1, LeastElement
  <1>2. CASE i = 1
    <2>1. \A w \in S : w \in Nat /\ v \in Nat /\ ~(w < v)
      BY <1>1
    <2>2. {w \in S : w < v} = {}
      BY <2>1
    <2>3. QED
      BY <1>2, <2>2, FS_EmptySet
  <1>3. CASE i = 2
    <2>1. S # {v}
      <3>1. Cardinality({v}) = 1
        BY FS_Singleton
      <3>2. k = 2
        BY <1>3
      <3>3. QED
        BY <3>1, <3>2
    <2>2. PICK u \in S \ {v} : \A w \in S \ {v} : u <= w
      <3>1. PICK x : x \in S \ {v}
        BY <2>1
      <3>2. S \ {v} \in SUBSET Nat
        OBVIOUS
      <3>3. QED
        BY <3>1, <3>2, LeastElement
    <2>3. v < u /\ \A w \in S : w < u => w = v
      BY <1>1, <2>2
    <2>4. {w \in S : w < u} = {v}
      BY <1>1, <2>3
    <2>5. Cardinality({v}) = 1
      BY FS_Singleton
    <2>6. QED
      BY <1>3, <2>2, <2>4, <2>5
  <1>4. QED
    BY <1>2, <1>3

-----------------------------------------------------------------------------
(* Bridge indices *)

\* What Append and Tail do to the NAD events.
LEMMA NadEvents ==
  ASSUME NEW q \in Seq(NadEvent)
  PROVE  /\ Len(q) \in Nat /\ \A i \in 1..Len(q) : q[i] \in NadEvent
         /\ \A e \in NadEvent :
              /\ Append(q, e) \in Seq(NadEvent) /\ Len(Append(q, e)) = Len(q) + 1
              /\ \A i \in 1..Len(q) : Append(q, e)[i] = q[i]
              /\ Append(q, e)[Len(q) + 1] = e
         /\ q # <<>> => /\ Head(q) = q[1] /\ Len(q) >= 1
                        /\ Tail(q) \in Seq(NadEvent) /\ Len(Tail(q)) = Len(q) - 1
                        /\ \A i \in 1..Len(q) - 1 : Tail(q)[i] = q[i + 1]
  OBVIOUS

\* A list of n things is a sequence of length n.
LEMMA ListLength ==
  ASSUME NEW n \in Nat, NEW S, NEW s \in [1..n -> S]
  PROVE  s \in Seq(S) /\ Len(s) = n
  OBVIOUS

\* A step that has nothing to do with NADs.
LEMMA NadFrame ==
  ASSUME NadInv, UNCHANGED nadVars, stale => stale',
         pc' # "nad" \/ UNCHANGED <<pc, node, indexes, at, stale>>
  PROVE  NadInv'
  BY DEF NadInv, NadType, NadSeen, InHand, Unused, BridgeIndexUnique, nadVars

\* GetAvailableBrIndex picks as many indices as there are NADs to create; they
\* are different, and unused if no event of a NAD is pending.
LEMMA IndexStep ==
  ASSUME NadInv, node \in Chassis, GetAvailableBrIndex
  PROVE  NadInv'
  <1>1. UNCHANGED nadVars /\ (stale => stale') /\ (~stale' => nadQ = <<>>)
    BY DEF GetAvailableBrIndex
  <1>2. CASE Return
    BY <1>1, <1>2, NadFrame DEF Return
  <1> DEFINE free   == (1..MaxIndex - 1) \ UsedIndexes
             number == IF KindOf[node] = "magc" THEN 2 ELSE 1
             Rank(v) == Cardinality({w \in free : w < v})
  <1>3. CASE /\ Cardinality(free) >= number
             /\ indexes' = [i \in 1..number |-> CHOOSE v \in free : Rank(v) = i - 1]
             /\ at' = 1 /\ pc' = "nad" /\ UNCHANGED <<node, slot, lic, nodes, slots>>
    <2>1. /\ number \in {1, 2} /\ number \in Nat /\ free \in SUBSET Nat
          /\ free \subseteq 1..MaxIndex - 1
      BY SRVMAssumption
    <2>2. ASSUME NEW i \in 1..number PROVE indexes'[i] \in free /\ Rank(indexes'[i]) = i - 1
      <3> HIDE DEF free, number
      <3>1. \E v \in free : Rank(v) = i - 1
        BY <1>3, <2>1, LowestTwo
      <3>2. indexes'[i] = CHOOSE v \in free : Rank(v) = i - 1
        BY <1>3
      <3> HIDE DEF Rank
      <3>3. QED
        BY <3>1, <3>2
    <2>3. Len(indexes') = number
      <3>1. indexes' \in [1..number -> free]
        <4> HIDE DEF free, number, Rank
        <4>1. QED
          BY <1>3, <2>2
      <3> HIDE DEF free, number
      <3>2. QED
        BY <2>1, <3>1, ListLength
    <2>4. /\ Len(NadsOf(node)) <= number /\ Len(NadsOf(node)) \in Nat
          /\ \A i \in 1..Len(NadsOf(node)) : i \in 1..number
      BY NadsOfFacts
    <2>5. InHand'
      <3> HIDE DEF free, number, Rank
      <3>1. \A i \in 1..Len(NadsOf(node)) : indexes'[i] \in 1..MaxIndex - 1
        BY <2>1, <2>2, <2>4
      <3>2. /\ at' \in 1..Len(NadsOf(node)) + 1 /\ Len(indexes') >= Len(NadsOf(node))
            /\ \A i \in 1..at' - 1 : FALSE
        BY <1>3, <2>1, <2>3, <2>4
      <3>3. node' = node
        BY <1>3
      <3>4. QED
        BY <3>1, <3>2, <3>3 DEF InHand
    <2>6. ASSUME NEW i \in 1..Len(NadsOf(node)), NEW j \in 1..Len(NadsOf(node)),
                 indexes'[i] = indexes'[j]
          PROVE  i = j
      <3> HIDE DEF free, number, Rank
      <3>1. i - 1 = j - 1
        BY <2>2, <2>4, <2>6
      <3>2. QED
        BY <3>1
    <2>7. ASSUME ~stale', NEW n \in Nads PROVE nad[n] \notin free
      <3>1. nad[n] # 0 => nadC[n] # 0
        BY <1>1, <2>7 DEF NadInv, NadSeen
      <3>2. nad[n] # 0 => nad[n] \in UsedIndexes
        BY <3>1 DEF NadInv, NadSeen, UsedIndexes
      <3>3. QED
        BY <2>1, <3>2
    <2>8. Unused'
      <3> HIDE DEF free, number, Rank
      <3>1. ASSUME ~stale', NEW i \in at'..Len(NadsOf(node)), NEW n \in Nads
            PROVE  nad[n] # indexes'[i]
        BY <1>3, <2>2, <2>4, <2>7, <3>1
      <3>2. QED
        BY <1>1, <1>3, <2>6, <3>1 DEF Unused, nadVars
    <2>9. NadType' /\ NadSeen' /\ BridgeIndexUnique'
      BY <1>1 DEF NadInv, NadType, NadSeen, BridgeIndexUnique, nadVars
    <2>10. QED
      BY <2>5, <2>8, <2>9 DEF NadInv
  <1>4. QED
    BY <1>2, <1>3 DEF GetAvailableBrIndex

\* A NAD is created on an index that is not in use, if the list was current.
LEMMA NadStep ==
  ASSUME NadInv, node \in Chassis, EnsureNad
  PROVE  NadInv'
  <1> DEFINE n == NadsOf(node)[at]
             v == indexes[at]
             len == Len(NadsOf(node))
  <1>1. /\ pc = "nad" /\ at \in 1..len /\ len \in Nat /\ stale' = stale /\ n \in Nads
        /\ v \in 1..MaxIndex - 1 /\ v \in NadObj /\ v # 0
    <2>1. pc = "nad" /\ at <= len /\ stale' = stale
      BY DEF EnsureNad
    <2>2. at \in 1..len /\ len \in Nat
      BY <2>1, NadsOfFacts DEF NadInv, InHand
    <2>3. v \in 1..MaxIndex - 1 /\ n \in Nads
      BY <2>1, <2>2, NadsOfFacts DEF NadInv, InHand
    <2>4. QED
      BY <2>1, <2>2, <2>3, SRVMAssumption DEF NadObj
  <1>2. ASSUME at' = at + 1, UNCHANGED <<pc, node, indexes>>, nad'[n] # 0,
               \A m \in Nads \ {n} : nad'[m] = nad[m]
        PROVE  InHand'
    <2>1. \A i \in 1..len : i # at => NadsOf(node)[i] \in Nads \ {n}
      BY <1>1, NadsOfFacts
    <2>2. \A i \in 1..at' - 1 : i = at \/ (i \in 1..at - 1 /\ i \in 1..len /\ i # at)
      BY <1>1, <1>2
    <2>3. \A i \in 1..at' - 1 : nad'[NadsOf(node)[i]] # 0
      BY <1>1, <1>2, <2>1, <2>2 DEF NadInv, InHand
    <2>4. at' \in 1..len + 1
      BY <1>1, <1>2
    <2>5. QED
      BY <1>1, <1>2, <2>3, <2>4 DEF NadInv, InHand
  <1>3. at' = at + 1 => \A i \in at'..len : i \in at..len /\ i # at /\ i \in 1..len
    BY <1>1
  <1>4. CASE /\ nadC[n] # 0 /\ at' = at + 1
             /\ UNCHANGED <<nadVars, pc, node, indexes, slot, lic, nodes, slots>>
    <2>1. nad' = nad /\ nad[n] # 0
      BY <1>1, <1>4 DEF NadInv, NadSeen, nadVars
    <2>2. InHand'
      BY <1>2, <1>4, <2>1
    <2>3. Unused'
      BY <1>1, <1>3, <1>4, <2>1 DEF NadInv, Unused
    <2>4. QED
      BY <1>1, <1>4, <2>2, <2>3 DEF NadInv, NadType, NadSeen, BridgeIndexUnique, nadVars
  <1>5. CASE /\ nadC[n] = 0 /\ nad[n] = 0
             /\ nad' = [nad EXCEPT ![n] = v]
             /\ nadQ' = Append(nadQ, [name |-> n, obj |-> v])
             /\ at' = at + 1 /\ UNCHANGED <<nadC, pc, node, indexes, slot, lic, nodes, slots>>
    <2> DEFINE e == [name |-> n, obj |-> v]
    <2>1. e \in NadEvent /\ e.name = n /\ e.obj = v /\ nadQ \in Seq(NadEvent)
      BY <1>1 DEF NadEvent, NadInv, NadType
    <2>2. nad'[n] = v /\ \A m \in Nads \ {n} : nad'[m] = nad[m]
      BY <1>1, <1>5 DEF NadInv, NadType
    <2> HIDE DEF e, n, v, len
    <2>3. /\ Len(nadQ) \in Nat /\ \A i \in 1..Len(nadQ) : nadQ[i] \in NadEvent
          /\ nadQ' \in Seq(NadEvent) /\ Len(nadQ') = Len(nadQ) + 1
          /\ \A i \in 1..Len(nadQ) : nadQ'[i] = nadQ[i]
          /\ nadQ'[Len(nadQ) + 1] = e
      BY <1>5, <2>1, NadEvents DEF e
    <2>4. NadType'
      BY <1>1, <1>5, <2>3 DEF NadInv, NadType
    <2>5. ASSUME NEW i \in 1..Len(nadQ')
          PROVE  nadQ'[i].obj = nad'[nadQ'[i].name] /\ nadQ'[i].obj # 0
      <3>1. CASE i = Len(nadQ) + 1
        BY <1>1, <2>1, <2>2, <2>3, <3>1
      <3>2. CASE i \in 1..Len(nadQ)
        <4>1. nadQ[i].name \in Nads
          BY <2>3, <3>2 DEF NadEvent
        <4>2. nadQ[i].obj = nad[nadQ[i].name] /\ nadQ[i].obj # 0
          BY <3>2 DEF NadInv, NadSeen
        <4>3. nadQ[i].name # n
          BY <1>5, <4>2
        <4>4. QED
          BY <2>2, <2>3, <3>2, <4>1, <4>2, <4>3
      <3>3. QED
        BY <2>3, <3>1, <3>2
    <2>6. ASSUME NEW m \in Nads, nad'[m] # 0, nadC'[m] = 0
          PROVE  \E i \in 1..Len(nadQ') : nadQ'[i].name = m
      <3>1. CASE m = n
        <4>1. Len(nadQ) + 1 \in 1..Len(nadQ') /\ nadQ'[Len(nadQ) + 1].name = m
          BY <2>1, <2>3, <3>1
        <4>2. QED
          BY <4>1
      <3>2. CASE m # n
        <4>1. PICK i \in 1..Len(nadQ) : nadQ[i].name = m
          BY <1>5, <2>2, <2>6, <3>2 DEF NadInv, NadSeen
        <4>2. i \in 1..Len(nadQ') /\ nadQ'[i].name = m
          BY <2>3, <4>1
        <4>3. QED
          BY <4>2
      <3>3. QED
        BY <3>1, <3>2
    <2>7. \A m \in Nads : nadC'[m] # 0 => nadC'[m] = nad'[m]
      BY <1>5, <2>2 DEF NadInv, NadSeen
    <2>8. NadSeen'
      BY <2>5, <2>6, <2>7 DEF NadSeen
    <2>9. InHand'
      BY <1>1, <1>2, <1>5, <2>2 DEF n, len
    <2>10. ASSUME ~stale PROVE \A m \in Nads : nad[m] # v
      BY <1>1, <2>10 DEF NadInv, Unused, v, len
    <2>11. Unused'
      <3>1. ASSUME NEW i \in at'..len, NEW m \in Nads, ~stale PROVE nad'[m] # indexes[i]
        <4>1. i \in at..len /\ i # at /\ i \in 1..len
          BY <1>3, <1>5
        <4>2. indexes[i] # v
          BY <1>1, <4>1 DEF NadInv, Unused, v, len
        <4>3. nad[m] # indexes[i]
          BY <1>1, <3>1, <4>1 DEF NadInv, Unused, len
        <4>4. QED
          BY <2>2, <4>2, <4>3
      <3>2. QED
        BY <1>1, <1>5, <3>1 DEF NadInv, Unused, len
    <2>12. BridgeIndexUnique'
      BY <1>1, <2>2, <2>10 DEF NadInv, BridgeIndexUnique
    <2>13. QED
      BY <2>4, <2>8, <2>9, <2>11, <2>12 DEF NadInv
  <1>6. CASE Return /\ UNCHANGED nadVars
    BY <1>1, <1>6, NadFrame DEF Return
  <1>7. QED
    BY <1>4, <1>5, <1>6 DEF EnsureNad

\* An event of a NAD arrives.
LEMMA DeliverNadStep ==
  ASSUME NadInv, DeliverNad
  PROVE  NadInv'
  <1> DEFINE e == nadQ[1]
  <1>1. /\ nadQ # <<>> /\ nad' = nad /\ nadQ' = Tail(nadQ) /\ UNCHANGED <<workerVars, stale>>
        /\ nadC' = [nadC EXCEPT ![Head(nadQ).name] = Head(nadQ).obj]
    BY DEF DeliverNad
  <1>2. nadQ \in Seq(NadEvent) /\ nadC \in [Nads -> NadObj]
    BY DEF NadInv, NadType
  <1>3. /\ Head(nadQ) = e /\ Len(nadQ) \in Nat /\ Len(nadQ) >= 1 /\ e \in NadEvent
        /\ nadQ' \in Seq(NadEvent) /\ Len(nadQ') = Len(nadQ) - 1
        /\ \A i \in 1..Len(nadQ) - 1 : nadQ'[i] = nadQ[i + 1]
    BY <1>1, <1>2, NadEvents
  <1>4. e.name \in Nads /\ e.obj \in NadObj
    BY <1>3 DEF NadEvent
  <1>5. /\ nadC'[e.name] = e.obj /\ \A m \in Nads \ {e.name} : nadC'[m] = nadC[m]
        /\ nadC' \in [Nads -> NadObj]
    BY <1>1, <1>2, <1>3, <1>4
  <1>6. e.obj = nad[e.name] /\ e.obj # 0
    BY <1>3 DEF NadInv, NadSeen
  <1> HIDE DEF e
  <1>7. NadType'
    BY <1>1, <1>3, <1>5 DEF NadInv, NadType
  <1>8. ASSUME NEW m \in Nads, nad[m] # 0, nadC'[m] = 0
        PROVE  \E i \in 1..Len(nadQ') : nadQ'[i].name = m
    <2>1. m # e.name /\ nadC[m] = 0
      BY <1>5, <1>6, <1>8
    <2>2. PICK i \in 1..Len(nadQ) : nadQ[i].name = m
      BY <1>8, <2>1 DEF NadInv, NadSeen
    <2>3. i # 1
      BY <2>1, <2>2 DEF e
    <2>4. i - 1 \in 1..Len(nadQ') /\ nadQ'[i - 1] = nadQ[i]
      BY <1>3, <2>3
    <2>5. QED
      BY <2>2, <2>4
  <1>9. ASSUME NEW i \in 1..Len(nadQ')
        PROVE  nadQ'[i].obj = nad[nadQ'[i].name] /\ nadQ'[i].obj # 0
    <2>1. i + 1 \in 1..Len(nadQ) /\ nadQ'[i] = nadQ[i + 1]
      BY <1>3
    <2>2. QED
      BY <2>1 DEF NadInv, NadSeen
  <1>10. \A m \in Nads : nadC'[m] # 0 => nadC'[m] = nad[m]
    BY <1>5, <1>6 DEF NadInv, NadSeen
  <1>11. NadSeen'
    BY <1>1, <1>8, <1>9, <1>10 DEF NadSeen
  <1>12. InHand' /\ Unused' /\ BridgeIndexUnique'
    BY <1>1 DEF NadInv, InHand, Unused, BridgeIndexUnique, workerVars
  <1>13. QED
    BY <1>7, <1>11, <1>12 DEF NadInv

\* Every step keeps the bridge indices in order.
LEMMA NadInvStep ==
  ASSUME NadInv, node \in Chassis, [Next]_vars
  PROVE  NadInv'
<1>1. CASE GetAvailableBrIndex
  BY <1>1, IndexStep
<1>2. CASE EnsureNad
  BY <1>2, NadStep
<1>3. CASE DeliverNad
  BY <1>3, DeliverNadStep
<1>4. CASE Crash
  <2>1. nad' = nad /\ nadC' = nad /\ nadQ' = <<>> /\ pc' = "idle" /\ stale' = stale
    BY <1>4 DEF Crash, Return
  <2>2. NadType'
    BY <2>1 DEF NadInv, NadType
  <2>3. NadSeen'
    BY <2>1 DEF NadSeen
  <2>4. InHand' /\ Unused' /\ BridgeIndexUnique'
    BY <2>1 DEF NadInv, InHand, Unused, BridgeIndexUnique
  <2>5. QED
    BY <2>2, <2>3, <2>4 DEF NadInv
<1>5. CASE /\ UNCHANGED <<nadVars, stale>>
           /\ pc' # "nad" \/ UNCHANGED <<pc, node, indexes, at>>
  BY <1>5, NadFrame
<1>6. CASE UNCHANGED vars
  BY <1>5, <1>6 DEF vars, workerVars
<1>7. CASE Worker /\ ~GetAvailableBrIndex /\ ~EnsureNad
  <2>1. UNCHANGED <<nadVars, stale>>
    BY <1>7 DEF Worker, Reconcile, Ensure, EndReconcile, PrepareFiles, VisitCard, CardsDone,
       CopyLicense, EnsureDv, EnsureVmi, Recreate
  <2>2. pc' # "nad"
    BY <1>7 DEF Worker, Reconcile, Ensure, EndReconcile, PrepareFiles, VisitCard, CardsDone,
       CopyLicense, EnsureDv, EnsureVmi, CreateOrReplace, Recreate, Panic, Return, Goto
  <2>3. QED
    BY <1>5, <2>1, <2>2
<1>8. CASE ApiError
  BY <1>5, <1>8 DEF ApiError, Return
<1>9. ASSUME \/ DeliverDv \/ UserCreatesSecret \/ Resync \/ \E c \in Configs : LoadConfig(c)
             \/ \E x \in Cards : DeliverVmi(x) \/ VmiEnds(x) \/ VmiGone(x)
      PROVE  NadInv'
  BY <1>5, <1>9 DEF DeliverDv, UserCreatesSecret, Resync, LoadConfig, DeliverVmi, VmiEnds,
     VmiGone, workerVars
<1>10. QED
  BY <1>1, <1>2, <1>3, <1>4, <1>6, <1>7, <1>8, <1>9 DEF Next

\* Initially there is no NAD.
LEMMA NadInit == Init => NadInv
  <1> SUFFICES ASSUME Init PROVE NadInv
    OBVIOUS
  <1>1. nad = [n \in Nads |-> 0] /\ nadC = nad /\ nadQ = <<>> /\ pc = "idle"
    BY DEF Init
  <1>2. NadType
    BY <1>1, SRVMAssumption DEF NadType, NadObj
  <1>3. NadSeen /\ InHand /\ Unused /\ BridgeIndexUnique
    BY <1>1 DEF NadSeen, InHand, Unused, BridgeIndexUnique
  <1>4. QED
    BY <1>2, <1>3 DEF NadInv

\* No two fabric networks have the same bridge index as long as every list of
\* NADs that GetAvailableBrIndex picked from was current: for any number of
\* chassis, although the indices are picked before it is known which NADs
\* exist, and calls fail and the operator restarts in between.
THEOREM BridgeIndexUniqueTheorem == Spec => []BridgeIndexUnique
  <1>1. Init => LifeInv /\ NadInv
    BY LifeInit, NadInit
  <1>2. LifeInv /\ NadInv /\ [Next]_vars => (LifeInv /\ NadInv)'
    BY LifeStep, NadInvStep DEF LifeInv, CardType
  <1>3. NadInv => BridgeIndexUnique
    BY DEF NadInv
  <1>4. QED
    BY <1>1, <1>2, <1>3, PTL DEF Spec

-----------------------------------------------------------------------------
(* Booting *)

\* Networks, files and data volumes are never taken away.
LEMMA NothingLost ==
  ASSUME NadInv, node \in Chassis, [Next]_vars
  PROVE  /\ files \subseteq files' /\ dv \subseteq dv'
         /\ \A n \in Nads : nad[n] # 0 => nad'[n] # 0
<1>1. files \subseteq files' /\ dv \subseteq dv'
  BY DEF Next, Worker, Reconcile, Ensure, EndReconcile, GetAvailableBrIndex, EnsureNad,
     PrepareFiles, VisitCard, CardsDone, CopyLicense, EnsureDv, EnsureVmi, Recreate, ApiError,
     DeliverNad, DeliverVmi, DeliverDv, VmiEnds, VmiGone, UserCreatesSecret, Resync, Crash,
     LoadConfig, vars, dvVars
<1>2. CASE EnsureNad
  <2> DEFINE n == NadsOf(node)[at]
  <2>1. nad' = nad \/ (nad[n] = 0 /\ nad' = [nad EXCEPT ![n] = indexes[at]])
    BY <1>2 DEF EnsureNad, nadVars
  <2>2. QED
    BY <1>1, <2>1 DEF NadInv, NadType
<1>3. \/ nad' = nad \/ EnsureNad
  BY DEF Next, Worker, Reconcile, Ensure, EndReconcile, GetAvailableBrIndex,
     PrepareFiles, VisitCard, CardsDone, CopyLicense, EnsureDv, EnsureVmi, Recreate, ApiError,
     DeliverNad, DeliverVmi, DeliverDv, VmiEnds, VmiGone, UserCreatesSecret, Resync, Crash,
     LoadConfig, vars, nadVars
<1>4. QED
  BY <1>1, <1>2, <1>3

\* A process starts with no KNLConfig loaded.
LEMMA NoLoads == 0 \in 0..MaxLoad
  BY SRVMAssumption

\* The types of files and data volumes, and of the configuration.
LEMMA MiscStep ==
  ASSUME LifeInv, NadInv, BootInv, [Next]_vars
  PROVE  MiscType'
<1>1. node \in Chassis /\ MiscType /\ CardType
  BY DEF LifeInv, CardType, BootInv
<1>2. CASE EnsureDv
  <2>1. <<node, slot>> \in Cards /\ slot \in CPMs
    BY <1>1, <1>2, CardInTurn DEF EnsureDv, BootInv, CpmPrepared
  <2>2. <<node, slot>> \in {x \in Cards : x[2] \in CPMs}
    BY <2>1
  <2>3. /\ dv' = dv \/ dv' = dv \cup {<<node, slot>>}
        /\ UNCHANGED <<dvC, files, secret, confVars>> /\ (queued' = queued \/ queued' = TRUE)
        /\ (nodes' = nodes \/ nodes' = {}) /\ (conf' = conf \/ conf' = {})
    BY <1>2 DEF EnsureDv, Panic, Goto, Return
  <2>4. QED
    BY <1>1, <2>2, <2>3 DEF MiscType, confVars
<1>3. CASE PrepareFiles \/ CopyLicense
  <2>1. /\ files' \subseteq files \cup {<<node, "img">>, <<node, "cfg">>, <<node, "lic">>}
        /\ UNCHANGED <<dv, dvC, secret, queued, confVars>>
        /\ (nodes' = nodes \/ nodes' = {}) /\ (conf' = conf \/ conf' = {})
    BY <1>3 DEF PrepareFiles, CopyLicense, Return, dvVars
  <2>2. QED
    BY <1>1, <2>1 DEF MiscType, confVars
<1>4. CASE UNCHANGED vars
  BY <1>1, <1>4 DEF vars, dvVars, workerVars, confVars, MiscType
<1>5. CASE Worker /\ ~EnsureDv /\ ~PrepareFiles /\ ~CopyLicense
  <2>1. UNCHANGED <<dv, dvC, files, secret, confVars>>
    BY <1>5 DEF Worker, Reconcile, Ensure, EndReconcile, GetAvailableBrIndex, EnsureNad,
       VisitCard, CardsDone, EnsureVmi, Recreate, dvVars
  <2>2. (queued' = queued \/ queued' \in BOOLEAN) /\ nodes' \subseteq nodes \cup Chassis
    BY <1>5 DEF Worker, Reconcile, Ensure, EndReconcile, GetAvailableBrIndex, EnsureNad,
       VisitCard, CardsDone, EnsureVmi, CreateOrReplace, Recreate, Panic, Goto, Return
  <2>3. conf' = conf \/ conf' = gconf \/ conf' = {}
    BY <1>5 DEF Worker, Reconcile, Ensure, EndReconcile, GetAvailableBrIndex, EnsureNad,
       VisitCard, CardsDone, EnsureVmi, CreateOrReplace, Recreate, Panic, Goto, Return
  <2>4. QED
    BY <1>1, <2>1, <2>2, <2>3 DEF MiscType, confVars
<1>6. CASE DeliverNad \/ DeliverDv \/ UserCreatesSecret \/ Resync \/ ApiError \/ Crash
  <2>1. /\ UNCHANGED <<dv, files>> /\ (dvC' = dvC \/ dvC' = dv)
        /\ (secret' = secret \/ secret' = TRUE) /\ (queued' = queued \/ queued' = TRUE)
        /\ (nodes' = nodes \/ nodes' = {}) /\ (conf' = conf \/ conf' = {})
        /\ (UNCHANGED confVars \/ (gconf' = {} /\ loads' = 0))
    BY <1>6 DEF DeliverNad, DeliverDv, UserCreatesSecret, Resync, ApiError, Crash, Return,
       dvVars, workerVars
  <2>2. QED
    BY <1>1, <2>1, NoLoads DEF MiscType, confVars
<1>7. ASSUME NEW x \in Cards, DeliverVmi(x) \/ VmiEnds(x) \/ VmiGone(x) PROVE MiscType'
  <2>1. /\ UNCHANGED <<dv, dvC, files, secret, nodes, conf, confVars>>
        /\ (queued' = queued \/ queued' = TRUE)
    BY <1>7 DEF DeliverVmi, VmiEnds, VmiGone, dvVars, workerVars
  <2>2. QED
    BY <1>1, <2>1 DEF MiscType, confVars
<1>8. ASSUME NEW c \in Configs, LoadConfig(c) PROVE MiscType'
  <2>1. /\ UNCHANGED <<dv, dvC, files, secret, queued, nodes, conf>>
        /\ gconf' = c /\ loads < MaxLoad /\ loads' = loads + 1
    BY <1>8 DEF LoadConfig, dvVars, workerVars
  <2>2. QED
    BY <1>1, <2>1, SRVMAssumption DEF MiscType
<1>9. QED
  BY <1>2, <1>3, <1>4, <1>5, <1>6, <1>7, <1>8 DEF Next

\* How the worker gets to a step of the loop over the cards.
LEMMA CardLoop ==
  ASSUME [Next]_vars, pc' \in AtCards
  PROVE  \/ PrepareFiles
         \/ (\E s : VisitCard(s)) /\ pc' \in {"license", "vmi"}
         \/ CopyLicense /\ lic' = TRUE /\ pc' = "dv" /\ UNCHANGED <<node, slot>>
         \/ EnsureDv /\ pc' = "vmi" /\ UNCHANGED <<node, slot, lic>>
         \/ EnsureVmi /\ pc' \in {"card", "recreate"} /\ UNCHANGED <<node, slot, lic>>
         \/ UNCHANGED <<pc, node, slot, lic>>
<1>1. CASE Worker
  BY <1>1 DEF Worker, Reconcile, Ensure, EndReconcile, GetAvailableBrIndex, EnsureNad,
     PrepareFiles, VisitCard, CardsDone, CopyLicense, EnsureDv, EnsureVmi, CreateOrReplace,
     Recreate, Panic, Return, Goto, AtCards
<1>2. CASE ~Worker
  BY <1>2 DEF Next, DeliverNad, DeliverVmi, DeliverDv, VmiEnds, VmiGone, UserCreatesSecret,
     LoadConfig, Resync, Crash, ApiError, Return, vars, workerVars, AtCards
<1>3. QED
  BY <1>1, <1>2

\* Networks and folders are there when the loop over the cards starts, and the
\* license when licFullPath says so.
LEMMA PreparedStep ==
  ASSUME LifeInv, NadInv, BootInv, [Next]_vars
  PROVE  Prepared'
  <1> SUFFICES ASSUME pc' \in AtCards PROVE Prepared'
    BY DEF Prepared
  <1>1. node \in Chassis
    BY DEF LifeInv, CardType
  <1>2. CASE PrepareFiles
    <2>1. /\ pc = "nad" /\ at > Len(NadsOf(node)) /\ nad' = nad /\ lic' = FALSE /\ node' = node
          /\ <<node, "img">> \in files' /\ <<node, "cfg">> \in files'
      BY <1>2 DEF PrepareFiles, nadVars
    <2>2. at \in 1..Len(NadsOf(node)) + 1 /\ Len(NadsOf(node)) \in Nat
      BY <1>1, <2>1, NadsOfFacts DEF NadInv, InHand
    <2>3. \A i \in 1..Len(NadsOf(node)) : i \in 1..at - 1
      BY <2>1, <2>2
    <2>4. QED
      BY <2>1, <2>3 DEF NadInv, InHand, Prepared
  <1>3. ASSUME pc \in AtCards, node' = node, lic' => lic \/ <<node, "lic">> \in files'
        PROVE  Prepared'
    <2>1. \A i \in 1..Len(NadsOf(node)) : NadsOf(node)[i] \in Nads
      BY <1>1, NadsOfFacts
    <2>2. QED
      BY <1>1, <1>3, <2>1, NothingLost DEF BootInv, Prepared
  <1>4. CASE CopyLicense /\ lic' = TRUE /\ UNCHANGED <<node, slot>>
    <2>1. pc = "license" /\ <<node, "lic">> \in files'
      BY <1>4 DEF CopyLicense, Return
    <2>2. QED
      BY <1>3, <1>4, <2>1 DEF AtCards
  <1>5. CASE \E s : VisitCard(s)
    BY <1>3, <1>5 DEF VisitCard, AtCards
  <1>6. CASE (EnsureDv \/ EnsureVmi) /\ UNCHANGED <<node, slot, lic>>
    <2>1. pc \in AtCards
      BY <1>6 DEF EnsureDv, EnsureVmi, AtCards
    <2>2. QED
      BY <1>3, <1>6, <2>1
  <1>7. CASE UNCHANGED <<pc, node, slot, lic>>
    BY <1>3, <1>7
  <1>8. QED
    BY <1>2, <1>4, <1>5, <1>6, <1>7, CardLoop

\* A CPM has its license and its data volume when its VMI is made.
LEMMA CpmStep ==
  ASSUME LifeInv, NadInv, BootInv, [Next]_vars
  PROVE  CpmPrepared'
  <1> SUFFICES ASSUME pc' \in {"license", "dv", "vmi"} PROVE CpmPrepared'
    BY DEF CpmPrepared
  <1>1. pc' \in AtCards
    BY DEF AtCards
  <1>2. CASE PrepareFiles
    BY <1>2 DEF PrepareFiles
  <1>3. CASE \E s : VisitCard(s)
    BY <1>3 DEF VisitCard, CpmPrepared
  <1>4. CASE CopyLicense /\ lic' = TRUE /\ pc' = "dv" /\ UNCHANGED <<node, slot>>
    BY <1>4 DEF CopyLicense, BootInv, CpmPrepared
  <1>5. CASE EnsureDv /\ pc' = "vmi" /\ UNCHANGED <<node, slot, lic>>
    <2>1. <<node, slot>> \in dv'
      BY <1>5 DEF EnsureDv, Panic, Return, BootInv, MiscType
    <2>2. lic
      BY <1>5 DEF EnsureDv, BootInv, CpmPrepared
    <2>3. QED
      BY <1>5, <2>1, <2>2 DEF CpmPrepared
  <1>6. CASE UNCHANGED <<pc, node, slot, lic>>
    <2>1. dv \subseteq dv'
      BY NothingLost DEF LifeInv, CardType
    <2>2. QED
      BY <1>6, <2>1 DEF BootInv, CpmPrepared
  <1>7. CASE pc' \in {"card", "recreate"}
    BY <1>7
  <1>8. QED
    BY <1>1, <1>2, <1>3, <1>4, <1>5, <1>6, <1>7, CardLoop

\* Where a VMI comes from.
LEMMA NewVmis ==
  ASSUME LifeInv, [Next]_vars, NEW x \in Cards, vmi'[x].ph # "gone"
  PROVE  \/ vmi[x].ph # "gone" /\ vmi'[x].lic = vmi[x].lic
         \/ pc = "vmi" /\ x = <<node, slot>> /\ vmi'[x].lic = lic
<1>1. VmiType /\ vmi \in [Cards -> VmiObj] /\ vmi[x] \in VmiObj
  BY DEF LifeInv, VmiType
<1>2. CASE vmi' = vmi
  BY <1>2
<1>3. CASE EnsureVmi
  <2> DEFINE y == <<node, slot>>
  <2>1. y \in Cards /\ pc = "vmi" /\ vmi[y] \in VmiObj
    BY <1>1, <1>3, CardInTurn DEF EnsureVmi, LifeInv
  <2>2. \/ vmi' = vmi
        \/ vmi' = [vmi EXCEPT ![y] = NewVmi]
        \/ vmi[y].ph # "gone" /\ vmi' = [vmi EXCEPT ![y] = [vmi[y] EXCEPT !.dying = TRUE]]
    BY <1>3 DEF EnsureVmi, CreateOrReplace, PutVmi, vmiVars
  <2>3. NewVmi.lic = lic /\ [vmi[y] EXCEPT !.dying = TRUE].lic = vmi[y].lic
    BY <2>1 DEF NewVmi, VmiObj
  <2> HIDE DEF y
  <2>4. QED
    BY <1>1, <2>1, <2>2, <2>3 DEF y
<1>4. ASSUME NEW y \in Cards, VmiEnds(y) PROVE vmi[x].ph # "gone" /\ vmi'[x].lic = vmi[x].lic
  <2>1. vmi[y].ph = "Running" /\ vmi' = [vmi EXCEPT ![y] = [vmi[y] EXCEPT !.ph = "Failed"]]
    BY <1>4 DEF VmiEnds, PutVmi
  <2>2. vmi[y] \in VmiObj
    BY <1>1
  <2>3. [vmi[y] EXCEPT !.ph = "Failed"].lic = vmi[y].lic
    BY <2>2 DEF VmiObj
  <2>4. QED
    BY <1>1, <2>1, <2>3
<1>5. ASSUME NEW y \in Cards, VmiGone(y) PROVE vmi[x].ph # "gone" /\ vmi'[x].lic = vmi[x].lic
  <2>1. vmi' = [vmi EXCEPT ![y] = NoVmi] /\ NoVmi.ph = "gone"
    BY <1>5 DEF VmiGone, PutVmi, NoVmi
  <2>2. QED
    BY <1>1, <2>1
<1>6. vmi' = vmi \/ EnsureVmi \/ \E y \in Cards : VmiEnds(y) \/ VmiGone(y)
  BY DEF Next, Worker, Reconcile, Ensure, EndReconcile, GetAvailableBrIndex, EnsureNad,
     PrepareFiles, VisitCard, CardsDone, CopyLicense, EnsureDv, Recreate, ApiError,
     DeliverNad, DeliverVmi, DeliverDv, UserCreatesSecret, LoadConfig, Resync, Crash, vars,
     vmiVars
<1>7. QED
  BY <1>2, <1>3, <1>4, <1>5, <1>6

\* Every step leaves a VMI with all that it boots from.
LEMMA BootableStep ==
  ASSUME LifeInv, NadInv, BootInv, [Next]_vars
  PROVE  Bootable'
  <1>1. node \in Chassis
    BY DEF LifeInv, CardType
  <1>2. \A n \in Nads : nad[n] # 0 => nad'[n] # 0
    BY <1>1, NothingLost
  <1>3. files \subseteq files' /\ dv \subseteq dv'
    BY <1>1, NothingLost
  <1> SUFFICES ASSUME NEW c \in Chassis, NEW s \in SlotsOf[c], vmi'[<<c, s>>].ph # "gone"
               PROVE  /\ OwnSysInfo(c, s) => \A n \in Networks(c, s) : n \in Nads /\ nad'[n] # 0
                      /\ {<<c, "img">>, <<c, "cfg">>} \subseteq files'
                      /\ s \in CPMs => /\ <<c, s>> \in dv' /\ <<c, "lic">> \in files'
                                       /\ vmi'[<<c, s>>].lic
    BY DEF Bootable
  <1>4. <<c, s>> \in Cards
    BY DEF Cards
  <1>5. OwnSysInfo(c, s) => \A n \in Networks(c, s) : n \in Nads /\ n[1] = c
    BY OwnNetworks
  <1>6. CASE vmi[<<c, s>>].ph # "gone" /\ vmi'[<<c, s>>].lic = vmi[<<c, s>>].lic
    BY <1>2, <1>3, <1>5, <1>6 DEF BootInv, Bootable
  <1>7. CASE pc = "vmi" /\ <<c, s>> = <<node, slot>> /\ vmi'[<<c, s>>].lic = lic
    <2>1. c = node /\ s = slot /\ pc \in AtCards
      BY <1>7 DEF AtCards
    <2>2. OwnSysInfo(c, s) => \A n \in Networks(c, s) : nad[n] # 0
      BY <1>5, <2>1, NadOwner DEF BootInv, Prepared
    <2>3. QED
      BY <1>2, <1>3, <1>5, <1>7, <2>1, <2>2 DEF BootInv, Prepared, CpmPrepared
  <1>8. QED
    BY <1>4, <1>6, <1>7, NewVmis

\* Initially there is no VMI, no file and no data volume.
LEMMA BootInit == Init => BootInv
  <1> SUFFICES ASSUME Init PROVE BootInv
    OBVIOUS
  <1>1. MiscType
    BY NoLoads DEF Init, MiscType
  <1>2. Prepared /\ CpmPrepared
    BY DEF Init, Prepared, CpmPrepared, AtCards
  <1>3. Bootable
    <2>1. \A x \in Cards : vmi[x].ph = "gone"
      BY DEF Init, NoVmi
    <2>2. \A c \in Chassis : \A s \in SlotsOf[c] : <<c, s>> \in Cards
      BY DEF Cards
    <2>3. QED
      BY <2>1, <2>2 DEF Bootable
  <1>4. QED
    BY <1>1, <1>2, <1>3 DEF BootInv

\* The three invariants together hold in every reachable state.
LEMMA EnsureInvariant == Spec => [](LifeInv /\ NadInv /\ BootInv)
  <1>1. Init => LifeInv /\ NadInv /\ BootInv
    BY LifeInit, NadInit, BootInit
  <1>2. ASSUME LifeInv /\ NadInv /\ BootInv, [Next]_vars PROVE (LifeInv /\ NadInv /\ BootInv)'
    <2>1. LifeInv' /\ NadInv'
      BY <1>2, LifeStep, NadInvStep DEF LifeInv, CardType
    <2>2. BootInv'
      BY <1>2, MiscStep, PreparedStep, CpmStep, BootableStep DEF BootInv
    <2>3. QED
      BY <2>1, <2>2
  <1>3. QED
    BY <1>1, <1>2, PTL DEF Spec

\* SRVM.Ensure never takes an index that indexList does not have, and never
\* works for a card that the chassis does not have.
THEOREM TypeCorrect == Spec => []TypeOK
  <1>1. LifeInv /\ NadInv /\ BootInv => TypeOK
    BY DEF LifeInv, VmiType, CardType, NadInv, NadType, NadEvent, InHand, BootInv, MiscType, TypeOK
  <1>2. QED
    BY <1>1, EnsureInvariant, PTL

\* A VMI of an SR OS chassis is never there without the folders of its chassis
\* and, if its SysInfo is that of its own chassis, the fabric networks it refers
\* to, nor that of a CPM without data volume and license, whatever calls fail,
\* whatever KNLConfigs are loaded and wherever the operator restarts: a
\* reconcile that goes on with what an earlier one left behind has to find it
\* again first.
THEOREM BootableTheorem == Spec => []Bootable
  <1>1. BootInv => Bootable
    BY DEF BootInv
  <1>2. QED
    BY <1>1, EnsureInvariant, PTL

=============================================================================
