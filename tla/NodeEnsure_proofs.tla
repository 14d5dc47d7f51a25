-------------------------- MODULE NodeEnsure_proofs --------------------------
(***************************************************************************)
(* Proofs about NodeEnsure for any specs of Labs, any number of creations  *)
(* and faults and any lag of the caches: what a workload of the Lab refers *)
(* to is there and is this Lab's, and the VMIs live as VmiLife says.       *)
(***************************************************************************)
EXTENDS NodeEnsure, FiniteSetTheorems, TLAPS

-----------------------------------------------------------------------------
(* The inductive invariants *)

\* The UIDs of the Lab go up, in the order in which the informer and then the
\* worker see them; 0 is in between.
UidInv ==
  /\ specOf \in Histories
  /\ lab \in {0, made} /\ labC <= made /\ cur <= made
  /\ labC # 0 => cur <= labC
  /\ \A i \in 1..Len(labQ) :
       /\ labQ[i] <= made
       /\ labQ[i] # 0 => labC <= labQ[i] /\ cur <= labQ[i]
       /\ \A j \in 1..Len(labQ) : i < j /\ labQ[j] # 0 => labQ[i] <= labQ[j]

\* A UID that is not later than any the worker may still work for.
Known(u) ==
  /\ u <= made
  /\ cur # 0 => u <= cur
  /\ labC # 0 => u <= labC
  /\ \A i \in 1..Len(labQ) : labQ[i] # 0 => u <= labQ[i]

\* The UID of a Lab that is no more.
Past(u) == u # lab /\ u <= made

\* The states of x from the cached one, the 0th, on to the stored one.
Seen(x, i) == IF i = 0 THEN objC[x] ELSE objQ[x][i]
Span(x)    == 0..Len(objQ[x])
There(x, i) == Seen(x, i).ph # "gone"

\* The last event is the object as it is, and all were made for known Labs.
History(x) ==
  /\ Seen(x, Len(objQ[x])) = obj[x]
  /\ \A i \in Span(x) : There(x, i) => Seen(x, i).by >= 1 /\ Known(Seen(x, i).by)

NodeInv == TypeOK /\ UidInv /\ \A x \in Objects : History(x)

\* Objects are made for Labs in the order of their UIDs.
Ascending(x) ==
  \A i, j \in Span(x) : i < j /\ There(x, i) /\ There(x, j) => Seen(x, i).by <= Seen(x, j).by

\* A VMI that has failed is gone before there is another.
FailedGoes(x) ==
  \A i, j \in Span(x) :
    i < j /\ Seen(x, i).ph = "Failed" /\ Seen(x, j).ph = "up"
      => \E k \in Span(x) : i < k /\ k < j /\ ~There(x, k)

\* If one Lab's VMI is gone and there again and the cache has yet to see that,
\* the Lab is no more.
AgainIsPast(x) ==
  \A i, k, j \in Span(x) :
    /\ i < k /\ k < j /\ There(x, i) /\ ~There(x, k) /\ There(x, j)
    /\ Seen(x, i).by = Seen(x, j).by
    => Past(Seen(x, i).by)

\* A VMI that comes and goes while the cache has yet to see its coming was the
\* garbage collector's.
UnseenIsPast(x) ==
  \A k, i, j \in Span(x) :
    k < i /\ i < j /\ ~There(x, k) /\ There(x, i) /\ ~There(x, j) => Past(Seen(x, i).by)

\* And so is one that is about to go.
DyingIsPast(x) ==
  obj[x].dying => /\ obj[x].ph # "gone"
                  /\ (\E k \in Span(x) : ~There(x, k)) => Past(obj[x].by)

VmiHistory(x) == /\ Ascending(x) /\ FailedGoes(x) /\ AgainIsPast(x)
                 /\ UnseenIsPast(x) /\ DyingIsPast(x)

IsVmi(x) == x[2] = "vmi"

LifeInv == \A x \in Objects : IsVmi(x) => VmiHistory(x)

\* What is mounted is not a workload, is up or gone, and does not die slowly.
\* If it has no owner it stays; if it is the present Lab's it stays too.
MountHistory(x) ==
  /\ \A i \in Span(x) : ~Seen(x, i).dying /\ Seen(x, i).ph # "Failed"
  /\ \A i \in Span(x) : There(x, i) /\ (Owned(x) => Seen(x, i).by = lab)
       => obj[x].ph = "up" /\ (Owned(x) => obj[x].by = lab)

\* What a workload may be started on.
Ready(x) == obj[x].ph = "up" /\ (Owned(x) => obj[x].by = lab)

\* The worker has ensured what is not left to do of the node that it is at.
Mounted ==
  pc = "ensure" /\ cur = lab =>
    \A n \in Nodes(cur) : Workload(specOf[cur], n) \in todo =>
      \A x \in Mounts(specOf[cur], n) \ todo : Ready(x)

MountInv == /\ \A x \in Objects : ~IsWorkload(x) => MountHistory(x)
            /\ Mounted /\ Mountable

-----------------------------------------------------------------------------
(* Queues and objects *)

\* What Append does to a queue of events.
LEMMA AppendFacts ==
  ASSUME NEW S, NEW q \in Seq(S), NEW x \in S
  PROVE  /\ Append(q, x) \in Seq(S) /\ Len(q) \in Nat
         /\ Len(Append(q, x)) = Len(q) + 1
         /\ \A i \in 1..Len(q) : Append(q, x)[i] = q[i]
         /\ Append(q, x)[Len(q) + 1] = x
  OBVIOUS

\* What Tail does to one.
LEMMA TailFacts ==
  ASSUME NEW S, NEW q \in Seq(S), q # <<>>
  PROVE  /\ Head(q) \in S /\ Head(q) = q[1]
         /\ Len(q) \in Nat /\ Len(q) >= 1
         /\ Tail(q) \in Seq(S) /\ Len(Tail(q)) = Len(q) - 1
         /\ \A i \in 1..Len(q) - 1 : Tail(q)[i] = q[i + 1]
  OBVIOUS

\* An event in a queue of S is in S.
LEMMA ElementType ==
  ASSUME NEW S, NEW q \in Seq(S), NEW i \in 1..Len(q)
  PROVE  q[i] \in S
  OBVIOUS

\* No object is an object.
LEMMA NoObjType == NoObj \in Obj /\ NoObj.ph = "gone" /\ ~NoObj.dying
  BY NodeAssumption DEF NoObj, Obj

\* The objects do not change.
LEMMA ObjectsFixed ==
  ASSUME TypeOK
  PROVE  /\ Objects = ObjectsOf(specOf) /\ obj \in [Objects -> Obj]
         /\ objC \in [Objects -> Obj] /\ objQ \in [Objects -> Seq(Obj)]
  BY DEF TypeOK, Objects

\* Writing an object.
LEMMA PutType ==
  ASSUME TypeOK, NEW x \in Objects, NEW o \in Obj, Put(x, o)
  PROVE  /\ obj' \in [Objects -> Obj] /\ objC' \in [Objects -> Obj]
         /\ objQ' \in [Objects -> Seq(Obj)] /\ Objects' = Objects
         /\ obj'[x] = o /\ \A y \in Objects \ {x} : obj'[y] = obj[y]
  <1>1. /\ obj \in [Objects -> Obj] /\ objC \in [Objects -> Obj]
        /\ objQ \in [Objects -> Seq(Obj)]
    BY ObjectsFixed
  <1>2. Append(objQ[x], o) \in Seq(Obj)
    BY <1>1, AppendFacts
  <1>3. obj' \in [Objects -> Obj] /\ objQ' \in [Objects -> Seq(Obj)] /\ objC' = objC
        /\ obj'[x] = o /\ \A y \in Objects \ {x} : obj'[y] = obj[y]
    BY <1>1, <1>2 DEF Put
  <1>4. Objects' = Objects
    BY <1>1, <1>3 DEF Objects
  <1>5. QED
    BY <1>1, <1>3, <1>4

\* What the steps write.
LEMMA WrittenTypes ==
  ASSUME TypeOK, NEW x \in Objects
  PROVE  /\ obj[x] \in Obj
         /\ [ph |-> "up", dying |-> FALSE, by |-> cur] \in Obj
         /\ [obj[x] EXCEPT !.dying = TRUE] \in Obj
         /\ [obj[x] EXCEPT !.ph = "Failed"] \in Obj
  <1>1. obj[x] \in Obj /\ cur \in 0..MaxUid
    BY ObjectsFixed DEF TypeOK
  <1>2. QED
    BY <1>1 DEF Obj

-----------------------------------------------------------------------------
(* Type correctness *)

\* A reconcile that ends.
LEMMA ReturnType ==
  ASSUME TypeOK, Return, UNCHANGED <<labVars, objVars>>, queued' \in BOOLEAN
  PROVE  TypeOK'
  BY NodeAssumption DEF TypeOK, Return, labVars, objVars, Objects

\* The worker has ensured an object.
LEMMA DoneType ==
  ASSUME TypeOK, pc = "ensure", NEW x \in todo, Done(x)
  PROVE  /\ pc' \in {"idle", "node", "ensure", "recreate"} /\ cur' = cur /\ nodes' = nodes
         /\ pc' \in {"ensure", "recreate"} => todo' # {}
  BY DEF Done

\* A step of the worker that writes an object, if at all.
LEMMA WriteType ==
  ASSUME TypeOK, UNCHANGED <<labVars, queued>>,
         \/ UNCHANGED objVars
         \/ \E x \in Objects : \E o \in Obj : Put(x, o),
         \/ Return
         \/ /\ pc' \in {"idle", "node", "ensure", "recreate"} /\ cur' = cur /\ nodes' = nodes
            /\ pc # "idle"
            /\ pc' \in {"ensure", "recreate"} => todo' # {}
         \/ UNCHANGED workerVars
  PROVE  TypeOK'
  <1>1. /\ obj' \in [ObjectsOf(specOf) -> Obj] /\ objC' \in [Objects' -> Obj]
        /\ objQ' \in [Objects' -> Seq(Obj)]
    <2>1. CASE UNCHANGED objVars
      BY <2>1 DEF objVars, TypeOK, Objects
    <2>2. CASE \E x \in Objects : \E o \in Obj : Put(x, o)
      BY <2>2, PutType, ObjectsFixed
    <2>3. QED
      BY <2>1, <2>2
  <1>2. /\ pc' \in {"idle", "node", "ensure", "recreate"} /\ cur' \in 0..MaxUid
        /\ pc' # "idle" => cur' # 0 /\ nodes' \subseteq Nodes(cur')
        /\ pc' \in {"ensure", "recreate"} => todo' # {}
    <2>1. CASE Return
      BY <2>1, NodeAssumption DEF Return, TypeOK
    <2>2. CASE UNCHANGED workerVars
      BY <2>2 DEF TypeOK, workerVars
    <2>3. CASE /\ pc' \in {"idle", "node", "ensure", "recreate"} /\ cur' = cur /\ nodes' = nodes
               /\ pc # "idle"
               /\ pc' \in {"ensure", "recreate"} => todo' # {}
      BY <2>3 DEF TypeOK
    <2>4. QED
      BY <2>1, <2>2, <2>3
  <1>3. QED
    BY <1>1, <1>2 DEF TypeOK, labVars, Nodes

\* What writes an object, and how, by step.
LEMMA EnsureWrites ==
  ASSUME TypeOK, NEW x \in Objects, EnsureObj(x) \/ EnsureVmi(x)
  PROVE  /\ UNCHANGED <<labVars, queued, faults>>
         /\ UNCHANGED objVars \/ \E o \in Obj : Put(x, o)
         /\ Return \/ /\ pc' \in {"idle", "node", "ensure", "recreate"} /\ cur' = cur
                      /\ nodes' = nodes /\ pc # "idle"
                      /\ pc' \in {"ensure", "recreate"} => todo' # {}
  <1>1. x \in todo /\ pc = "ensure"
    BY DEF EnsureObj, EnsureVmi, InTurn
  <1>2. Done(x) => /\ pc' \in {"idle", "node", "ensure", "recreate"} /\ cur' = cur
                   /\ nodes' = nodes
                   /\ pc' \in {"ensure", "recreate"} => todo' # {}
    BY <1>1, DoneType
  <1>3. New(x) => \E o \in Obj : Put(x, o)
    BY WrittenTypes DEF New
  <1>4. CASE EnsureObj(x)
    BY <1>1, <1>2, <1>3, <1>4 DEF EnsureObj
  <1>5. CASE EnsureVmi(x)
    BY <1>1, <1>2, <1>3, <1>5, WrittenTypes DEF EnsureVmi
  <1>6. QED
    BY <1>4, <1>5

\* What the environment writes.
LEMMA EnvWrites ==
  ASSUME TypeOK, NEW x \in Objects, Collect(x) \/ WorkloadGone(x) \/ WorkloadEnds(x)
  PROVE  UNCHANGED <<labVars, queued, workerVars>> /\ \E o \in Obj : Put(x, o)
  <1>1. UNCHANGED <<labVars, queued, workerVars>>
    BY DEF Collect, WorkloadGone, WorkloadEnds
  <1>2. \E o \in Obj : Put(x, o)
    BY WrittenTypes, NoObjType DEF Collect, WorkloadGone, WorkloadEnds
  <1>3. QED
    BY <1>1, <1>2

\* Initially everything is of its type.
LEMMA TypeInit == Init => TypeOK
  <1> SUFFICES ASSUME Init PROVE TypeOK
    OBVIOUS
  <1>1. obj \in [ObjectsOf(specOf) -> Obj] /\ objC = obj /\ objQ \in [Objects -> Seq(Obj)]
    BY NoObjType DEF Init
  <1>2. objC \in [Objects -> Obj]
    BY <1>1 DEF Objects
  <1>3. QED
    <2>1. lab = 0 /\ labC = 0 /\ cur = 0 /\ made = 0 /\ labQ = <<>> /\ pc = "idle" /\ queued = FALSE
      BY DEF Init
    <2>2. {lab, labC, cur, made} \subseteq 0..MaxUid /\ labQ \in Seq(0..MaxUid)
      BY <2>1, NodeAssumption
    <2>3. QED
      BY <1>1, <1>2, <2>1, <2>2 DEF TypeOK

\* Every step keeps the types.
LEMMA TypeStep ==
  ASSUME TypeOK, [Next]_vars
  PROVE  TypeOK'
  <1>1. CASE Reconcile
    BY <1>1 DEF Reconcile, TypeOK, labVars, objVars, workerVars, Objects, Nodes
  <1>2. ASSUME NEW n \in nodes, EnsureNode(n) PROVE TypeOK'
    BY <1>2 DEF EnsureNode, Ensured, TypeOK, labVars, objVars, Objects, Nodes
  <1>3. CASE EndReconcile \/ Recreate \/ ApiError
    BY <1>3, ReturnType DEF EndReconcile, Recreate, ApiError, TypeOK
  <1>4. ASSUME NEW x \in Objects, BuildPanics(x) PROVE TypeOK'
    BY <1>4, ReturnType DEF BuildPanics
  <1>5. ASSUME NEW x \in Objects, EnsureObj(x) \/ EnsureVmi(x) PROVE TypeOK'
    BY <1>5, EnsureWrites, WriteType
  <1>6. ASSUME NEW x \in Objects, Collect(x) \/ WorkloadGone(x) \/ WorkloadEnds(x)
        PROVE  TypeOK'
    BY <1>6, EnvWrites, WriteType
  <1>7. CASE DeliverLab
    <2>1. Head(labQ) \in 0..MaxUid /\ Tail(labQ) \in Seq(0..MaxUid)
      BY <1>7, TailFacts DEF DeliverLab, TypeOK
    <2>2. QED
      BY <1>7, <2>1 DEF DeliverLab, TypeOK, objVars, workerVars, Objects, Nodes
  <1>8. ASSUME NEW x \in Objects, Deliver(x) PROVE TypeOK'
    <2>1. Head(objQ[x]) \in Obj /\ Tail(objQ[x]) \in Seq(Obj)
      BY <1>8, TailFacts, ObjectsFixed DEF Deliver
    <2>2. objC' \in [Objects -> Obj] /\ objQ' \in [Objects -> Seq(Obj)] /\ queued' \in BOOLEAN
      BY <1>8, <2>1, ObjectsFixed DEF Deliver
    <2>3. QED
      BY <1>8, <2>2 DEF Deliver, TypeOK, labVars, workerVars, Objects, Nodes
  <1>9. CASE Resync \/ UNCHANGED vars
    BY <1>9 DEF Resync, vars, TypeOK, labVars, objVars, workerVars, Objects, Nodes
  <1>10. CASE UserCreatesLab \/ UserDeletesLab
    <2>1. made + 1 \in 0..MaxUid \/ ~UserCreatesLab
      BY NodeAssumption DEF UserCreatesLab, TypeOK
    <2>2. /\ lab' \in 0..MaxUid /\ made' \in 0..MaxUid /\ labQ' \in Seq(0..MaxUid)
          /\ UNCHANGED <<specOf, labC>>
      <3>1. 0 \in 0..MaxUid /\ made \in 0..MaxUid /\ labQ \in Seq(0..MaxUid)
        BY NodeAssumption DEF TypeOK
      <3>2. CASE UserCreatesLab
        BY <3>1, <3>2, <2>1, AppendFacts DEF UserCreatesLab
      <3>3. CASE UserDeletesLab
        BY <3>1, <3>3, AppendFacts DEF UserDeletesLab
      <3>4. QED
        BY <1>10, <3>2, <3>3
    <2>3. QED
      BY <1>10, <2>2 DEF UserCreatesLab, UserDeletesLab, TypeOK, objVars, workerVars, Objects, Nodes
  <1>11. CASE Crash
    <2>1. objC' = obj /\ obj' = obj /\ objQ' \in [Objects -> Seq(Obj)]
          /\ labC' = lab /\ labQ' \in Seq(0..MaxUid) /\ UNCHANGED <<specOf, lab, made>>
      BY <1>11 DEF Crash
    <2>2. QED
      BY <1>11, <2>1, NodeAssumption, ObjectsFixed DEF Crash, Return, TypeOK, Objects
  <1>12. QED
    BY <1>1, <1>2, <1>3, <1>4, <1>5, <1>6, <1>7, <1>8, <1>9, <1>10, <1>11 DEF Next, Worker

\* Type correctness of the Lab's objects and of the worker, which always has
\* an object to ensure when it is at a node.
THEOREM TypeCorrect == Spec => []TypeOK
  <1>1. TypeOK /\ [Next]_vars => TypeOK'
    BY TypeStep
  <1>2. QED
    BY TypeInit, <1>1, PTL DEF Spec

-----------------------------------------------------------------------------
(* UIDs *)

\* What a step may do to the UIDs that the informer and the worker hold.
LEMMA LabSteps ==
  ASSUME TypeOK, [Next]_vars
  PROVE  \/ UNCHANGED labVars /\ cur' \in {cur, 0, labC}
         \/ DeliverLab /\ cur' = cur
         \/ (UserCreatesLab \/ UserDeletesLab) /\ cur' = cur
         \/ Crash
  <1>1. CASE Reconcile \/ EndReconcile \/ Recreate \/ ApiError \/ Resync \/ UNCHANGED vars
    BY <1>1 DEF Reconcile, EndReconcile, Recreate, ApiError, Resync, vars, Return, workerVars
  <1>2. ASSUME NEW n \in nodes, EnsureNode(n)
        PROVE  UNCHANGED labVars /\ cur' \in {cur, 0, labC}
    BY <1>2 DEF EnsureNode
  <1>3. ASSUME NEW x \in Objects, EnsureObj(x) \/ EnsureVmi(x)
        PROVE  UNCHANGED labVars /\ cur' \in {cur, 0, labC}
    BY <1>3, EnsureWrites DEF Return
  <1>4. ASSUME NEW x \in Objects, BuildPanics(x) \/ Deliver(x)
        PROVE  UNCHANGED labVars /\ cur' \in {cur, 0, labC}
    BY <1>4 DEF BuildPanics, Return, Deliver, workerVars
  <1>5. ASSUME NEW x \in Objects, Collect(x) \/ WorkloadGone(x) \/ WorkloadEnds(x)
        PROVE  UNCHANGED labVars /\ cur' \in {cur, 0, labC}
    BY <1>5, EnvWrites DEF workerVars
  <1>6. CASE DeliverLab \/ UserCreatesLab \/ UserDeletesLab
    BY <1>6 DEF DeliverLab, UserCreatesLab, UserDeletesLab, workerVars
  <1>7. QED
    BY <1>1, <1>2, <1>3, <1>4, <1>5, <1>6 DEF Next, Worker

\* The UIDs are numbers.
LEMMA UidTypes ==
  ASSUME TypeOK
  PROVE  /\ lab \in Nat /\ labC \in Nat /\ cur \in Nat /\ made \in Nat
         /\ labQ \in Seq(0..MaxUid) /\ Len(labQ) \in Nat
         /\ \A i \in 1..Len(labQ) : labQ[i] \in Nat
  <1>1. {lab, labC, cur, made} \subseteq 0..MaxUid /\ labQ \in Seq(0..MaxUid) /\ MaxUid \in Nat
    BY NodeAssumption DEF TypeOK
  <1>2. \A i \in 1..Len(labQ) : labQ[i] \in 0..MaxUid
    BY <1>1, ElementType
  <1>3. Len(labQ) \in Nat
    BY <1>1
  <1>4. QED
    BY <1>1, <1>2, <1>3

\* The oldest UID under way is delivered.
LEMMA LabDelivered ==
  ASSUME TypeOK, DeliverLab
  PROVE  /\ Len(labQ) \in Nat /\ Len(labQ) >= 1 /\ 1 \in 1..Len(labQ)
         /\ labC' = labQ[1] /\ Len(labQ') = Len(labQ) - 1
         /\ \A i \in 1..Len(labQ') : i + 1 \in 1..Len(labQ) /\ labQ'[i] = labQ[i + 1]
         /\ UNCHANGED <<specOf, lab, made, objVars, workerVars>>
  BY UidTypes, TailFacts DEF DeliverLab

\* The Lab is created or deleted.
LEMMA LabWritten ==
  ASSUME TypeOK, UserCreatesLab \/ UserDeletesLab
  PROVE  /\ Len(labQ) \in Nat /\ Len(labQ') = Len(labQ) + 1
         /\ \A i \in 1..Len(labQ) : labQ'[i] = labQ[i]
         /\ labQ'[Len(labQ) + 1] = lab'
         /\ (lab' = 0 /\ made' = made) \/ (lab' = made + 1 /\ made' = made + 1)
         /\ UNCHANGED <<specOf, labC, objVars, workerVars>>
  <1>1. labQ \in Seq(0..MaxUid) /\ 0 \in 0..MaxUid /\ (UserCreatesLab => made + 1 \in 0..MaxUid)
    BY UidTypes, NodeAssumption DEF UserCreatesLab, TypeOK
  <1>2. CASE UserCreatesLab
    BY <1>1, <1>2, AppendFacts DEF UserCreatesLab
  <1>3. CASE UserDeletesLab
    BY <1>1, <1>3, AppendFacts DEF UserDeletesLab
  <1>4. QED
    BY <1>2, <1>3

\* The informer's UIDs go up.
LEMMA UidStep ==
  ASSUME TypeOK, UidInv, [Next]_vars
  PROVE  UidInv'
  <1>1. /\ lab \in Nat /\ labC \in Nat /\ cur \in Nat /\ made \in Nat
        /\ labQ \in Seq(0..MaxUid) /\ Len(labQ) \in Nat
        /\ \A i \in 1..Len(labQ) : labQ[i] \in Nat
    BY UidTypes
  <1>2. CASE UNCHANGED labVars /\ cur' \in {cur, 0, labC}
    BY <1>1, <1>2 DEF UidInv, labVars
  <1>3. CASE DeliverLab /\ cur' = cur
    <2>1. \A i \in 1..Len(labQ') : i + 1 \in 1..Len(labQ) /\ labQ'[i] = labQ[i + 1] /\ 1 < i + 1
      BY <1>3, LabDelivered
    <2>2. /\ labC' <= made' /\ cur' <= made' /\ labC' # 0 => cur' <= labC'
      BY <1>3, LabDelivered DEF UidInv
    <2>3. \A i \in 1..Len(labQ') :
            /\ labQ'[i] <= made'
            /\ labQ'[i] # 0 => labC' <= labQ'[i] /\ cur' <= labQ'[i]
      BY <1>3, <2>1, LabDelivered DEF UidInv
    <2>4. \A i, j \in 1..Len(labQ') : i < j /\ labQ'[j] # 0 => labQ'[i] <= labQ'[j]
      <3> TAKE i, j \in 1..Len(labQ')
      <3>1. i + 1 \in 1..Len(labQ) /\ j + 1 \in 1..Len(labQ) /\ (i < j => i + 1 < j + 1)
        BY <2>1
      <3>2. QED
        BY <2>1, <3>1 DEF UidInv
    <2>5. QED
      BY <1>3, <2>2, <2>3, <2>4, LabDelivered DEF UidInv
  <1>4. CASE (UserCreatesLab \/ UserDeletesLab) /\ cur' = cur
    <2>1. /\ Len(labQ') = Len(labQ) + 1
          /\ \A i \in 1..Len(labQ) : labQ'[i] = labQ[i]
          /\ labQ'[Len(labQ) + 1] = lab'
          /\ (lab' = 0 /\ made' = made) \/ (lab' = made + 1 /\ made' = made + 1)
          /\ UNCHANGED <<specOf, labC>>
      BY <1>4, LabWritten
    <2>2. \A i \in 1..Len(labQ') : i \in 1..Len(labQ) \/ i = Len(labQ')
      BY <1>1, <2>1
    <2>3. lab' \in {0, made'} /\ labC' <= made' /\ cur' <= made' /\ specOf' \in Histories
      BY <1>1, <1>4, <2>1 DEF UidInv
    <2>4. \A i \in 1..Len(labQ) :
            /\ labQ'[i] <= made' /\ labQ'[i] \in Nat
            /\ labQ'[i] # 0 => labC' <= labQ'[i] /\ cur' <= labQ'[i]
      BY <1>1, <1>4, <2>1 DEF UidInv
    <2>5. /\ labQ'[Len(labQ')] = lab' /\ lab' <= made'
          /\ lab' # 0 => labC' <= lab' /\ cur' <= lab' /\ \A i \in 1..Len(labQ) : labQ'[i] <= lab'
      BY <1>1, <1>4, <2>1 DEF UidInv
    <2>6. \A i \in 1..Len(labQ') :
            /\ labQ'[i] <= made'
            /\ labQ'[i] # 0 => labC' <= labQ'[i] /\ cur' <= labQ'[i]
      BY <2>2, <2>4, <2>5
    <2>7. \A i, j \in 1..Len(labQ') : i < j /\ labQ'[j] # 0 => labQ'[i] <= labQ'[j]
      <3> TAKE i, j \in 1..Len(labQ')
      <3>1. CASE i \in 1..Len(labQ) /\ j \in 1..Len(labQ)
        BY <2>1, <3>1 DEF UidInv
      <3>2. CASE i \in 1..Len(labQ) /\ j = Len(labQ')
        BY <2>5, <3>2
      <3>3. CASE i = Len(labQ')
        BY <1>1, <2>1, <3>3
      <3>4. QED
        BY <2>2, <3>1, <3>2, <3>3
    <2>8. labC' # 0 => cur' <= labC'
      BY <1>4, <2>1 DEF UidInv
    <2>9. QED
      BY <2>3, <2>6, <2>7, <2>8 DEF UidInv
  <1>5. CASE Crash
    <2>1. /\ labC' = lab /\ labQ' = <<>> /\ Len(labQ') = 0 /\ cur' = 0
          /\ UNCHANGED <<specOf, lab, made>>
      BY <1>5 DEF Crash, Return
    <2>2. QED
      BY <1>1, <2>1 DEF UidInv
  <1>6. QED
    BY <1>2, <1>3, <1>4, <1>5, LabSteps

\* A UID that is known remains known.
LEMMA KnownStep ==
  ASSUME TypeOK, UidInv, [Next]_vars, NEW u \in Nat, Known(u)
  PROVE  Known(u)'
  <1>1. /\ lab \in Nat /\ labC \in Nat /\ cur \in Nat /\ made \in Nat
        /\ Len(labQ) \in Nat /\ \A i \in 1..Len(labQ) : labQ[i] \in Nat
    BY UidTypes
  <1>2. CASE UNCHANGED labVars /\ cur' \in {cur, 0, labC}
    BY <1>2 DEF Known, labVars
  <1>3. CASE DeliverLab /\ cur' = cur
    BY <1>3, LabDelivered DEF Known
  <1>4. CASE (UserCreatesLab \/ UserDeletesLab) /\ cur' = cur
    <2>1. /\ Len(labQ') = Len(labQ) + 1
          /\ \A i \in 1..Len(labQ) : labQ'[i] = labQ[i]
          /\ labQ'[Len(labQ) + 1] = lab'
          /\ (lab' = 0 /\ made' = made) \/ (lab' = made + 1 /\ made' = made + 1)
          /\ UNCHANGED <<specOf, labC>>
      BY <1>4, LabWritten
    <2>2. \A i \in 1..Len(labQ') : i \in 1..Len(labQ) \/ i = Len(labQ) + 1
      BY <1>1, <2>1
    <2>3. u <= made' /\ (lab' # 0 => u <= lab')
      BY <1>1, <2>1 DEF Known
    <2>4. \A i \in 1..Len(labQ') : labQ'[i] # 0 => u <= labQ'[i]
      BY <2>1, <2>2, <2>3 DEF Known
    <2>5. QED
      BY <1>4, <2>1, <2>3, <2>4 DEF Known
  <1>5. CASE Crash
    <2>1. /\ labC' = lab /\ labQ' = <<>> /\ Len(labQ') = 0 /\ cur' = 0
          /\ UNCHANGED <<specOf, lab, made>>
      BY <1>5 DEF Crash, Return
    <2>2. QED
      BY <1>1, <2>1 DEF UidInv, Known
  <1>6. QED
    BY <1>2, <1>3, <1>4, <1>5, LabSteps

\* A Lab that is no more does not come back.
LEMMA PastStep ==
  ASSUME TypeOK, UidInv, [Next]_vars, NEW u \in Nat, u >= 1, Past(u)
  PROVE  Past(u)'
  <1>1. lab \in Nat /\ made \in Nat
    BY UidTypes
  <1>2. CASE UserCreatesLab \/ UserDeletesLab
    BY <1>1, <1>2, LabWritten DEF Past
  <1>3. CASE UNCHANGED <<lab, made>>
    BY <1>3 DEF Past
  <1>4. QED
    BY <1>2, <1>3, LabSteps, LabDelivered DEF labVars, Crash

\* Nor do those before it.
LEMMA PastBefore ==
  ASSUME TypeOK, UidInv, NEW u \in Nat, Past(u), NEW v \in Nat, v >= 1, v <= u
  PROVE  Past(v)
  BY UidTypes DEF UidInv, Past

-----------------------------------------------------------------------------
(* Histories of objects *)

\* What is written to an object, and when.
Created(x, o) ==
  /\ pc = "ensure" /\ InTurn(x) /\ objC[x].ph = "gone" /\ obj[x].ph = "gone"
  /\ o = [ph |-> "up", dying |-> FALSE, by |-> cur]
Ended(x, o) ==
  /\ IsVmi(x) /\ obj[x].ph = "up" /\ ~obj[x].dying
  /\ o = [obj[x] EXCEPT !.ph = "Failed"]
Deleted(x, o) ==
  /\ IsWorkload(x) /\ obj[x].ph # "gone" /\ ~obj[x].dying
  /\ IsVmi(x) => obj[x].by # lab \/ (pc = "ensure" /\ objC[x].ph = "Failed" /\ objC[x].by = cur)
  /\ o = [obj[x] EXCEPT !.dying = TRUE]
Collected(x, o) == ~IsWorkload(x) /\ Owned(x) /\ obj[x].by # lab /\ o = NoObj
Finished(x, o)  == obj[x].dying /\ o = NoObj

Written(x, o) ==
  Created(x, o) \/ Ended(x, o) \/ Deleted(x, o) \/ Collected(x, o) \/ Finished(x, o)

\* A step writes one object in one of these ways, lets the cache see one
\* event, or is a restart.
LEMMA ObjSteps ==
  ASSUME TypeOK, [Next]_vars
  PROVE  \/ UNCHANGED objVars
         \/ \E x \in Objects : Deliver(x)
         \/ Crash
         \/ \E x \in Objects : \E o \in Obj : Put(x, o) /\ Written(x, o)
  <1>1. ASSUME NEW x \in Objects, EnsureObj(x) \/ EnsureVmi(x)
        PROVE  UNCHANGED objVars \/ \E o \in Obj : Put(x, o) /\ Written(x, o)
    <2>1. pc = "ensure"
      BY <1>1 DEF EnsureObj, EnsureVmi, InTurn
    <2>2. ASSUME New(x), InTurn(x), objC[x].ph = "gone", obj[x].ph = "gone"
          PROVE  \E o \in Obj : Put(x, o) /\ Written(x, o)
      BY <2>1, <2>2, WrittenTypes DEF New, Written, Created
    <2>3. CASE EnsureObj(x)
      BY <2>2, <2>3 DEF EnsureObj
    <2>4. CASE EnsureVmi(x)
      <3>1. CASE /\ objC[x].ph = "Failed" /\ IsOwnedbyLab(x) /\ obj[x].ph # "gone"
                 /\ ~obj[x].dying /\ Put(x, [obj[x] EXCEPT !.dying = TRUE])
        <4>1. Deleted(x, [obj[x] EXCEPT !.dying = TRUE])
          BY <2>1, <2>4, <3>1 DEF EnsureVmi, Deleted, IsWorkload, IsOwnedbyLab, IsVmi
        <4>2. QED
          BY <3>1, <4>1, WrittenTypes DEF Written
      <3>2. QED
        BY <2>2, <2>4, <3>1 DEF EnsureVmi
    <2>5. QED
      BY <1>1, <2>3, <2>4
  <1>2. ASSUME NEW x \in Objects, Collect(x) \/ WorkloadGone(x) \/ WorkloadEnds(x)
        PROVE  \E o \in Obj : Put(x, o) /\ Written(x, o)
    <2>1. CASE Collect(x) /\ IsWorkload(x)
      <3>1. Deleted(x, [obj[x] EXCEPT !.dying = TRUE]) /\ Put(x, [obj[x] EXCEPT !.dying = TRUE])
        BY <2>1 DEF Collect, Deleted
      <3>2. QED
        BY <3>1, WrittenTypes DEF Written
    <2>2. CASE Collect(x) /\ ~IsWorkload(x)
      BY <2>2, NoObjType DEF Collect, Collected, Written
    <2>3. CASE WorkloadGone(x)
      BY <2>3, NoObjType DEF WorkloadGone, Finished, Written
    <2>4. CASE WorkloadEnds(x) /\ IsVmi(x)
      <3>1. Ended(x, [obj[x] EXCEPT !.ph = "Failed"]) /\ Put(x, [obj[x] EXCEPT !.ph = "Failed"])
        BY <2>4 DEF WorkloadEnds, Ended, IsVmi
      <3>2. QED
        BY <3>1, WrittenTypes DEF Written
    <2>5. CASE WorkloadEnds(x) /\ ~IsVmi(x)
      <3>1. Deleted(x, [obj[x] EXCEPT !.dying = TRUE]) /\ Put(x, [obj[x] EXCEPT !.dying = TRUE])
        BY <2>5 DEF WorkloadEnds, Deleted, IsVmi
      <3>2. QED
        BY <3>1, WrittenTypes DEF Written
    <2>6. QED
      BY <1>2, <2>1, <2>2, <2>3, <2>4, <2>5
  <1>3. CASE Reconcile \/ EndReconcile \/ Recreate \/ ApiError \/ Resync \/ UNCHANGED vars
    BY <1>3 DEF Reconcile, EndReconcile, Recreate, ApiError, Resync, vars
  <1>4. CASE (\E n \in nodes : EnsureNode(n)) \/ (\E x \in Objects : BuildPanics(x))
    BY <1>4 DEF EnsureNode, BuildPanics
  <1>5. CASE DeliverLab \/ UserCreatesLab \/ UserDeletesLab
    BY <1>5 DEF DeliverLab, UserCreatesLab, UserDeletesLab
  <1>6. QED
    BY <1>1, <1>2, <1>3, <1>4, <1>5 DEF Next, Worker

\* The states of an object are objects.
LEMMA SeenTypes ==
  ASSUME TypeOK, NEW x \in Objects
  PROVE  /\ obj[x] \in Obj /\ obj[x].by \in Nat /\ Len(objQ[x]) \in Nat
         /\ \A i \in Span(x) : Seen(x, i) \in Obj /\ Seen(x, i).by \in Nat
         /\ Span(x) = 0..Len(objQ[x])
  <1>1. obj[x] \in Obj /\ objC[x] \in Obj /\ objQ[x] \in Seq(Obj)
    BY ObjectsFixed
  <1>2. Len(objQ[x]) \in Nat
    BY <1>1
  <1>3. ASSUME NEW i \in Span(x) PROVE Seen(x, i) \in Obj
    <2>1. CASE i = 0
      BY <1>1, <2>1 DEF Seen
    <2>2. CASE i # 0
      <3>1. i \in 1..Len(objQ[x])
        BY <1>2, <2>2 DEF Span
      <3>2. QED
        BY <1>1, <2>2, <3>1, ElementType DEF Seen
    <2>3. QED
      BY <2>1, <2>2
  <1>4. \A o \in Obj : o.by \in Nat
    BY NodeAssumption DEF Obj
  <1>5. QED
    BY <1>1, <1>2, <1>3, <1>4 DEF Span

\* A write adds a state at the end.
LEMMA PutSeen ==
  ASSUME TypeOK, NEW x \in Objects, NEW o \in Obj, Put(x, o)
  PROVE  /\ Len(objQ'[x]) = Len(objQ[x]) + 1 /\ obj'[x] = o
         /\ \A i \in Span(x) : Seen(x, i)' = Seen(x, i)
         /\ \A i \in {Len(objQ[x]) + 1} : Seen(x, i)' = o
         /\ \A i \in Span(x)' : i \in Span(x) \/ i = Len(objQ[x]) + 1
         /\ Span(x) \subseteq Span(x)'
  <1>1. objQ[x] \in Seq(Obj) /\ obj'[x] = o
    BY ObjectsFixed, PutType
  <1>2. objQ'[x] = Append(objQ[x], o) /\ objC' = objC
    BY ObjectsFixed DEF Put
  <1>3. /\ Len(objQ[x]) \in Nat /\ Len(objQ'[x]) = Len(objQ[x]) + 1
        /\ \A i \in 1..Len(objQ[x]) : objQ'[x][i] = objQ[x][i]
        /\ objQ'[x][Len(objQ[x]) + 1] = o
    BY <1>1, <1>2, AppendFacts
  <1>4. ASSUME NEW i \in Span(x) PROVE Seen(x, i)' = Seen(x, i)
    <2>1. i = 0 \/ i \in 1..Len(objQ[x])
      BY <1>3 DEF Span
    <2>2. QED
      BY <1>2, <1>3, <2>1 DEF Seen
  <1>5. \A i \in {Len(objQ[x]) + 1} : Seen(x, i)' = o
    BY <1>3 DEF Seen
  <1>6. \A i \in Span(x)' : i \in Span(x) \/ i = Len(objQ[x]) + 1
    BY <1>3 DEF Span
  <1>7. Span(x) \subseteq Span(x)'
    BY <1>3 DEF Span
  <1>8. QED
    BY <1>1, <1>3, <1>4, <1>5, <1>6, <1>7

\* An event that arrives takes the oldest state away.
LEMMA DeliverSeen ==
  ASSUME TypeOK, NEW x \in Objects, Deliver(x)
  PROVE  /\ Len(objQ[x]) >= 1 /\ Len(objQ'[x]) = Len(objQ[x]) - 1 /\ obj' = obj
         /\ \A i \in Span(x)' : i + 1 \in Span(x) /\ Seen(x, i)' = Seen(x, i + 1)
  <1>1. /\ objQ[x] \in Seq(Obj) /\ objQ[x] # <<>> /\ obj' = obj
        /\ objC'[x] = Head(objQ[x]) /\ objQ'[x] = Tail(objQ[x])
    BY ObjectsFixed DEF Deliver
  <1>2. /\ objC'[x] = objQ[x][1] /\ Len(objQ[x]) \in Nat /\ Len(objQ[x]) >= 1
        /\ Len(objQ'[x]) = Len(objQ[x]) - 1
        /\ \A i \in 1..Len(objQ[x]) - 1 : objQ'[x][i] = objQ[x][i + 1]
    BY <1>1, TailFacts
  <1>3. ASSUME NEW i \in Span(x)' PROVE i + 1 \in Span(x) /\ Seen(x, i)' = Seen(x, i + 1)
    <2>1. i \in Nat /\ i <= Len(objQ[x]) - 1
      BY <1>2 DEF Span
    <2>2. i + 1 \in Span(x) /\ i + 1 # 0
      BY <1>2, <2>1 DEF Span
    <2>3. Seen(x, i + 1) = objQ[x][i + 1]
      BY <2>2 DEF Seen
    <2>4. CASE i = 0
      <3>1. Seen(x, i)' = objC'[x] /\ i + 1 = 1
        BY <2>4 DEF Seen
      <3>2. QED
        BY <1>2, <2>2, <2>3, <3>1
    <2>5. CASE i # 0
      <3>1. i \in 1..Len(objQ[x]) - 1
        BY <1>2, <2>1, <2>5
      <3>2. QED
        <4>1. Seen(x, i)' = objQ'[x][i]
          BY <2>5 DEF Seen
        <4>2. QED
          BY <1>2, <2>2, <2>3, <3>1, <4>1
    <2>6. QED
      BY <2>2, <2>4, <2>5
  <1>4. QED
    BY <1>1, <1>2, <1>3

\* A restart leaves the state that is stored.
LEMMA CrashSeen ==
  ASSUME TypeOK, NEW x \in Objects, Crash
  PROVE  /\ Len(objQ'[x]) = 0 /\ obj' = obj /\ Span(x)' = {0} /\ Seen(x, 0)' = obj[x]
         /\ Objects' = Objects
  <1>1. objQ'[x] = <<>> /\ objC' = obj /\ obj' = obj /\ Len(objQ'[x]) = 0
    BY ObjectsFixed DEF Crash
  <1>2. QED
    BY <1>1 DEF Span, Seen, Objects

\* Any other step leaves the states of an object alone.
LEMMA SameSeen ==
  ASSUME TypeOK, NEW x \in Objects,
         \/ UNCHANGED objVars
         \/ \E y \in Objects \ {x} : Deliver(y) \/ \E o \in Obj : Put(y, o)
  PROVE  obj'[x] = obj[x] /\ objC'[x] = objC[x] /\ objQ'[x] = objQ[x]
  BY ObjectsFixed DEF objVars, Deliver, Put

\* Every object has a history, of known Labs.
LEMMA HistoryStep ==
  ASSUME NodeInv, [Next]_vars, NEW x \in Objects
  PROVE  History(x)'
  <1>1. TypeOK /\ UidInv /\ History(x)
    BY DEF NodeInv
  <1> DEFINE K(u) == /\ u <= made'
                     /\ cur' # 0 => u <= cur'
                     /\ labC' # 0 => u <= labC'
                     /\ \A i \in 1..Len(labQ') : labQ'[i] # 0 => u <= labQ'[i]
             L == Len(objQ[x])
  <1>2. \A u \in Nat : Known(u) => K(u)
    BY <1>1, KnownStep DEF Known
  <1> HIDE DEF K
  <1>3. SUFFICES /\ Seen(x, Len(objQ[x]))' = obj'[x]
                 /\ \A i \in Span(x)' : There(x, i)' => Seen(x, i)'.by >= 1 /\ K(Seen(x, i)'.by)
    BY DEF History, Known, K
  <1>4. /\ obj[x] \in Obj /\ L \in Nat /\ L \in Span(x) /\ Span(x) = 0..L
        /\ \A i \in Span(x) : Seen(x, i) \in Obj /\ Seen(x, i).by \in Nat
    BY <1>1, SeenTypes
  <1>5. /\ Seen(x, L) = obj[x]
        /\ \A i \in Span(x) : There(x, i) => Seen(x, i).by >= 1 /\ K(Seen(x, i).by)
    BY <1>1, <1>2, <1>4 DEF History
  <1>6. CASE \/ UNCHANGED objVars
             \/ \E y \in Objects \ {x} : Deliver(y) \/ \E o \in Obj : Put(y, o)
    <2>1. obj'[x] = obj[x] /\ objC'[x] = objC[x] /\ objQ'[x] = objQ[x]
      BY <1>1, <1>6, SameSeen
    <2>2. Span(x)' = Span(x) /\ (\A i \in Span(x) : Seen(x, i)' = Seen(x, i))
          /\ Seen(x, Len(objQ[x]))' = Seen(x, L)
      BY <2>1 DEF Span, Seen
    <2>3. QED
      BY <1>5, <2>1, <2>2 DEF There
  <1>7. CASE Deliver(x)
    <2>1. /\ L >= 1 /\ Len(objQ'[x]) = L - 1 /\ obj' = obj
          /\ \A i \in Span(x)' : i + 1 \in Span(x) /\ Seen(x, i)' = Seen(x, i + 1)
      BY <1>1, <1>7, DeliverSeen
    <2>2. \A i \in {L - 1} : i \in Span(x)' /\ Seen(x, i)' = obj[x]
      <3>1. L - 1 \in Span(x)' /\ (L - 1) + 1 = L
        BY <1>4, <2>1 DEF Span
      <3>2. QED
        BY <1>5, <2>1, <3>1
    <2>3. Seen(x, Len(objQ[x]))' = obj'[x]
      BY <2>1, <2>2 DEF Seen
    <2>4. QED
      BY <1>5, <2>1, <2>3 DEF There
  <1>8. CASE Crash
    <2>1. /\ Len(objQ'[x]) = 0 /\ obj' = obj /\ Span(x)' = {0} /\ Seen(x, 0)' = obj[x]
      BY <1>1, <1>8, CrashSeen
    <2>2. Seen(x, Len(objQ[x]))' = obj'[x]
      BY <2>1 DEF Seen
    <2>3. QED
      BY <1>4, <1>5, <2>1, <2>2 DEF There
  <1>9. ASSUME NEW o \in Obj, Put(x, o), Written(x, o)
        PROVE  /\ Seen(x, Len(objQ[x]))' = obj'[x]
               /\ \A i \in Span(x)' : There(x, i)' => Seen(x, i)'.by >= 1 /\ K(Seen(x, i)'.by)
    <2>1. /\ Len(objQ'[x]) = L + 1 /\ obj'[x] = o
          /\ \A i \in Span(x) : Seen(x, i)' = Seen(x, i)
          /\ \A i \in {L + 1} : Seen(x, i)' = o
          /\ \A i \in Span(x)' : i \in Span(x) \/ i = L + 1
      BY <1>1, <1>9, PutSeen
    <2>2. Seen(x, Len(objQ[x]))' = obj'[x]
      BY <2>1 DEF Seen
    <2>3. o.ph # "gone" => o.by >= 1 /\ K(o.by)
      <3>1. CASE Created(x, o)
        <4>1. cur \in Nat /\ cur >= 1 /\ o.by = cur
          BY <1>1, <3>1, UidTypes DEF Created, TypeOK
        <4>2. Known(cur)
          BY <1>1, UidTypes DEF UidInv, Known
        <4>3. QED
          BY <1>2, <4>1, <4>2
      <3>2. CASE Ended(x, o) \/ Deleted(x, o)
        <4>1. o.by = obj[x].by /\ There(x, L)
          BY <1>4, <1>5, <3>2 DEF Ended, Deleted, There, Obj
        <4>2. QED
          BY <1>4, <1>5, <4>1
      <3>3. CASE Collected(x, o) \/ Finished(x, o)
        BY <3>3, NoObjType DEF Collected, Finished
      <3>4. QED
        BY <1>9, <3>1, <3>2, <3>3 DEF Written
    <2>4. QED
      BY <1>5, <2>1, <2>2, <2>3 DEF There
  <1>10. QED
    BY <1>1, <1>6, <1>7, <1>8, <1>9, ObjSteps

\* Initially there are no objects and no Lab.
LEMMA NodeInit == Init => NodeInv
  <1> SUFFICES ASSUME Init PROVE NodeInv
    OBVIOUS
  <1>1. TypeOK
    BY TypeInit
  <1>2. UidInv
    <2>1. lab = 0 /\ labC = 0 /\ cur = 0 /\ made = 0 /\ labQ = <<>> /\ Len(labQ) = 0
          /\ specOf \in Histories
      BY DEF Init
    <2>2. QED
      BY <2>1 DEF UidInv
  <1>3. ASSUME NEW x \in Objects PROVE History(x)
    <2>1. obj[x] = NoObj /\ objC[x] = NoObj /\ objQ[x] = <<>> /\ Len(objQ[x]) = 0
      BY <1>3 DEF Init, Objects
    <2>2. Span(x) = {0} /\ Seen(x, 0) = NoObj
      BY <2>1 DEF Span, Seen
    <2>3. QED
      BY <2>1, <2>2, NoObjType DEF History, There, Seen
  <1>4. QED
    BY <1>1, <1>2, <1>3 DEF NodeInv

\* The names of the objects do not change.
LEMMA SameObjects ==
  ASSUME NodeInv, [Next]_vars
  PROVE  Objects' = Objects /\ specOf' = specOf
  <1>1. TypeOK /\ TypeOK'
    BY TypeStep DEF NodeInv
  <1>2. specOf' = specOf
    BY <1>1, LabSteps, LabDelivered, LabWritten DEF labVars, Crash
  <1>3. Objects = ObjectsOf(specOf)
    BY <1>1, ObjectsFixed
  <1>4. Objects' = ObjectsOf(specOf')
    BY <1>1 DEF TypeOK, Objects
  <1>5. QED
    BY <1>2, <1>3, <1>4

\* Every step keeps all this.
LEMMA NodeStep ==
  ASSUME NodeInv, [Next]_vars
  PROVE  NodeInv'
  <1>1. TypeOK' /\ UidInv'
    BY TypeStep, UidStep DEF NodeInv
  <1>2. \A x \in Objects : History(x)'
    BY HistoryStep
  <1>3. QED
    BY <1>1, <1>2, SameObjects DEF NodeInv

-----------------------------------------------------------------------------
(* The lives of the VMIs *)

\* Steps that write nothing to x drop the oldest d of its states, if any.
Drops(x, d) ==
  /\ obj'[x] = obj[x] /\ d <= Len(objQ[x]) /\ Len(objQ'[x]) = Len(objQ[x]) - d
  /\ \A i \in Span(x)' : i + d \in Span(x) /\ Seen(x, i)' = Seen(x, i + d)

\* A step drops states of x or writes x.
LEMMA DropOrWrite ==
  ASSUME NodeInv, [Next]_vars, NEW x \in Objects
  PROVE  \/ \E d \in Nat : Drops(x, d)
         \/ \E o \in Obj : Put(x, o) /\ Written(x, o)
  <1> DEFINE L == Len(objQ[x])
  <1>1. TypeOK /\ L \in Nat /\ Span(x) = 0..L /\ Seen(x, L) = obj[x]
    BY SeenTypes DEF NodeInv, History
  <1>2. CASE \/ UNCHANGED objVars
             \/ \E y \in Objects \ {x} : Deliver(y) \/ \E o \in Obj : Put(y, o)
    <2>1. obj'[x] = obj[x] /\ objC'[x] = objC[x] /\ objQ'[x] = objQ[x]
      BY <1>1, <1>2, SameSeen
    <2>2. Span(x)' = Span(x) /\ (\A i \in Span(x) : Seen(x, i)' = Seen(x, i))
      BY <2>1 DEF Span, Seen
    <2>3. \A i \in Span(x) : i + 0 = i
      BY <1>1
    <2>4. Drops(x, 0)
      BY <1>1, <2>1, <2>2, <2>3 DEF Drops
    <2>5. QED
      BY <2>4
  <1>3. CASE Deliver(x)
    <2>1. Drops(x, 1)
      BY <1>1, <1>3, DeliverSeen DEF Drops
    <2>2. QED
      BY <2>1
  <1>4. CASE Crash
    <2>1. Drops(x, L)
      BY <1>1, <1>4, CrashSeen DEF Drops
    <2>2. QED
      BY <1>1, <2>1
  <1>5. QED
    BY <1>1, <1>2, <1>3, <1>4, ObjSteps

\* Dropping states keeps the history of a VMI, if Labs of the past remain so.
LEMMA DropKeeps ==
  ASSUME NodeInv, [Next]_vars, NEW x \in Objects, VmiHistory(x), NEW d \in Nat, Drops(x, d)
  PROVE  VmiHistory(x)'
  <1> DEFINE L == Len(objQ[x])
             P(u) == u # lab' /\ u <= made'
  <1>1. /\ TypeOK /\ UidInv /\ L \in Nat /\ Span(x) = 0..L /\ Seen(x, L) = obj[x]
        /\ \A i \in Span(x) : Seen(x, i).by \in Nat
        /\ \A i \in Span(x) : There(x, i) => Seen(x, i).by >= 1
    BY SeenTypes DEF NodeInv, History
  <1>2. \A u \in Nat : u >= 1 /\ Past(u) => P(u)
    BY <1>1, PastStep DEF Past
  <1>3. /\ obj'[x] = obj[x] /\ d <= L /\ Span(x)' = 0..(L - d)
        /\ \A i \in Span(x)' : i \in Nat /\ i + d \in Span(x) /\ Seen(x, i)' = Seen(x, i + d)
    BY <1>1 DEF Drops, Span
  <1> HIDE DEF P
  <1>4. Ascending(x)'
    <2>1. \A i, j \in Span(x)' :
            i < j /\ There(x, i)' /\ There(x, j)' => Seen(x, i)'.by <= Seen(x, j)'.by
      <3> TAKE i, j \in Span(x)'
      <3>1. i < j => i + d < j + d
        BY <1>3
      <3>2. QED
        BY <1>3, <3>1 DEF VmiHistory, Ascending, There
    <2>2. QED
      BY <2>1 DEF Ascending
  <1>5. FailedGoes(x)'
    <2>1. ASSUME NEW i \in Span(x)', NEW j \in Span(x)', i < j,
                 Seen(x, i)'.ph = "Failed", Seen(x, j)'.ph = "up"
          PROVE  \E k \in Span(x)' : i < k /\ k < j /\ ~There(x, k)'
      <3>1. i + d < j + d /\ i + d \in Span(x) /\ j + d \in Span(x)
        BY <1>3, <2>1
      <3>2. PICK k \in Span(x) : i + d < k /\ k < j + d /\ ~There(x, k)
        BY <1>3, <2>1, <3>1 DEF VmiHistory, FailedGoes
      <3>3. k - d \in Span(x)' /\ i < k - d /\ k - d < j /\ (k - d) + d = k
        BY <1>1, <1>3, <3>1, <3>2
      <3>4. \A m \in {k - d} : ~There(x, m)'
        BY <1>3, <3>2, <3>3 DEF There
      <3>5. QED
        BY <3>3, <3>4
    <2>2. QED
      BY <2>1 DEF FailedGoes
  <1>6. AgainIsPast(x)'
    <2>1. ASSUME NEW i \in Span(x)', NEW k \in Span(x)', NEW j \in Span(x)', i < k, k < j,
                 There(x, i)', ~There(x, k)', There(x, j)', Seen(x, i)'.by = Seen(x, j)'.by
          PROVE  P(Seen(x, i)'.by)
      <3>1. i + d < k + d /\ k + d < j + d
        BY <1>3, <2>1
      <3>2. Past(Seen(x, i + d).by) /\ There(x, i + d)
        BY <1>3, <2>1, <3>1 DEF VmiHistory, AgainIsPast, There
      <3>3. QED
        BY <1>1, <1>2, <1>3, <3>2
    <2>2. QED
      BY <2>1 DEF AgainIsPast, Past, P
  <1>7. UnseenIsPast(x)'
    <2>1. ASSUME NEW k \in Span(x)', NEW i \in Span(x)', NEW j \in Span(x)', k < i, i < j,
                 ~There(x, k)', There(x, i)', ~There(x, j)'
          PROVE  P(Seen(x, i)'.by)
      <3>1. k + d < i + d /\ i + d < j + d
        BY <1>3, <2>1
      <3>2. Past(Seen(x, i + d).by) /\ There(x, i + d)
        BY <1>3, <2>1, <3>1 DEF VmiHistory, UnseenIsPast, There
      <3>3. QED
        BY <1>1, <1>2, <1>3, <3>2
    <2>2. QED
      BY <2>1 DEF UnseenIsPast, Past, P
  <1>8. DyingIsPast(x)'
    <2>1. ASSUME obj[x].dying PROVE obj[x].ph # "gone"
      BY <2>1 DEF VmiHistory, DyingIsPast
    <2>2. ASSUME obj[x].dying, NEW k \in Span(x)', ~There(x, k)' PROVE P(obj[x].by)
      <3>1. k + d \in Span(x) /\ ~There(x, k + d)
        BY <1>3, <2>2 DEF There
      <3>2. Past(obj[x].by) /\ There(x, L) /\ L \in Span(x)
        BY <1>1, <2>1, <2>2, <3>1 DEF VmiHistory, DyingIsPast, There
      <3>3. QED
        BY <1>1, <1>2, <3>2
    <2>3. QED
      BY <1>3, <2>1, <2>2 DEF DyingIsPast, Past, P
  <1>9. QED
    BY <1>4, <1>5, <1>6, <1>7, <1>8 DEF VmiHistory

\* What is written to a VMI: it is created, or stays that Lab's, or is gone.
LEMMA VmiWritten ==
  ASSUME NodeInv, NEW x \in Objects, IsVmi(x), VmiHistory(x), NEW o \in Obj, Written(x, o)
  PROVE  \/ /\ o.ph = "up" /\ ~o.dying /\ o.by = cur /\ cur >= 1 /\ Known(cur)
            /\ ~There(x, 0) /\ obj[x].ph = "gone"
         \/ /\ o.ph # "gone" /\ obj[x].ph # "gone" /\ o.by = obj[x].by
            /\ o.ph = "up" => obj[x].ph = "up"
            /\ o.dying /\ (\E k \in Span(x) : ~There(x, k)) => Past(obj[x].by)
         \/ o = NoObj /\ obj[x].dying
  <1> DEFINE L == Len(objQ[x])
  <1>1. /\ TypeOK /\ UidInv /\ L \in Nat /\ Span(x) = 0..L /\ Seen(x, L) = obj[x]
        /\ obj[x] \in Obj /\ Seen(x, 0) = objC[x] /\ L \in Span(x) /\ 0 \in Span(x)
        /\ \A i \in Span(x) : Seen(x, i).by \in Nat
        /\ \A i \in Span(x) : There(x, i) => Seen(x, i).by >= 1 /\ Known(Seen(x, i).by)
    BY SeenTypes DEF NodeInv, History, Seen
  <1>2. CASE Created(x, o)
    <2>1. cur >= 1 /\ Known(cur)
      BY <1>1, <1>2, UidTypes DEF Created, TypeOK, UidInv, Known
    <2>2. QED
      BY <1>1, <1>2, <2>1 DEF Created, There
  <1>3. CASE Ended(x, o)
    BY <1>1, <1>3 DEF Ended, Obj
  <1>4. CASE Deleted(x, o)
    <2>1. /\ o.ph = obj[x].ph /\ o.by = obj[x].by /\ o.dying /\ obj[x].ph # "gone"
          /\ obj[x].by # lab \/ (pc = "ensure" /\ objC[x].ph = "Failed" /\ objC[x].by = cur)
      BY <1>1, <1>4 DEF Deleted, Obj
    <2>2. There(x, L) /\ obj[x].by \in Nat /\ Known(obj[x].by) /\ obj[x].by <= made
      BY <1>1, <2>1 DEF There, Known
    <2>3. ASSUME NEW k \in Span(x), ~There(x, k) PROVE Past(obj[x].by)
      <3>1. CASE obj[x].by # lab
        BY <2>2, <3>1 DEF Past
      <3>2. CASE pc = "ensure" /\ objC[x].ph = "Failed" /\ objC[x].by = cur
        <4>1. There(x, 0) /\ cur \in Nat /\ cur # 0
          BY <1>1, <3>2, UidTypes DEF There, TypeOK
        <4>2. 0 < k /\ k < L
          BY <1>1, <2>2, <2>3, <4>1
        <4>3. Seen(x, 0).by <= Seen(x, L).by
          BY <1>1, <2>2, <4>1, <4>2 DEF VmiHistory, Ascending
        <4>4. Seen(x, L).by <= cur
          BY <1>1, <2>2, <4>1 DEF Known
        <4>5. Seen(x, 0).by = Seen(x, L).by
          BY <1>1, <2>2, <3>2, <4>1, <4>3, <4>4
        <4>6. Past(Seen(x, 0).by)
          BY <1>1, <2>2, <2>3, <4>1, <4>2, <4>5 DEF VmiHistory, AgainIsPast
        <4>7. QED
          BY <1>1, <4>5, <4>6
      <3>3. QED
        BY <2>1, <3>1, <3>2
    <2>4. QED
      BY <2>1, <2>3
  <1>5. CASE Collected(x, o) \/ Finished(x, o)
    BY <1>5 DEF Collected, Finished, IsWorkload, IsVmi
  <1>6. QED
    BY <1>2, <1>3, <1>4, <1>5 DEF Written

\* A write keeps the history of a VMI.
LEMMA WriteKeeps ==
  ASSUME NodeInv, [Next]_vars, NEW x \in Objects, IsVmi(x), VmiHistory(x),
         NEW o \in Obj, Put(x, o), Written(x, o)
  PROVE  VmiHistory(x)'
  <1> DEFINE L == Len(objQ[x])
             P(u) == u # lab' /\ u <= made'
             new  == /\ o.ph = "up" /\ ~o.dying /\ o.by = cur /\ cur >= 1 /\ Known(cur)
                     /\ ~There(x, 0) /\ obj[x].ph = "gone"
             same == /\ o.ph # "gone" /\ obj[x].ph # "gone" /\ o.by = obj[x].by
                     /\ o.ph = "up" => obj[x].ph = "up"
                     /\ o.dying /\ (\E k \in Span(x) : ~There(x, k)) => Past(obj[x].by)
             gone == o = NoObj /\ obj[x].dying
  <1>1. /\ TypeOK /\ UidInv /\ L \in Nat /\ Span(x) = 0..L /\ Seen(x, L) = obj[x]
        /\ obj[x] \in Obj /\ obj[x].by \in Nat /\ L \in Span(x) /\ 0 \in Span(x)
        /\ \A i \in Span(x) : Seen(x, i).by \in Nat
        /\ \A i \in Span(x) : There(x, i) => Seen(x, i).by >= 1 /\ Known(Seen(x, i).by)
        /\ There(x, L) <=> obj[x].ph # "gone"
    BY SeenTypes DEF NodeInv, History, There
  <1>2. \A u \in Nat : u >= 1 /\ Past(u) => P(u)
    BY <1>1, PastStep DEF Past
  <1>3. new \/ same \/ gone
    BY VmiWritten
  <1>4. PICK N \in Nat : N = L + 1
    BY <1>1
  <1>5. /\ obj'[x] = o /\ Span(x) \subseteq Span(x)'
        /\ \A i \in Span(x) : /\ Seen(x, i)' = Seen(x, i) /\ (There(x, i)' <=> There(x, i))
                              /\ i \in Nat /\ i < N /\ i <= L
        /\ Seen(x, N)' = o /\ (There(x, N)' <=> o.ph # "gone")
        /\ \A i \in Span(x)' : i \in Span(x) \/ i = N
    <2>1. /\ obj'[x] = o /\ Span(x) \subseteq Span(x)'
          /\ \A i \in Span(x) : Seen(x, i)' = Seen(x, i)
          /\ \A i \in {L + 1} : Seen(x, i)' = o
          /\ \A i \in Span(x)' : i \in Span(x) \/ i = N
      BY <1>1, <1>4, PutSeen
    <2>2. \A i \in Span(x) : i \in Nat /\ i < N /\ i <= L
      BY <1>1, <1>4
    <2>3. Seen(x, N)' = o
      BY <1>4, <2>1
    <2>4. QED
      BY <2>1, <2>2, <2>3 DEF There
  <1>6. gone => o.ph = "gone" /\ ~o.dying
    BY NoObjType
  <1> HIDE DEF P
  <1>7. Ascending(x)'
    <2>1. ASSUME NEW i \in Span(x), There(x, i), o.ph # "gone" PROVE Seen(x, i).by <= o.by
      <3>1. CASE new
        BY <1>1, <2>1, <3>1 DEF Known
      <3>2. CASE same
        <4>1. i = L \/ i < L
          BY <1>1, <1>5
        <4>2. QED
          BY <1>1, <2>1, <3>2, <4>1 DEF VmiHistory, Ascending
      <3>3. QED
        BY <1>3, <1>6, <2>1, <3>1, <3>2
    <2>2. ASSUME NEW i \in Span(x)', NEW j \in Span(x)', i < j, There(x, i)', There(x, j)'
          PROVE  Seen(x, i)'.by <= Seen(x, j)'.by
      <3>1. i \in Span(x)
        BY <1>5, <2>2
      <3>2. CASE j \in Span(x)
        BY <1>5, <2>2, <3>1, <3>2 DEF VmiHistory, Ascending
      <3>3. CASE j = N
        BY <1>5, <2>1, <2>2, <3>1, <3>3
      <3>4. QED
        BY <1>5, <3>2, <3>3
    <2>3. QED
      BY <2>2 DEF Ascending
  <1>8. FailedGoes(x)'
    <2>1. ASSUME NEW i \in Span(x), NEW j \in Span(x), i < j,
                 Seen(x, i).ph = "Failed", Seen(x, j).ph = "up"
          PROVE  \E k \in Span(x)' : i < k /\ k < j /\ ~There(x, k)'
      BY <1>5, <2>1 DEF VmiHistory, FailedGoes
    <2>2. ASSUME NEW i \in Span(x), Seen(x, i).ph = "Failed", o.ph = "up"
          PROVE  \E k \in Span(x)' : i < k /\ k < N /\ ~There(x, k)'
      <3>1. CASE new
        <4>1. i < L
          BY <1>1, <1>5, <2>2, <3>1
        <4>2. QED
          BY <1>1, <1>5, <3>1, <4>1
      <3>2. CASE same
        <4>1. i < L /\ Seen(x, L).ph = "up"
          BY <1>1, <1>5, <2>2, <3>2
        <4>2. PICK k \in Span(x) : i < k /\ k < L /\ ~There(x, k)
          BY <1>1, <2>2, <4>1 DEF VmiHistory, FailedGoes
        <4>3. QED
          BY <1>5, <4>2
      <3>3. QED
        BY <1>3, <1>6, <2>2, <3>1, <3>2
    <2>3. ASSUME NEW i \in Span(x)', NEW j \in Span(x)', i < j,
                 Seen(x, i)'.ph = "Failed", Seen(x, j)'.ph = "up"
          PROVE  \E k \in Span(x)' : i < k /\ k < j /\ ~There(x, k)'
      <3>1. i \in Span(x)
        BY <1>5, <2>3
      <3>2. QED
        BY <1>5, <2>1, <2>2, <2>3, <3>1
    <2>4. QED
      BY <2>3 DEF FailedGoes
  <1>9. AgainIsPast(x)'
    <2>1. ASSUME NEW i \in Span(x), NEW k \in Span(x), i < k, There(x, i), ~There(x, k),
                 o.ph # "gone", Seen(x, i).by = o.by
          PROVE  Past(Seen(x, i).by)
      <3>1. CASE new
        <4>1. 0 < i
          BY <1>1, <1>5, <2>1, <3>1
        <4>2. QED
          BY <1>1, <2>1, <3>1, <4>1 DEF VmiHistory, UnseenIsPast
      <3>2. CASE same
        <4>1. k < L
          BY <1>1, <1>5, <2>1, <3>2
        <4>2. QED
          BY <1>1, <2>1, <3>2, <4>1 DEF VmiHistory, AgainIsPast
      <3>3. QED
        BY <1>3, <1>6, <2>1, <3>1, <3>2
    <2>2. ASSUME NEW i \in Span(x)', NEW k \in Span(x)', NEW j \in Span(x)', i < k, k < j,
                 There(x, i)', ~There(x, k)', There(x, j)', Seen(x, i)'.by = Seen(x, j)'.by
          PROVE  P(Seen(x, i)'.by)
      <3>1. i \in Span(x) /\ k \in Span(x) /\ There(x, i) /\ ~There(x, k)
        BY <1>5, <2>2
      <3>2. CASE j \in Span(x)
        BY <1>5, <2>2, <3>1, <3>2, <1>1, <1>2 DEF VmiHistory, AgainIsPast
      <3>3. CASE j = N
        BY <1>5, <2>1, <2>2, <3>1, <3>3, <1>1, <1>2
      <3>4. QED
        BY <1>5, <3>2, <3>3
    <2>3. QED
      BY <2>2 DEF AgainIsPast, Past, P
  <1>10. UnseenIsPast(x)'
    <2>1. ASSUME NEW k \in Span(x), NEW i \in Span(x), k < i, ~There(x, k), There(x, i),
                 o.ph = "gone"
          PROVE  Past(Seen(x, i).by)
      <3>1. gone /\ obj[x].ph # "gone" /\ Past(obj[x].by)
        <4>1. gone
          BY <1>3, <2>1
        <4>2. QED
          BY <2>1, <4>1 DEF VmiHistory, DyingIsPast
      <3>2. Seen(x, i).by <= obj[x].by
        <4>1. i = L \/ i < L
          BY <1>1, <1>5
        <4>2. QED
          BY <1>1, <2>1, <3>1, <4>1 DEF VmiHistory, Ascending
      <3>3. QED
        BY <1>1, <2>1, <3>1, <3>2, PastBefore
    <2>2. ASSUME NEW k \in Span(x)', NEW i \in Span(x)', NEW j \in Span(x)', k < i, i < j,
                 ~There(x, k)', There(x, i)', ~There(x, j)'
          PROVE  P(Seen(x, i)'.by)
      <3>1. i \in Span(x) /\ k \in Span(x) /\ There(x, i) /\ ~There(x, k)
        BY <1>5, <2>2
      <3>2. CASE j \in Span(x)
        BY <1>5, <2>2, <3>1, <3>2, <1>1, <1>2 DEF VmiHistory, UnseenIsPast
      <3>3. CASE j = N
        BY <1>5, <2>1, <2>2, <3>1, <3>3, <1>1, <1>2
      <3>4. QED
        BY <1>5, <3>2, <3>3
    <2>3. QED
      BY <2>2 DEF UnseenIsPast, Past, P
  <1>11. DyingIsPast(x)'
    <2>1. ASSUME o.dying PROVE same
      BY <1>3, <1>6, <2>1
    <2>2. ASSUME o.dying, NEW k \in Span(x)', ~There(x, k)' PROVE P(o.by)
      <3>1. k \in Span(x) /\ ~There(x, k)
        BY <1>5, <2>1, <2>2
      <3>2. Past(obj[x].by) /\ obj[x].by >= 1
        BY <1>1, <2>1, <2>2, <3>1
      <3>3. QED
        BY <1>1, <1>2, <2>1, <2>2, <3>2
    <2>3. QED
      BY <1>5, <2>1, <2>2 DEF DyingIsPast, Past, P
  <1>12. QED
    BY <1>7, <1>8, <1>9, <1>10, <1>11 DEF VmiHistory

\* Initially there are no VMIs.
LEMMA LifeInit == Init => LifeInv
  <1> SUFFICES ASSUME Init, NEW x \in Objects PROVE VmiHistory(x)
    BY DEF LifeInv
  <1>1. obj[x] = NoObj /\ objC[x] = NoObj /\ objQ[x] = <<>> /\ Len(objQ[x]) = 0
    BY DEF Init, Objects
  <1>2. Span(x) = {0} /\ ~obj[x].dying
    BY <1>1, NoObjType DEF Span
  <1>3. QED
    BY <1>2 DEF VmiHistory, Ascending, FailedGoes, AgainIsPast, UnseenIsPast, DyingIsPast

\* Every step keeps the histories of the VMIs.
LEMMA LifeStep ==
  ASSUME NodeInv, LifeInv, [Next]_vars
  PROVE  LifeInv'
  <1>1. ASSUME NEW x \in Objects, IsVmi(x) PROVE VmiHistory(x)'
    <2>1. VmiHistory(x)
      BY <1>1 DEF LifeInv
    <2>2. CASE \E d \in Nat : Drops(x, d)
      BY <2>1, <2>2, DropKeeps
    <2>3. CASE \E o \in Obj : Put(x, o) /\ Written(x, o)
      BY <1>1, <2>1, <2>3, WriteKeeps
    <2>4. QED
      BY <2>2, <2>3, DropOrWrite
  <1>2. QED
    BY <1>1, SameObjects DEF LifeInv, IsVmi

\* The parts of a name.
LEMMA NameParts ==
  ASSUME NEW n, NEW w, NEW c, NEW i, NEW x, x = <<n, w, c, i>>
  PROVE  x[1] = n /\ x[2] = w /\ x[3] = c /\ x[4] = i
  OBVIOUS

\* A node's objects, by name.
LEMMA MountNames ==
  ASSUME NEW h \in Histories, NEW u \in 1..MaxUid, NEW n \in DOMAIN h[u].kind
  PROVE  /\ h[u].kind[n] \in {"pod", "srl", "srsim", "vm"}
         /\ \A x \in Mounts(h[u], n) :
              x[1] = n /\ x[2] \in {"root", "nad", "topo", "etc", "cf", "dv"}
  <1>1. h[u].kind[n] \in {"pod", "srl", "srsim", "vm"}
    BY NodeAssumption
  <1>0. ASSUME NEW x, NEW w \in {"root", "nad", "topo", "etc", "cf", "dv"},
               \E c, i : x = <<n, w, c, i>>
        PROVE  x[1] = n /\ x[2] \in {"root", "nad", "topo", "etc", "cf", "dv"}
    <2>1. PICK c, i : x = <<n, w, c, i>>
      BY <1>0
    <2>2. x[1] = n /\ x[2] = w
      BY <2>1, NameParts, Zenon
    <2>3. QED
      BY <2>2
  <1>2. CASE h[u].kind[n] = "pod"
    <2>1. Mounts(h[u], n) = PodMounts(h[u], n)
      BY <1>2 DEF Mounts
    <2>2. \A x \in PodMounts(h[u], n) :
            x = <<n, "root", "", 0>> \/ \E i : x = <<n, "nad", "", i>>
      BY Zenon DEF PodMounts, AddrNad
    <2>3. \A x \in PodMounts(h[u], n) :
            x[1] = n /\ x[2] \in {"root", "nad", "topo", "etc", "cf", "dv"}
      BY <1>0, <2>2, Zenon
    <2>4. QED
      BY <1>1, <2>1, <2>3
  <1>3. CASE h[u].kind[n] = "srl"
    <2>1. Mounts(h[u], n) = SrlMounts(n)
      BY <1>3 DEF Mounts
    <2>2. \A x \in SrlMounts(n) : x = <<n, "topo", "", 0>> \/ x = <<n, "etc", "", 0>>
      BY Zenon DEF SrlMounts
    <2>3. \A x \in SrlMounts(n) :
            x[1] = n /\ x[2] \in {"root", "nad", "topo", "etc", "cf", "dv"}
      BY <1>0, <2>2, Zenon
    <2>4. QED
      BY <1>1, <2>1, <2>3
  <1>4. CASE h[u].kind[n] = "srsim"
    BY <1>4 DEF Mounts, SrsimMounts
  <1>5. CASE h[u].kind[n] = "vm"
    <2>1. Mounts(h[u], n) = VmMounts(n)
      BY <1>5 DEF Mounts
    <2>2. \A x \in VmMounts(n) : x = <<n, "dv", "", 0>>
      BY Zenon DEF VmMounts
    <2>3. \A x \in VmMounts(n) :
            x[1] = n /\ x[2] \in {"root", "nad", "topo", "etc", "cf", "dv"}
      BY <1>0, <2>2, Zenon
    <2>4. QED
      BY <1>1, <2>1, <2>3
  <1>6. QED
    BY <1>1, <1>2, <1>3, <1>4, <1>5

\* The VMs of VmiLife that the Labs have are the VMIs.
LEMMA VmisAreVMs ==
  ASSUME NodeInv, NEW x \in Objects
  PROVE  x \in VMs <=> IsVmi(x)
  <1>1. x \in VMs => IsVmi(x)
    <2> SUFFICES ASSUME x \in VMs PROVE IsVmi(x)
      OBVIOUS
    <2>1. PICK n : x = <<n, "vmi", "", 0>>
      BY Zenon DEF VMs
    <2>2. QED
      BY <2>1, NameParts, Zenon DEF IsVmi
  <1>2. ASSUME IsVmi(x) PROVE x \in VMs
    <2>1. specOf \in Histories /\ DOMAIN specOf = 1..MaxUid /\ Objects = ObjectsOf(specOf)
      BY NodeAssumption, ObjectsFixed DEF NodeInv, UidInv
    <2>2. PICK u \in 1..MaxUid : \E n \in DOMAIN specOf[u].kind : x \in Ensured(specOf[u], n)
      BY <2>1 DEF ObjectsOf
    <2>3. PICK n \in DOMAIN specOf[u].kind : x \in Ensured(specOf[u], n)
      BY <2>2
    <2>4. x \notin Mounts(specOf[u], n)
      BY <1>2, <2>1, MountNames DEF IsVmi
    <2>5. x = Workload(specOf[u], n)
      BY <2>3, <2>4 DEF Ensured
    <2>6. x = <<n, "vmi", "", 0>>
      BY <1>2, <2>5 DEF Workload, IsVmi
    <2>7. n \in UNION {UNION {DOMAIN g[v].kind : v \in 1..MaxUid} : g \in Histories}
      <3> DEFINE S(g) == UNION {DOMAIN g[v].kind : v \in 1..MaxUid}
      <3>1. n \in S(specOf)
        BY Zenon
      <3> HIDE DEF S
      <3>2. n \in UNION {S(g) : g \in Histories}
        BY <2>1, <3>1
      <3>3. QED
        BY <3>2, Zenon DEF S
    <2>8. QED
      BY <2>6, <2>7, Zenon DEF VMs
  <1>3. QED
    BY <1>1, <1>2

\* The state of VmiLife.
States == [x \in VMs |-> IF x \in Objects THEN VmiState(obj[x]) ELSE "off"]
Kept   == {x \in VMs \cap Objects : obj[x].by = lab}

\* Writing an object leaves the Lab as it is.
LEMMA PutSameLab ==
  ASSUME NodeInv, [Next]_vars, NEW x \in Objects, NEW o \in Obj, Put(x, o)
  PROVE  lab' = lab
  <1>1. TypeOK /\ Len(objQ[x]) \in Nat /\ Len(objQ'[x]) = Len(objQ[x]) + 1
    BY SeenTypes, PutSeen DEF NodeInv
  <1>2. ~UNCHANGED objVars
    BY <1>1 DEF objVars
  <1>3. QED
    BY <1>1, <1>2, LabSteps, LabDelivered, LabWritten DEF labVars, Crash

\* A VMI is written as VmiLife has it.
LEMMA VmiMoves ==
  ASSUME NodeInv, LifeInv, [Next]_vars, NEW x \in Objects, IsVmi(x), NEW o \in Obj,
         Put(x, o), Written(x, o)
  PROVE  Life!Next
  <1>1. /\ TypeOK /\ VmiHistory(x) /\ x \in VMs /\ lab' = lab /\ Objects' = Objects
        /\ obj[x] \in Obj /\ obj'[x] = o /\ \A y \in Objects \ {x} : obj'[y] = obj[y]
    BY VmisAreVMs, PutSameLab, SameObjects, ObjectsFixed, PutType DEF LifeInv, NodeInv
  <1>2. States' = [States EXCEPT ![x] = VmiState(o)] /\ States[x] = VmiState(obj[x])
    BY <1>1 DEF States
  <1>3. o.by = obj[x].by => Kept' = Kept
    BY <1>1 DEF Kept
  <1>4. Kept' \in SUBSET VMs
    BY <1>1 DEF Kept
  <1>5. CASE Created(x, o)
    <2>1. VmiState(o) = "on" /\ VmiState(obj[x]) = "off"
      BY <1>5 DEF Created, VmiState
    <2>2. Life!Start(x)
      BY <1>2, <1>4, <2>1 DEF Life!Start, Life!Move, States, Kept
    <2>3. QED
      BY <1>1, <2>2 DEF Life!Next
  <1>6. CASE Ended(x, o)
    <2>1. VmiState(o) = "ended" /\ VmiState(obj[x]) = "on" /\ o.by = obj[x].by
      BY <1>1, <1>6 DEF Ended, VmiState, Obj
    <2>2. Life!End(x)
      BY <1>2, <1>3, <2>1 DEF Life!End, Life!Move, States, Kept
    <2>3. QED
      BY <1>1, <2>2 DEF Life!Next
  <1>7. CASE Deleted(x, o)
    <2>1. /\ o.ph = obj[x].ph /\ o.by = obj[x].by /\ o.dying /\ ~obj[x].dying /\ o.ph # "gone"
          /\ obj[x].ph \in {"up", "Failed"}
          /\ obj[x].by # lab \/ (objC[x].ph = "Failed" /\ objC[x].by = cur)
      BY <1>1, <1>7 DEF Deleted, Obj
    <2>2. VmiState(o) = "ending" /\ VmiState(obj[x]) = (IF obj[x].ph = "up" THEN "on" ELSE "ended")
      BY <2>1 DEF VmiState
    <2>3. ASSUME obj[x].ph = "up" PROVE obj[x].by # lab
      <3>1. CASE objC[x].ph = "Failed"
        <4> DEFINE L == Len(objQ[x])
        <4>1. /\ L \in Nat /\ 0 \in Span(x) /\ L \in Span(x) /\ Seen(x, 0) = objC[x]
              /\ Seen(x, L) = obj[x]
          BY <1>1, SeenTypes DEF NodeInv, History, Seen
        <4>2. 0 < L
          BY <2>3, <3>1, <4>1
        <4>3. \E k \in Span(x) : ~There(x, k)
          BY <1>1, <2>3, <3>1, <4>1, <4>2 DEF VmiHistory, FailedGoes
        <4>4. o # NoObj
          BY <2>1, NoObjType
        <4>5. Past(obj[x].by)
          BY <1>1, <2>1, <4>3, <4>4, VmiWritten
        <4>6. QED
          BY <4>5 DEF Past
      <3>2. QED
        BY <2>1, <3>1
    <2>4. obj[x].ph = "up" => x \notin Kept
      BY <2>3 DEF Kept
    <2>5. Life!Remove(x)
      <3>1. \/ States[x] = "ended"
            \/ x \notin Kept /\ States[x] = "on"
        BY <1>2, <2>1, <2>2, <2>4
      <3>2. QED
        BY <1>2, <1>3, <2>1, <2>2, <3>1 DEF Life!Remove, Life!Move, States, Kept
    <2>6. QED
      BY <1>1, <2>5 DEF Life!Next
  <1>8. CASE Collected(x, o)
    BY <1>8 DEF Collected, IsWorkload, IsVmi
  <1>9. CASE Finished(x, o)
    <2>1. obj[x].ph # "gone"
      BY <1>1, <1>9 DEF Finished, VmiHistory, DyingIsPast
    <2>2. VmiState(o) = "off" /\ VmiState(obj[x]) = "ending"
      BY <1>9, <2>1, NoObjType DEF Finished, VmiState
    <2>3. Life!Gone(x)
      BY <1>2, <1>4, <2>2 DEF Life!Gone, Life!Move, States, Kept
    <2>4. QED
      BY <1>1, <2>3 DEF Life!Next
  <1>10. QED
    BY <1>5, <1>6, <1>7, <1>8, <1>9 DEF Written

\* Every step is one of VmiLife or leaves its state alone.
LEMMA LifeSim ==
  ASSUME NodeInv, LifeInv, [Next]_vars
  PROVE  [Life!Next]_(Life!vars)
  <1>1. TypeOK /\ Objects' = Objects
    BY SameObjects DEF NodeInv
  <1>2. ASSUME obj' = obj PROVE [Life!Next]_(Life!vars)
    <2>1. States' = States /\ Kept' \in SUBSET VMs
      BY <1>1, <1>2 DEF States, Kept
    <2>2. Life!Relabel
      BY <2>1 DEF Life!Relabel, States, Kept
    <2>3. QED
      BY <2>2 DEF Life!Next
  <1>3. ASSUME NEW x \in Objects, NEW o \in Obj, Put(x, o), Written(x, o)
        PROVE  [Life!Next]_(Life!vars)
    <2>1. CASE IsVmi(x)
      BY <1>3, <2>1, VmiMoves
    <2>2. CASE ~IsVmi(x)
      <3>1. x \notin VMs /\ lab' = lab /\ \A y \in Objects \ {x} : obj'[y] = obj[y]
        BY <1>1, <1>3, <2>2, VmisAreVMs, PutSameLab, PutType
      <3>2. States' = States
        BY <1>1, <3>1 DEF States
      <3>3. Kept' = Kept
        BY <1>1, <3>1 DEF Kept
      <3>4. QED
        BY <3>2, <3>3 DEF Life!vars, States, Kept
    <2>3. QED
      BY <2>1, <2>2
  <1>4. QED
    BY <1>1, <1>2, <1>3, ObjSteps DEF objVars, Deliver, Crash

\* NodeEnsure implements VmiLife: a VMI that is up is deleted only when its Lab
\* is no more, although Delete goes by name and the operator decides by a copy
\* of the VMI that may be any number of events old.
THEOREM LifeOfVmisTheorem == Spec => LifeOfVmis
  <1>1. Init => Life!Init
    <2> SUFFICES ASSUME Init PROVE Life!Init
      OBVIOUS
    <2>1. \A x \in Objects : obj[x] = NoObj
      BY DEF Init, Objects
    <2>2. VmiState(NoObj) = "off"
      BY NoObjType DEF VmiState
    <2>3. QED
      BY <2>1, <2>2 DEF Life!Init
  <1>2. NodeInv /\ LifeInv /\ [Next]_vars => (NodeInv /\ LifeInv)' /\ [Life!Next]_(Life!vars)
    BY NodeStep, LifeStep, LifeSim
  <1>3. QED
    BY NodeInit, LifeInit, <1>1, <1>2, PTL DEF Spec, LifeOfVmis, Life!Spec

-----------------------------------------------------------------------------
(* What the workloads are mounted on *)

\* A node's objects are objects.
LEMMA NodeObjects ==
  ASSUME NodeInv, NEW u \in 1..MaxUid, NEW n \in Nodes(u)
  PROVE  /\ Mounts(specOf[u], n) \subseteq Objects /\ Workload(specOf[u], n) \in Objects
         /\ Ensured(specOf[u], n) \subseteq Objects
  <1>1. specOf \in Histories /\ DOMAIN specOf = 1..MaxUid /\ Objects = ObjectsOf(specOf)
    BY NodeAssumption, ObjectsFixed DEF NodeInv, UidInv
  <1> DEFINE S(v) == UNION {Ensured(specOf[v], m) : m \in DOMAIN specOf[v].kind}
  <1>2. Ensured(specOf[u], n) \subseteq S(u)
    BY Zenon DEF Nodes
  <1> HIDE DEF S
  <1>3. S(u) \subseteq UNION {S(v) : v \in DOMAIN specOf}
    BY <1>1
  <1>4. UNION {S(v) : v \in DOMAIN specOf} = Objects
    BY <1>1, Zenon DEF S, ObjectsOf
  <1>5. QED
    BY <1>2, <1>3, <1>4 DEF Ensured

\* Mounts are no workloads and come before them; a workload is the last, and
\* that of one node only.
LEMMA MountsFirst ==
  ASSUME NodeInv, NEW u \in 1..MaxUid, NEW n \in Nodes(u)
  PROVE  /\ \A x \in Mounts(specOf[u], n) :
              ~IsWorkload(x) /\ Stage(x) \in 1..2 /\ x # Workload(specOf[u], n)
         /\ IsWorkload(Workload(specOf[u], n)) /\ Stage(Workload(specOf[u], n)) = 3
         /\ \A m \in Nodes(u) : Workload(specOf[u], m) \in Ensured(specOf[u], n) => m = n
  <1>1. specOf \in Histories
    BY DEF NodeInv, UidInv
  <1>2. \A x \in Mounts(specOf[u], n) :
          x[1] = n /\ x[2] \in {"root", "nad", "topo", "etc", "cf", "dv"}
    BY <1>1, MountNames DEF Nodes
  <1>3. ASSUME NEW m \in Nodes(u)
        PROVE  Workload(specOf[u], m)[1] = m /\ Workload(specOf[u], m)[2] \in {"pod", "vmi"}
    BY DEF Workload
  <1>4. ASSUME NEW x \in Mounts(specOf[u], n)
        PROVE  ~IsWorkload(x) /\ Stage(x) \in 1..2
    BY <1>2 DEF IsWorkload, Stage
  <1>5. IsWorkload(Workload(specOf[u], n)) /\ Stage(Workload(specOf[u], n)) = 3
    BY <1>3 DEF IsWorkload, Stage
  <1>6. ASSUME NEW m \in Nodes(u), Workload(specOf[u], m) \in Ensured(specOf[u], n)
        PROVE  m = n
    <2>1. Workload(specOf[u], m) \notin Mounts(specOf[u], n)
      BY <1>3, <1>4 DEF IsWorkload
    <2>2. Workload(specOf[u], m) = Workload(specOf[u], n)
      BY <1>6, <2>1 DEF Ensured
    <2>3. QED
      BY <1>3, <2>2
  <1>7. QED
    BY <1>4, <1>5, <1>6

\* All a workload refers to that is not k8slan's is mounted.
LEMMA ReferencesMounted ==
  ASSUME NodeInv, NEW u \in 1..MaxUid, NEW n \in Nodes(u),
         NEW x \in References(specOf[u], n), x[2] # "lan"
  PROVE  x \in Mounts(specOf[u], n)
  <1>1. specOf[u].kind[n] \in {"pod", "srl", "srsim", "vm"}
    BY MountNames DEF NodeInv, UidInv, Nodes
  <1>2. ASSUME NEW i, x = <<n, "lan", "", i>> PROVE FALSE
    BY <1>2, NameParts, Zenon
  <1>3. CASE specOf[u].kind[n] = "pod"
    <2>1. x \in PodVolumes(n) \/ \E s \in Spokes(specOf[u], n) :
            x = IF HasAddrs(specOf[u], s) THEN AddrNad(specOf[u], n, s)
                ELSE <<n, "lan", "", Number(specOf[u], n, s)>>
      <3>1. References(specOf[u], n) = PodVolumes(n) \cup {a.nad : a \in PodNets(specOf[u], n)}
        BY <1>3 DEF References
      <3>2. CASE \E a \in PodNets(specOf[u], n) : x = a.nad
        <4>1. PICK a \in PodNets(specOf[u], n) : x = a.nad
          BY <3>2
        <4>2. PICK s \in Spokes(specOf[u], n) :
                a = [nad  |-> IF HasAddrs(specOf[u], s) THEN AddrNad(specOf[u], n, s)
                             ELSE <<n, "lan", "", Number(specOf[u], n, s)>>,
                     port |-> Connector(specOf[u], s).port]
          BY Zenon DEF PodNets
        <4>3. a.nad = IF HasAddrs(specOf[u], s) THEN AddrNad(specOf[u], n, s)
                    ELSE <<n, "lan", "", Number(specOf[u], n, s)>>
          BY <4>2
        <4>4. QED
          BY <4>1, <4>3, Zenon
      <3>3. QED
        BY <3>1, <3>2, Zenon
    <2>2. x \in PodMounts(specOf[u], n)
      BY <1>2, <2>1, Zenon DEF PodMounts, PodVolumes
    <2>3. QED
      BY <1>3, <2>2 DEF Mounts
  <1>4. CASE specOf[u].kind[n] = "srl"
    <2>1. x \in SrlVolumes(n) \/ \E s \in Spokes(specOf[u], n) :
            x = <<n, "lan", "", Number(specOf[u], n, s)>>
      <3>1. References(specOf[u], n) = SrlVolumes(n) \cup {a.nad : a \in SrlNets(specOf[u], n)}
        BY <1>4 DEF References
      <3>2. CASE \E a \in SrlNets(specOf[u], n) : x = a.nad
        <4>1. PICK a \in SrlNets(specOf[u], n) : x = a.nad
          BY <3>2
        <4>2. PICK s \in Spokes(specOf[u], n) :
                a = [nad  |-> <<n, "lan", "", Number(specOf[u], n, s)>>,
                     port |-> IF Connector(specOf[u], s).port # 0
                              THEN Connector(specOf[u], s).port ELSE Number(specOf[u], n, s)]
          BY Zenon DEF SrlNets
        <4>3. a.nad = <<n, "lan", "", Number(specOf[u], n, s)>>
          BY <4>2
        <4>4. QED
          BY <4>1, <4>3, Zenon
      <3>3. QED
        BY <3>1, <3>2, Zenon
    <2>2. x \in SrlMounts(n)
      BY <1>2, <2>1, Zenon DEF SrlMounts, SrlVolumes
    <2>3. QED
      BY <1>4, <2>2 DEF Mounts
  <1>5. CASE specOf[u].kind[n] = "srsim"
    <2>1. x \in SrsimVolumes(n) \/ \E s \in Spokes(specOf[u], n) :
            x = <<n, "lan", "", Number(specOf[u], n, s)>>
      <3>1. References(specOf[u], n)
              = SrsimVolumes(n) \cup {a.nad : a \in SrsimNets(specOf[u], n)}
        BY <1>5 DEF References
      <3>2. CASE \E a \in SrsimNets(specOf[u], n) : x = a.nad
        <4>1. PICK a \in SrsimNets(specOf[u], n) : x = a.nad
          BY <3>2
        <4>2. PICK s \in Spokes(specOf[u], n) :
                a = [nad  |-> <<n, "lan", "", Number(specOf[u], n, s)>>,
                     port |-> IF Connector(specOf[u], s).port # 0
                              THEN Connector(specOf[u], s).port ELSE Number(specOf[u], n, s)]
          BY Zenon DEF SrsimNets
        <4>3. a.nad = <<n, "lan", "", Number(specOf[u], n, s)>>
          BY <4>2
        <4>4. QED
          BY <4>1, <4>3, Zenon
      <3>3. QED
        BY <3>1, <3>2, Zenon
    <2>2. x \in SrsimMounts(n)
      <3>1. SrsimMounts(n) = SrsimVolumes(n)
        BY DEF SrsimMounts, SrsimVolumes
      <3>2. QED
        BY <1>2, <2>1, <3>1, Zenon
    <2>3. QED
      BY <1>5, <2>2 DEF Mounts
  <1>6. CASE specOf[u].kind[n] = "vm"
    <2>1. x \in VmMounts(n)
      BY <1>6 DEF References, getVMI, VmMounts
    <2>2. QED
      BY <1>6, <2>1 DEF Mounts
  <1>7. QED
    BY <1>1, <1>3, <1>4, <1>5, <1>6

\* What a step writes to something that is mounted: it is made for the worker's
\* Lab, or taken away with another Lab.
LEMMA MountWritten ==
  ASSUME NEW x \in Objects, ~IsWorkload(x), ~obj[x].dying, NEW o \in Obj, Written(x, o)
  PROVE  \/ /\ o.ph = "up" /\ ~o.dying /\ o.by = cur /\ obj[x].ph = "gone" /\ InTurn(x)
         \/ Owned(x) /\ obj[x].by # lab /\ o.ph = "gone" /\ ~o.dying
  BY NoObjType DEF Written, Created, Ended, Deleted, Collected, Finished, IsWorkload, IsVmi

\* A Lab is created with a UID that no object has.
LEMMA LabFresh ==
  ASSUME NodeInv, [Next]_vars, NEW u \in Nat, u >= 1, u <= made, u = lab'
  PROVE  lab' = lab
  <1>1. TypeOK /\ made \in Nat /\ lab \in Nat
    BY UidTypes DEF NodeInv
  <1>2. CASE UserCreatesLab \/ UserDeletesLab
    BY <1>1, <1>2, LabWritten
  <1>3. QED
    BY <1>1, <1>2, LabSteps, LabDelivered DEF labVars, Crash

\* What is ready stays so, as long as the Lab is there.
LEMMA ReadyStep ==
  ASSUME NodeInv, [Next]_vars, NEW x \in Objects, ~IsWorkload(x), MountHistory(x),
         Ready(x), Owned(x) => lab' = lab
  PROVE  Ready(x)'
  <1>1. /\ TypeOK /\ Len(objQ[x]) \in Nat /\ Len(objQ[x]) \in Span(x)
        /\ Seen(x, Len(objQ[x])) = obj[x]
    BY SeenTypes DEF NodeInv, History
  <1>2. ~obj[x].dying
    BY <1>1 DEF MountHistory
  <1>3. CASE \E d \in Nat : Drops(x, d)
    BY <1>3 DEF Drops, Ready, Owned, IsWorkload
  <1>4. CASE \E o \in Obj : Put(x, o) /\ Written(x, o)
    BY <1>2, <1>4, MountWritten DEF Ready
  <1>5. QED
    BY <1>3, <1>4, DropOrWrite

\* Every step keeps the history of what is mounted.
LEMMA MountHistoryStep ==
  ASSUME NodeInv, [Next]_vars, NEW x \in Objects, ~IsWorkload(x), MountHistory(x)
  PROVE  MountHistory(x)'
  <1> DEFINE L == Len(objQ[x])
             Calm(o)  == ~o.dying /\ o.ph # "Failed"
             Here(o)  == o.ph # "gone" /\ (Owned(x) => o.by = lab)
             There1(o) == o.ph # "gone" /\ (Owned(x) => o.by = lab')
  <1>1. /\ TypeOK /\ L \in Nat /\ L \in Span(x) /\ Seen(x, L) = obj[x]
        /\ \A i \in Span(x) : Seen(x, i).by \in Nat
        /\ \A i \in Span(x) : There(x, i) => Seen(x, i).by >= 1 /\ Seen(x, i).by <= made
    BY SeenTypes DEF NodeInv, History, Known
  <1>2. /\ \A i \in Span(x) : Calm(Seen(x, i))
        /\ \A i \in Span(x) : Here(Seen(x, i)) => Ready(x)
    BY DEF MountHistory, There, Ready
  <1>3. \A i \in Span(x) : There1(Seen(x, i)) => Here(Seen(x, i)) /\ (Owned(x) => lab' = lab)
    BY <1>1, LabFresh DEF There
  <1>4. \A i \in Span(x) : There1(Seen(x, i)) => Ready(x)'
    BY <1>2, <1>3, ReadyStep
  <1>5. SUFFICES \A i \in Span(x)' : Calm(Seen(x, i)') /\ (There1(Seen(x, i)') => Ready(x)')
    BY DEF MountHistory, There, Ready, Owned, IsWorkload
  <1>6. CASE \E d \in Nat : Drops(x, d)
    <2>1. PICK d \in Nat : Drops(x, d)
      BY <1>6
    <2> HIDE DEF Calm, There1
    <2>2. QED
      BY <1>2, <1>4, <2>1 DEF Drops
  <1>7. CASE \E o \in Obj : Put(x, o) /\ Written(x, o)
    <2>1. PICK o \in Obj : Put(x, o) /\ Written(x, o)
      BY <1>7
    <2>2. /\ obj'[x] = o /\ \A i \in Span(x) : Seen(x, i)' = Seen(x, i)
          /\ \A i \in Span(x)' : i \in Span(x) \/ Seen(x, i)' = o
      <3>1. /\ obj'[x] = o /\ \A i \in Span(x) : Seen(x, i)' = Seen(x, i)
            /\ \A i \in {L + 1} : Seen(x, i)' = o
            /\ \A i \in Span(x)' : i \in Span(x) \/ i = L + 1
        BY <1>1, <2>1, PutSeen
      <3>2. QED
        BY <3>1
    <2>3. \/ /\ o.ph = "up" /\ ~o.dying
          \/ o.ph = "gone" /\ ~o.dying
      BY <1>1, <1>2, <2>1, MountWritten
    <2>4. Calm(o) /\ (There1(o) => Ready(x)')
      BY <2>2, <2>3 DEF Ready, Owned, IsWorkload
    <2> HIDE DEF Calm, There1
    <2>5. QED
      BY <1>2, <1>4, <2>2, <2>4
  <1>8. QED
    BY <1>6, <1>7, DropOrWrite

\* How the worker comes to be at a node, or goes on there.
LEMMA AtNode ==
  ASSUME TypeOK, [Next]_vars, pc' = "ensure"
  PROVE  \/ UNCHANGED workerVars
         \/ \E n \in nodes : EnsureNode(n)
         \/ \E x \in Objects : (EnsureObj(x) \/ EnsureVmi(x)) /\ Done(x)
  <1>1. CASE Reconcile \/ EndReconcile \/ Recreate \/ ApiError \/ Resync \/ UNCHANGED vars
    BY <1>1 DEF Reconcile, EndReconcile, Recreate, ApiError, Resync, vars, Return, workerVars
  <1>2. CASE \E x \in Objects : EnsureObj(x)
    BY <1>2 DEF EnsureObj, Return
  <1>3. CASE \E x \in Objects : EnsureVmi(x)
    BY <1>3 DEF EnsureVmi, Return
  <1>4. CASE \E x \in Objects : BuildPanics(x)
    BY <1>4 DEF BuildPanics, Return
  <1>5. CASE \E x \in Objects : Deliver(x) \/ Collect(x) \/ WorkloadGone(x) \/ WorkloadEnds(x)
    BY <1>5 DEF Deliver, Collect, WorkloadGone, WorkloadEnds
  <1>6. CASE DeliverLab \/ UserCreatesLab \/ UserDeletesLab \/ Crash
    BY <1>6 DEF DeliverLab, UserCreatesLab, UserDeletesLab, Crash, Return
  <1>7. QED
    BY <1>1, <1>2, <1>3, <1>4, <1>5, <1>6 DEF Next, Worker

\* What the worker is done with is ready.
LEMMA DoneReady ==
  ASSUME NodeInv, [Next]_vars, NEW x \in Objects, ~IsWorkload(x), MountHistory(x),
         EnsureObj(x), Done(x), pc' = "ensure", cur = lab, lab' = lab
  PROVE  Ready(x)'
  <1>1. CASE New(x)
    <2>1. obj'[x] = [ph |-> "up", dying |-> FALSE, by |-> cur]
      BY <1>1, WrittenTypes, PutType DEF New, NodeInv
    <2>2. QED
      BY <2>1 DEF Ready
  <1>2. CASE objC[x].ph # "gone" /\ (Owned(x) => IsOwnedbyLab(x))
    <2>1. 0 \in Span(x) /\ Seen(x, 0) = objC[x]
      BY SeenTypes DEF NodeInv, Seen
    <2>2. Ready(x)
      BY <1>2, <2>1 DEF MountHistory, There, Ready, IsOwnedbyLab
    <2>3. QED
      BY <2>2, ReadyStep
  <1>3. QED
    BY <1>1, <1>2 DEF EnsureObj, Return

\* Every step keeps what the worker has ensured of its node ready.
LEMMA MountedStep ==
  ASSUME NodeInv, MountInv, [Next]_vars
  PROVE  Mounted'
  <1>1. specOf' = specOf /\ TypeOK /\ TypeOK'
    BY SameObjects, TypeStep DEF NodeInv
  <1>2. SUFFICES ASSUME pc' = "ensure", cur' = lab', NEW n \in Nodes(cur)',
                        Workload(specOf[cur'], n) \in todo',
                        NEW x \in Mounts(specOf[cur'], n), x \notin todo'
                 PROVE  Ready(x)'
    BY <1>1 DEF Mounted
  <1>3. cur' = cur
    BY <1>1, <1>2, AtNode DEF workerVars, EnsureNode, Done
  <1>4. cur \in 1..MaxUid /\ cur \in Nat /\ cur <= made /\ n \in Nodes(cur)
    BY <1>1, <1>2, <1>3, UidTypes DEF TypeOK, NodeInv, UidInv, Nodes
  <1>5. lab' = lab /\ cur = lab
    BY <1>2, <1>3, <1>4, LabFresh
  <1>6. /\ x \in Mounts(specOf[cur], n) /\ x \in Objects /\ ~IsWorkload(x)
        /\ Workload(specOf[cur], n) \in todo'
    BY <1>2, <1>3, <1>4, NodeObjects, MountsFirst
  <1>7. MountHistory(x)
    BY <1>6 DEF MountInv
  <1>8. ASSUME pc = "ensure", todo' \subseteq todo, x \notin todo PROVE Ready(x)'
    <2>1. Ready(x)
      BY <1>4, <1>5, <1>6, <1>8 DEF MountInv, Mounted
    <2>2. QED
      BY <1>5, <1>6, <1>7, <2>1, ReadyStep
  <1>9. CASE UNCHANGED workerVars
    BY <1>2, <1>8, <1>9 DEF workerVars
  <1>10. ASSUME NEW m \in nodes, EnsureNode(m) PROVE Ready(x)'
    <2>1. todo' = Ensured(specOf[cur], m) /\ m \in Nodes(cur)
      BY <1>1, <1>10 DEF EnsureNode, TypeOK
    <2>2. n = m
      BY <1>4, <1>6, <2>1, MountsFirst
    <2>3. QED
      BY <1>2, <1>6, <2>1, <2>2 DEF Ensured
  <1>11. ASSUME NEW y \in Objects, EnsureObj(y) \/ EnsureVmi(y), Done(y) PROVE Ready(x)'
    <2>1. pc = "ensure" /\ y \in todo /\ todo' = todo \ {y}
      BY <1>11 DEF EnsureObj, EnsureVmi, InTurn, Done
    <2>2. CASE x \notin todo
      BY <1>8, <2>1, <2>2
    <2>3. CASE x \in todo
      <3>1. x = y
        BY <1>2, <2>1, <2>3
      <3>2. EnsureObj(x)
        BY <1>6, <1>11, <3>1 DEF EnsureVmi, IsWorkload
      <3>3. QED
        BY <1>2, <1>5, <1>6, <1>7, <1>11, <3>1, <3>2, DoneReady
    <2>4. QED
      BY <2>2, <2>3
  <1>12. QED
    BY <1>1, <1>2, <1>9, <1>10, <1>11, AtNode

\* Every step keeps what workloads of the Lab refer to.
LEMMA MountableStep ==
  ASSUME NodeInv, MountInv, [Next]_vars
  PROVE  Mountable'
  <1>1. specOf' = specOf /\ TypeOK /\ TypeOK' /\ Objects' = Objects
    BY SameObjects, TypeStep DEF NodeInv
  <1>2. SUFFICES ASSUME lab' # 0, NEW n \in Nodes(lab)',
                        NEW w, w = Workload(specOf[lab'], n),
                        obj'[w].ph # "gone", obj'[w].by = lab',
                        NEW x \in References(specOf[lab'], n), x[2] # "lan"
                 PROVE  Ready(x)'
    BY <1>1 DEF Mountable, Ready, Owned, IsWorkload
  <1>3. lab' \in 1..MaxUid /\ n \in Nodes(lab')
    BY <1>1, <1>2 DEF TypeOK, Nodes
  <1>4. /\ w \in Objects /\ x \in Objects /\ x \in Mounts(specOf[lab'], n)
        /\ IsWorkload(w) /\ ~IsWorkload(x) /\ Stage(x) \in 1..2 /\ Stage(w) = 3
    <2>1. \A u \in 1..MaxUid : \A m \in Nodes(u) : \A y \in References(specOf[u], m) :
            y[2] # "lan" => y \in Mounts(specOf[u], m)
      BY ReferencesMounted
    <2>2. x \in Mounts(specOf[lab'], n)
      BY <1>2, <1>3, <2>1
    <2>3. \A u \in 1..MaxUid : \A m \in Nodes(u) :
            /\ Mounts(specOf[u], m) \subseteq Objects /\ Workload(specOf[u], m) \in Objects
            /\ \A y \in Mounts(specOf[u], m) : ~IsWorkload(y) /\ Stage(y) \in 1..2
            /\ IsWorkload(Workload(specOf[u], m)) /\ Stage(Workload(specOf[u], m)) = 3
      BY NodeObjects, MountsFirst
    <2>4. QED
      BY <1>2, <1>3, <2>2, <2>3
  <1>5. MountHistory(x)
    BY <1>4 DEF MountInv
  <1>6. \A y \in Objects : obj[y].ph # "gone" => obj[y].by \in Nat /\ obj[y].by >= 1 /\ obj[y].by <= made
    BY <1>1, SeenTypes DEF NodeInv, History, There, Known
  <1>7. ASSUME obj[w].ph # "gone", obj[w].by = lab' PROVE Ready(x)'
    <2>1. lab' = lab
      BY <1>4, <1>6, <1>7, LabFresh
    <2>2. Ready(x)
      BY <1>2, <1>3, <1>7, <2>1 DEF MountInv, Mountable, Ready
    <2>3. QED
      BY <1>4, <1>5, <2>1, <2>2, ReadyStep
  <1>8. CASE \E d \in Nat : Drops(w, d)
    BY <1>2, <1>7, <1>8 DEF Drops
  <1>9. ASSUME NEW o \in Obj, Put(w, o), Written(w, o) PROVE Ready(x)'
    <2>1. obj'[w] = o /\ lab' = lab
      BY <1>1, <1>4, <1>9, PutType, PutSameLab
    <2>2. CASE Created(w, o)
      <3>1. /\ cur = lab /\ pc = "ensure" /\ w \in todo
            /\ \A y \in todo : Stage(w) <= Stage(y)
        BY <1>2, <2>1, <2>2 DEF Created, InTurn
      <3>2. x \notin todo
        BY <1>4, <3>1
      <3>3. Ready(x)
        BY <1>2, <1>3, <1>4, <2>1, <3>1, <3>2 DEF MountInv, Mounted
      <3>4. QED
        BY <1>4, <1>5, <2>1, <3>3, ReadyStep
    <2>3. CASE Ended(w, o) \/ Deleted(w, o)
      <3>1. o.by = obj[w].by /\ obj[w].ph # "gone"
        BY <1>1, <1>4, <2>3, SeenTypes DEF Ended, Deleted, Obj
      <3>2. QED
        BY <1>2, <1>7, <2>1, <3>1
    <2>4. CASE Collected(w, o) \/ Finished(w, o)
      BY <1>2, <2>1, <2>4, NoObjType DEF Collected, Finished
    <2>5. QED
      BY <1>9, <2>2, <2>3, <2>4 DEF Written
  <1>10. QED
    BY <1>4, <1>8, <1>9, DropOrWrite

\* Initially nothing is mounted.
LEMMA MountInit == Init => MountInv
  <1> SUFFICES ASSUME Init PROVE MountInv
    OBVIOUS
  <1>1. ASSUME NEW x \in Objects PROVE MountHistory(x)
    <2>1. objC[x] = NoObj /\ objQ[x] = <<>> /\ Len(objQ[x]) = 0
      BY <1>1 DEF Init, Objects
    <2>2. Span(x) = {0} /\ Seen(x, 0) = NoObj
      BY <2>1 DEF Span, Seen
    <2>3. QED
      BY <2>2, NoObjType DEF MountHistory, There
  <1>2. Mounted /\ Mountable
    BY DEF Init, Mounted, Mountable
  <1>3. QED
    BY <1>1, <1>2 DEF MountInv

\* What a workload of the Lab refers to is there, and what has an owner is this
\* Lab's, whichever Labs of the name there were before, however old the caches
\* are and wherever the operator was restarted: for all its lifetime nothing
\* that it is mounted on is taken away under it.
THEOREM MountableTheorem == Spec => []Mountable
  <1>1. NodeInv /\ MountInv /\ [Next]_vars => (NodeInv /\ MountInv)'
    <2> SUFFICES ASSUME NodeInv, MountInv, [Next]_vars PROVE (NodeInv /\ MountInv)'
      OBVIOUS
    <2>1. \A x \in Objects : ~IsWorkload(x) => MountHistory(x)'
      BY MountHistoryStep DEF MountInv
    <2>2. QED
      BY <2>1, NodeStep, MountedStep, MountableStep, SameObjects DEF MountInv, IsWorkload
  <1>2. QED
    BY NodeInit, MountInit, <1>1, PTL DEF Spec, MountInv

-----------------------------------------------------------------------------
(* How workloads are wired *)

Conn == [node : STRING, port : Nat, mac : Nat, addr : Nat]

\* A spoke is a link and a connector of it.
LEMMA SpokeTypes ==
  ASSUME NEW spec, spec.links \in Seq(Seq(Conn)), NEW n, NEW s \in Spokes(spec, n)
  PROVE  /\ s[1] \in Nat /\ s[2] \in Nat /\ s = <<s[1], s[2]>>
         /\ s[1] \in DOMAIN spec.links /\ s[2] \in DOMAIN spec.links[s[1]]
         /\ Connector(spec, s) \in Conn
  <1>1. PICK l \in DOMAIN spec.links : s \in {l} \X DOMAIN spec.links[l]
    BY DEF Spokes
  <1>2. l \in Nat /\ spec.links[l] \in Seq(Conn)
    BY <1>1
  <1>3. s[1] = l /\ s[2] \in DOMAIN spec.links[l] /\ s = <<s[1], s[2]>>
    BY <1>1
  <1>4. s[2] \in Nat /\ spec.links[l][s[2]] \in Conn
    BY <1>2, <1>3
  <1>5. QED
    BY <1>1, <1>2, <1>3, <1>4 DEF Connector

\* A node has finitely many spokes.
LEMMA SpokesFinite ==
  ASSUME NEW spec, spec.links \in Seq(Seq(Conn)), NEW n
  PROVE  IsFiniteSet(Spokes(spec, n))
  <1> DEFINE D == DOMAIN spec.links
             P(l) == {l} \X DOMAIN spec.links[l]
             F == [l \in D |-> P(l)]
             T == {P(l) : l \in D}
  <1>1. IsFiniteSet(D)
    <2>1. Len(spec.links) \in Nat /\ D = 1..Len(spec.links)
      OBVIOUS
    <2>2. QED
      BY <2>1, FS_Interval
  <1>2. ASSUME NEW l \in D PROVE IsFiniteSet(P(l))
    <2>1. spec.links[l] \in Seq(Conn)
      OBVIOUS
    <2>2. Len(spec.links[l]) \in Nat /\ DOMAIN spec.links[l] = 1..Len(spec.links[l])
      BY <2>1
    <2>3. IsFiniteSet(DOMAIN spec.links[l])
      BY <2>2, FS_Interval
    <2>4. QED
      BY <2>3, FS_Singleton, FS_Product
  <1>3. F \in Surjection(D, T)
    BY DEF Surjection
  <1>4. IsFiniteSet(T) /\ \A S \in T : IsFiniteSet(S)
    <2>1. IsFiniteSet(T)
      BY <1>1, <1>3, FS_Surjection
    <2>2. QED
      BY <1>2, <2>1
  <1>5. IsFiniteSet(UNION T)
    BY <1>4, FS_UNION
  <1>6. Spokes(spec, n) \in SUBSET (UNION T)
    BY DEF Spokes
  <1>7. QED
    BY <1>5, <1>6, FS_Subset

\* The loops over the links of a node count every spoke once: i is never the
\* same for two.
LEMMA NumberInjective ==
  ASSUME NEW spec, spec.links \in Seq(Seq(Conn)), NEW n,
         NEW r \in Spokes(spec, n), NEW s \in Spokes(spec, n),
         Number(spec, n, r) = Number(spec, n, s)
  PROVE  r = s
  <1> DEFINE Upto(x) == {q \in Spokes(spec, n) : q[1] < x[1] \/ (q[1] = x[1] /\ q[2] <= x[2])}
  <1>1. \A x \in Spokes(spec, n) : x[1] \in Nat /\ x[2] \in Nat /\ x = <<x[1], x[2]>>
    BY SpokeTypes
  <1>2. \A x \in Spokes(spec, n) : x \in Upto(x) /\ IsFiniteSet(Upto(x))
    <2>1. \A x \in Spokes(spec, n) : Upto(x) \in SUBSET Spokes(spec, n)
      OBVIOUS
    <2>2. \A x \in Spokes(spec, n) : IsFiniteSet(Upto(x))
      BY <2>1, SpokesFinite, FS_Subset
    <2>3. \A x \in Spokes(spec, n) : x \in Upto(x)
      BY <1>1
    <2>4. QED
      BY <2>2, <2>3
  <1>3. Cardinality(Upto(r)) = Cardinality(Upto(s))
    BY DEF Number
  <1>4. Upto(r) \in SUBSET Upto(s) \/ Upto(s) \in SUBSET Upto(r)
    BY <1>1
  <1>5. Upto(r) = Upto(s)
    <2>1. CASE Upto(r) \in SUBSET Upto(s)
      BY <1>2, <1>3, <2>1, FS_Subset
    <2>2. CASE Upto(s) \in SUBSET Upto(r)
      BY <1>2, <1>3, <2>2, FS_Subset
    <2>3. QED
      BY <1>4, <2>1, <2>2
  <1>6. r \in Upto(s) /\ s \in Upto(r)
    BY <1>2, <1>5
  <1>7. r[1] = s[1] /\ r[2] = s[2]
    BY <1>1, <1>6
  <1>8. QED
    BY <1>1, <1>7

\* Interfaces that get their names from the operator get different ones.
LEMMA PortsDiffer ==
  ASSUME NEW spec, spec.links \in Seq(Seq(Conn)), NEW n,
         \A s \in Spokes(spec, n) : Connector(spec, s).port = 0,
         NEW nets \in {SrlNets(spec, n), SrsimNets(spec, n)}
  PROVE  Cardinality({a.port : a \in nets}) = Cardinality(Spokes(spec, n))
  <1> DEFINE S == Spokes(spec, n)
             F == [s \in S |-> Number(spec, n, s)]
             T == {Number(spec, n, s) : s \in S}
  <1>1. {a.port : a \in nets} = T
    <2>1. nets = {[nad |-> <<n, "lan", "", Number(spec, n, s)>>, port |-> Number(spec, n, s)] : s \in S}
      BY DEF SrlNets, SrsimNets
    <2>2. ASSUME NEW s \in S PROVE Number(spec, n, s) \in {a.port : a \in nets}
      <3> DEFINE a == [nad |-> <<n, "lan", "", Number(spec, n, s)>>, port |-> Number(spec, n, s)]
      <3>1. a \in nets
        BY <2>1
      <3>2. a.port = Number(spec, n, s)
        OBVIOUS
      <3> HIDE DEF a
      <3>3. QED
        BY <3>1, <3>2
    <2>3. ASSUME NEW a \in nets PROVE a.port \in T
      <3>1. PICK s \in S : a = [nad |-> <<n, "lan", "", Number(spec, n, s)>>, port |-> Number(spec, n, s)]
        BY <2>1
      <3>2. QED
        BY <3>1
    <2>4. QED
      BY <2>2, <2>3
  <1>2. F \in Surjection(S, T)
    BY DEF Surjection
  <1>3. F \in Injection(S, T)
    <2>1. \A r, s \in S : F[r] = F[s] => r = s
      BY NumberInjective
    <2>2. F \in [S -> T] /\ DOMAIN F = S
      OBVIOUS
    <2> HIDE DEF F, S, T
    <2>3. QED
      BY <2>1, <2>2 DEF Injection, IsInjective
  <1>4. Cardinality(T) = Cardinality(S)
    BY <1>2, <1>3, SpokesFinite, FS_Surjection
  <1>5. QED
    BY <1>1, <1>4

\* The interfaces of n have MACs of their own.
OwnMacs(spec, n) ==
  \A r, s \in Spokes(spec, n) : /\ Connector(spec, s).mac # VMBaseMAC
                                /\ Connector(spec, r).mac = Connector(spec, s).mac => r = s

\* The address of s is configured, on the interface that is on s and no other.
Placed(spec, n, s) ==
  \E nic \in getVMI(spec, n).network :
    /\ nic.addr = Connector(spec, s).addr
    /\ {i.spoke : i \in {f \in getVMI(spec, n).interfaces : f.mac = nic.mac}} = {s}

\* The addresses of a VM are on the interfaces of their connectors.
LEMMA AddressesPlaced ==
  ASSUME NEW spec, spec.links \in Seq(Seq(Conn)), NEW n, OwnMacs(spec, n),
         \A r, s \in Spokes(spec, n) : r[1] = s[1] => r = s,
         NEW s \in Spokes(spec, n), HasAddrs(spec, s)
  PROVE  Placed(spec, n, s)
  <1> DEFINE S == Spokes(spec, n)
             c == Connector(spec, s)
             nic == [mac |-> c.mac, addr |-> c.addr]
             I == Interfaces(spec, n)
  <1>1. getLinkandConnector(spec, n, s[1]) = s
    <2>1. s[1] = s[1] /\ \A r \in S : r[1] = s[1] => s[2] <= r[2]
      BY SpokeTypes
    <2>2. \A q \in S : q[1] = s[1] => q = s
      OBVIOUS
    <2>3. QED
      BY <2>1, <2>2 DEF getLinkandConnector
  <1>2. nic \in Nics(spec, n)
    BY <1>1 DEF Nics, AddConnector
  <1>3. nic \in getVMI(spec, n).network /\ getVMI(spec, n).interfaces = I
    BY <1>2 DEF getVMI
  <1>4. \A i : i \in I /\ i.mac = c.mac <=> i = [spoke |-> s, mac |-> c.mac]
    BY DEF Interfaces, OwnMacs
  <1>5. {i.spoke : i \in {f \in I : f.mac = nic.mac}} = {s}
    <2>1. {f \in I : f.mac = nic.mac} = {[spoke |-> s, mac |-> c.mac]}
      BY <1>4
    <2>2. [spoke |-> s, mac |-> c.mac].spoke = s
      OBVIOUS
    <2>3. QED
      BY <2>1, <2>2
  <1>6. nic.addr = c.addr
    OBVIOUS
  <1>7. QED
    BY <1>3, <1>5, <1>6 DEF Placed

\* The interfaces of VMs have MACs of their own: the webhook gives connectors
\* without a MAC different ones.  But users may give two connectors the same.
VmMacsDistinct ==
  \A h \in Histories : \A u \in 1..MaxUid : \A n \in DOMAIN h[u].kind :
    h[u].kind[n] = "vm" => OwnMacs(h[u], n)

\* The networks of an SR Linux or SR-SIM have names that differ, and a VM's
\* addresses end up on the interfaces that its Lab gives them to, for any Lab:
\* however many links, in whatever order of names, a node on a link twice.
\* For VMs this is so if their MACs differ.
THEOREM WiredAsSpecifiedTheorem ==
  ASSUME VmMacsDistinct
  PROVE  Spec => []WiredAsSpecified
  <1>1. NodeInv => WiredAsSpecified
    <2> SUFFICES ASSUME NodeInv, NEW u \in 1..MaxUid, NEW n \in Nodes(u)
                 PROVE  LET spec == specOf[u]  sp == Spokes(spec, n) IN
                        /\ (\A s \in sp : Connector(spec, s).port = 0) =>
                             \A nets \in {SrlNets(spec, n), SrsimNets(spec, n)} :
                               Cardinality({a.port : a \in nets}) = Cardinality(sp)
                        /\ spec.kind[n] = "vm" /\ (\A r, s \in sp : r[1] = s[1] => r = s) =>
                             \A s \in sp : HasAddrs(spec, s) => Placed(spec, n, s)
      BY DEF WiredAsSpecified, Placed
    <2> DEFINE spec == specOf[u]
    <2>1. specOf \in Histories /\ n \in DOMAIN spec.kind
      BY DEF NodeInv, UidInv, Nodes
    <2>2. spec.links \in Seq(Seq(Conn))
      BY <2>1, NodeAssumption DEF Conn
    <2>3. spec.kind[n] = "vm" => OwnMacs(spec, n)
      BY <2>1 DEF VmMacsDistinct
    <2> HIDE DEF spec
    <2>4. (\A s \in Spokes(spec, n) : Connector(spec, s).port = 0) =>
            \A nets \in {SrlNets(spec, n), SrsimNets(spec, n)} :
              Cardinality({a.port : a \in nets}) = Cardinality(Spokes(spec, n))
      BY <2>2, PortsDiffer
    <2>5. spec.kind[n] = "vm" /\ (\A r, s \in Spokes(spec, n) : r[1] = s[1] => r = s) =>
            \A s \in Spokes(spec, n) : HasAddrs(spec, s) => Placed(spec, n, s)
      BY <2>2, <2>3, AddressesPlaced
    <2>6. QED
      BY <2>4, <2>5 DEF spec
  <1>2. NodeInv /\ [Next]_vars => NodeInv'
    BY NodeStep
  <1>3. QED
    BY NodeInit, <1>1, <1>2, PTL DEF Spec

=============================================================================
