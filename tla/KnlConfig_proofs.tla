-------------------------- MODULE KnlConfig_proofs --------------------------
(***************************************************************************)
(* Proofs about KnlConfig for any set of names and specs and any number    *)
(* of writes, re-creations, failures and restarts: the state is well       *)
(* typed, the pointers of GCONF that a reconcile follows are set, and the  *)
(* status of the KNLConfig does not lie about what GCONF holds.            *)
(***************************************************************************)
EXTENDS KnlConfig, TLAPS

-----------------------------------------------------------------------------
(* The inductive invariants *)

\* Every generation comes of a write.
GenWritten == \A n \in Names : cfg[n].gen <= writes[n]

TypeInv == TypeOK /\ GenWritten

\* An object that is stored passed Validate.
Checked(obj) == obj.stored => Validate(obj.spec)

\* What the API server, the informer and a reconcile hold of any KNLConfig
\* passed Validate, and so did what GCONF was set to.
AllChecked ==
  /\ \A n \in Names : /\ Checked(cfg[n]) /\ Checked(cfgC[n])
                      /\ \A i \in 1..Len(cfgQ[n]) : Checked(cfgQ[n][i])
  /\ Checked(copy)
  /\ gconf = NewConfig \/ Validate(gconf.spec)

\* The events under way lead from the cached object to the stored one, each
\* of a newer version.
Versions ==
  /\ cfgQ[Target] = <<>> => cfgC[Target] = cfg[Target]
  /\ cfgQ[Target] # <<>> => cfgQ[Target][Len(cfgQ[Target])] = cfg[Target]
  /\ cfgC[Target].rv <= cfg[Target].rv
  /\ \A i \in 1..Len(cfgQ[Target]) :
       /\ cfgC[Target].rv < cfgQ[Target][i].rv
       /\ cfgQ[Target][i].rv <= cfg[Target].rv
       /\ \A j \in 1..Len(cfgQ[Target]) : i < j => cfgQ[Target][i].rv < cfgQ[Target][j].rv

\* Between Set and the status update GCONF is what the reconcile holds, which
\* is the cached object unless a newer one has arrived.
CopyInForce ==
  copy.stored => /\ gconf = [spec |-> copy.spec, gen |-> copy.gen]
                 /\ copy.rv <= cfgC[Target].rv
                 /\ copy.rv = cfgC[Target].rv => copy = cfgC[Target]

\* An object of the generation and the spec that are stored.
Current(obj) == /\ obj.stored /\ obj.gen = cfg[Target].gen
                /\ obj.spec = cfg[Target].spec

\* Once the stored object says that its generation has been observed, no
\* older one is cached, under way or in force.
Observed ==
  cfg[Target].stored /\ cfg[Target].obs = cfg[Target].gen =>
    /\ Current(cfgC[Target])
    /\ \A i \in 1..Len(cfgQ[Target]) : Current(cfgQ[Target][i])
    /\ gconf.gen # 0 => gconf.spec = cfg[Target].spec

\* A stored object is of generation 1 at least, and none of a later one has
\* been observed.
ObsBounded == cfg[Target].stored => /\ cfg[Target].gen >= 1
                                    /\ cfg[Target].obs <= cfg[Target].gen

StatusInv == Versions /\ CopyInForce /\ Observed /\ ObsBounded

-----------------------------------------------------------------------------
(* Objects and queues *)

\* What Append does to a queue of events.
LEMMA AppendEvent ==
  ASSUME NEW q \in Seq(Object), NEW o \in Object
  PROVE  /\ Append(q, o) \in Seq(Object) /\ Append(q, o) # <<>>
         /\ Len(q) \in Nat /\ Len(Append(q, o)) = Len(q) + 1
         /\ \A i \in 1..Len(q) : Append(q, o)[i] = q[i]
         /\ Append(q, o)[Len(q) + 1] = o
         /\ q = <<>> <=> Len(q) = 0
  OBVIOUS

\* What Tail does to one.
LEMMA TailEvent ==
  ASSUME NEW q \in Seq(Object), q # <<>>
  PROVE  /\ Tail(q) \in Seq(Object) /\ Head(q) \in Object /\ Head(q) = q[1]
         /\ Len(q) \in Nat /\ Len(q) >= 1 /\ Len(Tail(q)) = Len(q) - 1
         /\ \A i \in 1..Len(q) - 1 : Tail(q)[i] = q[i + 1]
         /\ Tail(q) = <<>> <=> Len(q) = 1
  <1>1. /\ Head(q) \in Object /\ Head(q) = q[1] /\ Len(q) \in Nat /\ Len(q) >= 1
        /\ Tail(q) \in Seq(Object) /\ Len(Tail(q)) = Len(q) - 1
        /\ \A i \in 1..Len(q) - 1 : Tail(q)[i] = q[i + 1]
    OBVIOUS
  <1>2. \A t \in Seq(Object) : t = <<>> <=> Len(t) = 0
    OBVIOUS
  <1>3. QED
    BY <1>1, <1>2

\* The application's defaults are a spec, and so is a spec that they fill.
LEMMA SpecTypes ==
  /\ NoSpec \in Specs /\ DefKNLConfig \in Specs
  /\ \A s \in Specs : Default(s) \in Specs
  BY DEF NoSpec, DefKNLConfig, Default, Specs, Values

\* No object is an object, and GCONF begins with a spec.
LEMMA NoObjType ==
  /\ NoObj \in Object /\ ~NoObj.stored /\ NoObj.rv = 0 /\ NoObj.gen = 0
  /\ NewConfig \in [spec : Specs, gen : 0..MaxWrite]
  BY ConfigAssumption, SpecTypes DEF NoObj, Object, NewConfig

\* The API server numbers what it stores.
LEMMA PutFacts ==
  ASSUME cfg \in [Names -> Object], cfgQ \in [Names -> Seq(Object)],
         NEW n \in Names, NEW o \in Object, Put(n, o)
  PROVE  /\ cfg' \in [Names -> Object] /\ cfgQ' \in [Names -> Seq(Object)]
         /\ cfg'[n] = [o EXCEPT !.rv = cfg[n].rv + 1] /\ cfg'[n] \in Object
         /\ cfgQ'[n] = Append(cfgQ[n], cfg'[n])
         /\ \A m \in Names \ {n} : cfg'[m] = cfg[m] /\ cfgQ'[m] = cfgQ[m]
  <1>0. cfg[n] \in Object /\ cfg[n].rv \in Nat
    BY DEF Object
  <1>1. [o EXCEPT !.rv = cfg[n].rv + 1] \in Object
    <2>1. \A r \in Nat : [o EXCEPT !.rv = r] \in Object
      BY DEF Object
    <2>2. cfg[n].rv + 1 \in Nat
      BY <1>0
    <2>3. QED
      BY <2>1, <2>2, Zenon
  <1>2. cfg' = [cfg EXCEPT ![n] = [o EXCEPT !.rv = cfg[n].rv + 1]]
        /\ cfgQ' = [cfgQ EXCEPT ![n] = Append(cfgQ[n], cfg'[n])]
    BY DEF Put
  <1>3. cfg'[n] = [o EXCEPT !.rv = cfg[n].rv + 1] /\ cfg' \in [Names -> Object]
    BY <1>1, <1>2
  <1>4. Append(cfgQ[n], cfg'[n]) \in Seq(Object)
    BY <1>1, <1>3, AppendEvent
  <1>5. QED
    BY <1>1, <1>2, <1>3, <1>4

-----------------------------------------------------------------------------
(* Type correctness *)

\* A user's write adds one to the writes of its name.
LEMMA WriteType ==
  ASSUME TypeInv, NEW n \in Names, NEW o \in Object, Write(n, o), o.gen <= writes[n] + 1,
         UNCHANGED <<cfgC, gconf, queue, copy, fails, crashes>>,
         creates' \in [Names -> 0..MaxCreate]
  PROVE  TypeInv'
  <1>1. /\ cfg' \in [Names -> Object] /\ cfgQ' \in [Names -> Seq(Object)]
        /\ cfg'[n] = [o EXCEPT !.rv = cfg[n].rv + 1]
        /\ \A m \in Names \ {n} : cfg'[m] = cfg[m]
    BY PutFacts DEF Write, TypeInv, TypeOK
  <1>2. /\ writes' \in [Names -> 0..MaxWrite] /\ writes'[n] = writes[n] + 1
        /\ \A m \in Names \ {n} : writes'[m] = writes[m]
    BY ConfigAssumption DEF Write, TypeInv, TypeOK
  <1>3. cfg'[n].gen = o.gen
    BY <1>1 DEF Object
  <1>4. GenWritten'
    BY <1>1, <1>2, <1>3 DEF GenWritten, TypeInv
  <1>5. QED
    BY <1>1, <1>2, <1>4 DEF TypeInv, TypeOK

\* The user's actions.
LEMMA UserType ==
  ASSUME TypeInv, NEW n \in Names, User(n)
  PROVE  TypeInv'
  <1>1. /\ cfg[n] \in Object /\ cfg[n].gen <= writes[n] /\ cfg[n].gen \in Nat
        /\ writes[n] \in 0..MaxWrite /\ creates[n] \in 0..MaxCreate
        /\ creates \in [Names -> 0..MaxCreate] /\ MaxWrite \in Nat /\ MaxCreate \in Nat
    <2>1. /\ cfg[n] \in Object /\ cfg[n].gen <= writes[n] /\ writes[n] \in 0..MaxWrite
          /\ creates \in [Names -> 0..MaxCreate]
      BY DEF TypeInv, TypeOK, GenWritten
    <2>2. cfg[n].gen \in Nat
      BY <2>1 DEF Object
    <2>3. QED
      BY <2>1, <2>2, ConfigAssumption
  <1>2. ASSUME NEW s \in UserSpecs, UserCreate(n, s) PROVE TypeInv'
    <2> DEFINE o == [stored |-> TRUE, rv |-> 0, gen |-> 1, obs |-> 0, spec |-> Default(s)]
    <2>1. writes[n] < MaxWrite /\ Default(s) \in Specs
      BY <1>2, ConfigAssumption, SpecTypes DEF UserCreate, Write
    <2>2. o \in Object /\ o.gen = 1
      BY <1>1, <2>1 DEF Object
    <2>3. creates' \in [Names -> 0..MaxCreate]
      BY <1>1, <1>2 DEF UserCreate
    <2>4. Write(n, o) /\ UNCHANGED <<cfgC, gconf, queue, copy, fails, crashes>>
      BY <1>2 DEF UserCreate
    <2>5. o.gen <= writes[n] + 1
      BY <1>1, <2>2
    <2>6. QED
      BY <2>2, <2>3, <2>4, <2>5, WriteType
  <1>3. ASSUME NEW s \in UserSpecs, UserUpdate(n, s) PROVE TypeInv'
    <2> DEFINE o == [cfg[n] EXCEPT !.gen = @ + 1, !.spec = Default(s)]
    <2>1. writes[n] < MaxWrite /\ Default(s) \in Specs
      BY <1>3, ConfigAssumption, SpecTypes DEF UserUpdate, Write
    <2>2. o \in Object /\ o.gen = cfg[n].gen + 1
      <3>1. cfg[n].gen + 1 \in 0..MaxWrite
        BY <1>1, <2>1
      <3>2. QED
        BY <1>1, <2>1, <3>1 DEF Object
    <2>3. Write(n, o) /\ UNCHANGED <<cfgC, gconf, queue, copy, creates, fails, crashes>>
      BY <1>3 DEF UserUpdate
    <2>4. o.gen <= writes[n] + 1
      BY <1>1, <2>2
    <2>5. QED
      BY <1>1, <2>2, <2>3, <2>4, WriteType
  <1>4. CASE UserAnnotate(n)
    BY <1>1, <1>4, WriteType DEF UserAnnotate
  <1>5. CASE UserDelete(n)
    BY <1>1, <1>5, NoObjType, WriteType DEF UserDelete
  <1>6. QED
    BY <1>2, <1>3, <1>4, <1>5 DEF User

\* Initially everything is of its type.
LEMMA TypeInit == Init => TypeInv
  <1> SUFFICES ASSUME Init PROVE TypeInv
    OBVIOUS
  <1>1. /\ cfg \in [Names -> Object] /\ cfgC \in [Names -> Object]
        /\ gconf \in [spec : Specs, gen : 0..MaxWrite] /\ copy \in Object
    BY NoObjType DEF Init
  <1>2. cfgQ \in [Names -> Seq(Object)] /\ queue \in SUBSET Names
    BY DEF Init
  <1>3. /\ writes \in [Names -> 0..MaxWrite] /\ creates \in [Names -> 0..MaxCreate]
        /\ fails \in 0..MaxFail /\ crashes \in 0..MaxCrash
    BY ConfigAssumption DEF Init
  <1>4. GenWritten
    <2>1. \A n \in Names : cfg[n].gen = 0 /\ writes[n] = 0
      BY NoObjType DEF Init
    <2>2. 0 <= 0
      OBVIOUS
    <2>3. QED
      BY <2>1, <2>2, Zenon DEF GenWritten
  <1>5. QED
    BY <1>1, <1>2, <1>3, <1>4 DEF TypeInv, TypeOK

\* Every step keeps the types.
LEMMA TypeStep ==
  ASSUME TypeInv, [Next]_vars
  PROVE  TypeInv'
  <1>1. TypeOK /\ GenWritten
    BY DEF TypeInv
  <1>2. ASSUME NEW n \in Names, User(n) PROVE TypeInv'
    BY <1>2, UserType
  <1>3. ASSUME NEW n \in Names, Deliver(n) PROVE TypeInv'
    <2>1. Head(cfgQ[n]) \in Object /\ Tail(cfgQ[n]) \in Seq(Object)
      BY <1>1, <1>3, TailEvent DEF Deliver, TypeOK
    <2>2. cfgC' \in [Names -> Object] /\ cfgQ' \in [Names -> Seq(Object)]
      BY <1>1, <1>3, <2>1 DEF Deliver, TypeOK
    <2>3. QED
      BY <1>1, <1>3, <2>2 DEF Deliver, TypeInv, TypeOK, GenWritten, boundVars
  <1>4. ASSUME NEW n \in Names, Reconcile(n) PROVE TypeInv'
    <2>1. gconf' \in [spec : Specs, gen : 0..MaxWrite] /\ copy' \in Object
      BY <1>1, <1>4 DEF Reconcile, Set, TypeOK, Object
    <2>2. QED
      BY <1>1, <1>4, <2>1 DEF Reconcile, TypeInv, TypeOK, GenWritten, boundVars
  <1>5. CASE UpdateStatus
    <2>1. CASE UNCHANGED <<cfg, cfgQ>>
      BY <1>1, <1>5, <2>1, NoObjType DEF UpdateStatus, TypeInv, TypeOK, GenWritten, boundVars
    <2>2. CASE Put(Target, [cfg[Target] EXCEPT !.obs = gconf.gen])
      <3> DEFINE o == [cfg[Target] EXCEPT !.obs = gconf.gen]
      <3>1. o \in Object /\ o.gen = cfg[Target].gen
        BY <1>1, ConfigAssumption DEF TypeOK, Object
      <3>2. /\ cfg' \in [Names -> Object] /\ cfgQ' \in [Names -> Seq(Object)]
            /\ cfg'[Target] = [o EXCEPT !.rv = cfg[Target].rv + 1]
            /\ \A m \in Names \ {Target} : cfg'[m] = cfg[m]
        BY <1>1, <2>2, <3>1, PutFacts, ConfigAssumption DEF TypeOK
      <3>3. cfg'[Target].gen = cfg[Target].gen
        BY <3>1, <3>2 DEF Object
      <3>4. GenWritten'
        BY <1>1, <1>5, <3>2, <3>3 DEF GenWritten, UpdateStatus, boundVars
      <3>5. QED
        BY <1>1, <1>5, <3>2, <3>4, NoObjType DEF UpdateStatus, TypeInv, TypeOK, boundVars
    <2>3. QED
      BY <1>5, <2>1, <2>2 DEF UpdateStatus
  <1>6. CASE UpdateStatusFails
    BY <1>1, <1>6, NoObjType, ConfigAssumption
       DEF UpdateStatusFails, TypeInv, TypeOK, GenWritten
  <1>7. CASE Resync
    BY <1>1, <1>7 DEF Resync, TypeInv, TypeOK, GenWritten, boundVars
  <1>8. CASE Crash
    <2>1. cfgQ' \in [Names -> Seq(Object)] /\ crashes' \in 0..MaxCrash
          /\ queue' \in SUBSET Names
      BY <1>1, <1>8, ConfigAssumption DEF Crash, TypeOK
    <2>2. QED
      BY <1>1, <1>8, <2>1, NoObjType DEF Crash, TypeInv, TypeOK, GenWritten
  <1>9. CASE UNCHANGED vars
    BY <1>1, <1>9 DEF vars, boundVars, TypeInv, TypeOK, GenWritten
  <1>10. QED
    BY <1>2, <1>3, <1>4, <1>5, <1>6, <1>7, <1>8, <1>9 DEF Next

\* Type correctness of the configuration and its reconciler.
THEOREM TypeCorrect == Spec => []TypeOK
  <1>1. TypeInv /\ [Next]_vars => TypeInv'
    BY TypeStep
  <1>2. TypeInv => TypeOK
    BY DEF TypeInv
  <1>3. QED
    BY TypeInit, <1>1, <1>2, PTL DEF Spec

-----------------------------------------------------------------------------
(* What the steps do to the objects *)

\* The next version of the object of name n, as the user may write it: a new
\* one, one of the next generation, the same again, or none.
Successor(o, n) ==
  \/ ~o.stored
  \/ o.stored /\ o.gen = 1 /\ o.obs = 0
  \/ cfg[n].stored /\ o.stored /\ o.gen = cfg[n].gen + 1 /\ o.obs = cfg[n].obs
  \/ cfg[n].stored /\ o = cfg[n]

\* Whatever the user does, an object that passed Validate is stored.
LEMMA UserWrites ==
  ASSUME TypeInv, AllChecked, NEW n \in Names, User(n)
  PROVE  /\ \E o \in Object : Put(n, o) /\ Checked(o) /\ Successor(o, n)
         /\ UNCHANGED <<cfgC, gconf, queue, copy>>
  <1>1. UNCHANGED <<cfgC, gconf, queue, copy>>
    BY DEF User, UserCreate, UserUpdate, UserAnnotate, UserDelete
  <1>2. /\ cfg[n] \in Object /\ Checked(cfg[n]) /\ cfg[n].gen <= writes[n]
        /\ writes[n] \in 0..MaxWrite /\ MaxWrite \in Nat
    BY ConfigAssumption DEF TypeInv, TypeOK, GenWritten, AllChecked
  <1>3. cfg[n].gen \in Nat
    BY <1>2 DEF Object
  <1>4. ASSUME NEW s \in UserSpecs, UserCreate(n, s)
        PROVE  \E o \in Object : Put(n, o) /\ Checked(o) /\ Successor(o, n)
    <2> DEFINE o == [stored |-> TRUE, rv |-> 0, gen |-> 1, obs |-> 0, spec |-> Default(s)]
    <2>1. /\ Validate(Default(s)) /\ Put(n, o) /\ writes[n] < MaxWrite
          /\ Default(s) \in Specs
      BY <1>4, ConfigAssumption, SpecTypes DEF UserCreate, Write
    <2>2. o \in Object
      BY <1>2, <2>1 DEF Object
    <2>3. Checked(o) /\ Successor(o, n)
      BY <2>1 DEF Checked, Successor
    <2>4. QED
      BY <2>1, <2>2, <2>3
  <1>5. ASSUME NEW s \in UserSpecs, UserUpdate(n, s)
        PROVE  \E o \in Object : Put(n, o) /\ Checked(o) /\ Successor(o, n)
    <2> DEFINE o == [cfg[n] EXCEPT !.gen = @ + 1, !.spec = Default(s)]
    <2>1. /\ Validate(Default(s)) /\ Put(n, o) /\ writes[n] < MaxWrite
          /\ Default(s) \in Specs /\ cfg[n].stored
      BY <1>5, ConfigAssumption, SpecTypes DEF UserUpdate, Write
    <2>2. cfg[n].gen + 1 \in 0..MaxWrite
      BY <1>2, <1>3, <2>1
    <2>3. /\ o \in Object /\ o.spec = Default(s) /\ o.stored = cfg[n].stored
          /\ o.gen = cfg[n].gen + 1 /\ o.obs = cfg[n].obs
      BY <1>2, <2>1, <2>2 DEF Object
    <2>4. Checked(o) /\ Successor(o, n)
      BY <2>1, <2>3 DEF Checked, Successor
    <2>5. QED
      BY <2>1, <2>3, <2>4
  <1>6. CASE UserAnnotate(n)
    BY <1>2, <1>6 DEF UserAnnotate, Write, Successor
  <1>7. CASE UserDelete(n)
    BY <1>7, NoObjType DEF UserDelete, Write, Successor, Checked
  <1>8. QED
    BY <1>1, <1>4, <1>5, <1>6, <1>7 DEF User

\* An event arrives: the others move up.
LEMMA DeliverFacts ==
  ASSUME TypeOK, NEW n \in Names, Deliver(n)
  PROVE  /\ cfgQ[n] \in Seq(Object) /\ Len(cfgQ[n]) \in Nat /\ Len(cfgQ[n]) >= 1
         /\ cfgC'[n] = cfgQ[n][1] /\ cfgQ'[n] = Tail(cfgQ[n])
         /\ Len(cfgQ'[n]) = Len(cfgQ[n]) - 1
         /\ \A i \in 1..Len(cfgQ'[n]) : i + 1 \in 1..Len(cfgQ[n])
                                        /\ cfgQ'[n][i] = cfgQ[n][i + 1]
         /\ cfgQ'[n] = <<>> <=> Len(cfgQ[n]) = 1
         /\ \A m \in Names \ {n} : cfgC'[m] = cfgC[m] /\ cfgQ'[m] = cfgQ[m]
         /\ UNCHANGED <<cfg, gconf, copy>>
  <1>1. /\ cfgQ[n] \in Seq(Object) /\ cfgQ[n] # <<>> /\ UNCHANGED <<cfg, gconf, copy>>
        /\ cfgC'[n] = Head(cfgQ[n]) /\ cfgQ'[n] = Tail(cfgQ[n])
        /\ \A m \in Names \ {n} : cfgC'[m] = cfgC[m] /\ cfgQ'[m] = cfgQ[m]
    BY DEF Deliver, TypeOK
  <1>2. QED
    BY <1>1, TailEvent

-----------------------------------------------------------------------------
(* The pointers of GCONF *)

\* What is stored passed Validate.
LEMMA PutChecked ==
  ASSUME TypeOK, AllChecked, NEW n \in Names, NEW o \in Object, Checked(o), Put(n, o),
         UNCHANGED <<cfgC, gconf>>, copy' = copy \/ copy' = NoObj
  PROVE  AllChecked'
  <1>1. /\ cfg'[n] = [o EXCEPT !.rv = cfg[n].rv + 1] /\ cfg'[n] \in Object
        /\ cfgQ'[n] = Append(cfgQ[n], cfg'[n])
        /\ \A m \in Names \ {n} : cfg'[m] = cfg[m] /\ cfgQ'[m] = cfgQ[m]
    BY PutFacts DEF TypeOK
  <1>2. Checked(cfg'[n])
    <2>1. cfg'[n].stored = o.stored /\ cfg'[n].spec = o.spec
      BY <1>1 DEF Object
    <2>2. QED
      BY <2>1 DEF Checked
  <1>3. cfgQ[n] \in Seq(Object)
    BY DEF TypeOK
  <1>4. \A i \in 1..Len(cfgQ'[n]) : Checked(cfgQ'[n][i])
    <2> TAKE i \in 1..Len(cfgQ'[n])
    <2>1. i \in 1..Len(cfgQ[n]) \/ i = Len(cfgQ[n]) + 1
      BY <1>1, <1>3, AppendEvent
    <2>2. i \in 1..Len(cfgQ[n]) => cfgQ'[n][i] = cfgQ[n][i] /\ Checked(cfgQ[n][i])
      BY <1>1, <1>3, AppendEvent DEF AllChecked
    <2>3. i = Len(cfgQ[n]) + 1 => cfgQ'[n][i] = cfg'[n]
      BY <1>1, <1>3, AppendEvent
    <2>4. QED
      BY <1>2, <2>1, <2>2, <2>3, Zenon
  <1>5. ASSUME NEW m \in Names
        PROVE  /\ Checked(cfg'[m]) /\ Checked(cfgC'[m])
               /\ \A i \in 1..Len(cfgQ'[m]) : Checked(cfgQ'[m][i])
    <2>1. Checked(cfgC'[m])
      BY DEF AllChecked
    <2>2. CASE m = n
      BY <2>1, <2>2, <1>2, <1>4
    <2>3. CASE m # n
      BY <2>1, <2>3, <1>1 DEF AllChecked
    <2>4. QED
      BY <2>2, <2>3
  <1>6. Checked(copy')
    BY NoObjType DEF AllChecked, Checked
  <1>7. gconf' = NewConfig \/ Validate(gconf'.spec)
    BY DEF AllChecked
  <1>8. QED
    BY <1>5, <1>6, <1>7 DEF AllChecked, Checked

\* Initially nothing is stored.
LEMMA CheckedInit == Init => AllChecked
  <1> SUFFICES ASSUME Init PROVE AllChecked
    OBVIOUS
  <1>1. \A n \in Names : cfg[n] = NoObj /\ cfgC[n] = NoObj /\ cfgQ[n] = <<>>
    BY DEF Init
  <1>2. Checked(NoObj)
    BY NoObjType DEF Checked
  <1>3. QED
    BY <1>1, <1>2 DEF AllChecked, Init

\* Every step holds objects that passed Validate.
LEMMA CheckedStep ==
  ASSUME TypeInv, AllChecked, [Next]_vars
  PROVE  AllChecked'
  <1>1. TypeOK
    BY DEF TypeInv
  <1>2. CASE UNCHANGED <<cfg, cfgC, cfgQ, gconf>> /\ (copy' = copy \/ copy' = NoObj)
    <2>1. Checked(copy)'
      BY <1>2, NoObjType DEF AllChecked, Checked
    <2>2. QED
      BY <1>2, <2>1 DEF AllChecked, Checked
  <1>3. ASSUME NEW n \in Names, User(n) PROVE AllChecked'
    BY <1>1, <1>3, UserWrites, PutChecked
  <1>4. ASSUME NEW n \in Names, Deliver(n) PROVE AllChecked'
    <2>1. ASSUME NEW m \in Names
          PROVE  /\ Checked(cfg'[m]) /\ Checked(cfgC'[m])
                 /\ \A i \in 1..Len(cfgQ'[m]) : Checked(cfgQ'[m][i])
      <3>1. CASE m = n
        BY <1>1, <1>4, <3>1, DeliverFacts DEF AllChecked
      <3>2. CASE m # n
        BY <1>1, <1>4, <3>2, DeliverFacts DEF AllChecked
      <3>3. QED
        BY <3>1, <3>2
    <2>2. QED
      BY <1>4, <2>1 DEF Deliver, AllChecked, Checked
  <1>5. ASSUME NEW n \in Names, Reconcile(n) PROVE AllChecked'
    <2>1. UNCHANGED <<cfg, cfgC, cfgQ>>
      BY <1>5 DEF Reconcile
    <2>2. CASE UNCHANGED <<gconf, copy>>
      BY <2>1, <2>2, <1>2
    <2>3. CASE cfgC[n].stored /\ gconf' = [spec |-> cfgC[n].spec, gen |-> cfgC[n].gen]
               /\ copy' = cfgC[n]
      BY <2>1, <2>3 DEF AllChecked, Checked
    <2>4. QED
      BY <1>5, <2>2, <2>3 DEF Reconcile, Set
  <1>6. CASE UpdateStatus
    <2> DEFINE o == [cfg[Target] EXCEPT !.obs = gconf.gen]
    <2>1. UNCHANGED <<cfgC, gconf>> /\ copy' = NoObj
      BY <1>6 DEF UpdateStatus
    <2>2. CASE UNCHANGED <<cfg, cfgQ>>
      BY <2>1, <2>2, <1>2
    <2>3. CASE Put(Target, o)
      <3>1. o \in Object /\ o.stored = cfg[Target].stored /\ o.spec = cfg[Target].spec
        BY <1>1, ConfigAssumption DEF TypeOK, Object
      <3>2. Checked(o)
        BY <3>1, ConfigAssumption DEF AllChecked, Checked
      <3>3. QED
        BY <1>1, <2>1, <2>3, <3>1, <3>2, PutChecked, ConfigAssumption
    <2>4. QED
      BY <1>6, <2>2, <2>3 DEF UpdateStatus
  <1>7. CASE UpdateStatusFails \/ Resync \/ UNCHANGED vars
    BY <1>2, <1>7 DEF UpdateStatusFails, Resync, vars
  <1>8. CASE Crash
    <2>1. cfgC' = cfg /\ cfg' = cfg /\ \A n \in Names : cfgQ'[n] = <<>> /\ Len(cfgQ'[n]) = 0
      BY <1>8 DEF Crash
    <2>2. gconf' = NewConfig /\ Checked(copy')
      BY <1>8, NoObjType DEF Crash, Checked
    <2>3. QED
      BY <2>1, <2>2 DEF AllChecked, Checked
  <1>9. QED
    BY <1>3, <1>4, <1>5, <1>6, <1>7, <1>8 DEF Next

\* A spec that passed Validate, and the application's defaults, have the
\* pointers set that PointersSet is about.
LEMMA CheckedPointers == AllChecked => PointersSet
  <1>1. Validate(gconf.spec) => PointersSet
    <2>1. /\ \A f \in Followed \ MayBeNil : f \in {"SFTPSever", "SideCarHookImg", "PVCStorageClass"}
          /\ \A f \in Parsed : \/ f \in {"SFTPSever", "VXLANGrpAddr", "SideCarHookImg"}
                               \/ f \in {"SRCPMLoaderImage", "SRIOMLoaderImage"}
      BY DEF Followed, MayBeNil, Parsed
    <2>2. QED
      BY <2>1 DEF Validate, Given, PointersSet
  <1>2. gconf = NewConfig => PointersSet
    BY DEF NewConfig, DefKNLConfig, Fields, PointersSet
  <1>3. QED
    BY <1>1, <1>2 DEF AllChecked

\* At any time, before a KNLConfig is loaded and after a restart too, GCONF has
\* the pointers set that have an application default; once one is loaded, of
\* the pointers that a reconcile follows without looking only the VXLAN device
\* and the two loader images may be nil, and what Validate parses is well-formed.
THEOREM PointersSetTheorem == Spec => []PointersSet
  <1>1. TypeInv /\ AllChecked /\ [Next]_vars => TypeInv' /\ AllChecked'
    BY TypeStep, CheckedStep
  <1>2. QED
    BY TypeInit, CheckedInit, CheckedPointers, <1>1, PTL DEF Spec

-----------------------------------------------------------------------------
(* The status *)

\* What is known of the target has a version.
LEMMA VersionTypes ==
  ASSUME TypeOK
  PROVE  /\ cfg[Target] \in Object /\ cfg[Target].rv \in Nat
         /\ cfgC[Target] \in Object /\ cfgC[Target].rv \in Nat
         /\ cfgQ[Target] \in Seq(Object) /\ Len(cfgQ[Target]) \in Nat
         /\ \A i \in 1..Len(cfgQ[Target]) : cfgQ[Target][i].rv \in Nat
         /\ copy \in Object /\ copy.rv \in Nat
  <1>1. /\ cfg[Target] \in Object /\ cfgC[Target] \in Object /\ copy \in Object
        /\ cfgQ[Target] \in Seq(Object)
    BY ConfigAssumption DEF TypeOK
  <1>2. \A i \in 1..Len(cfgQ[Target]) : cfgQ[Target][i] \in Object
    BY <1>1
  <1>3. \A o \in Object : o.rv \in Nat
    BY DEF Object
  <1>4. Len(cfgQ[Target]) \in Nat
    BY <1>1
  <1>5. QED
    BY <1>1, <1>2, <1>3, <1>4, Zenon

\* A new version of the target is stored.
LEMMA PutVersion ==
  ASSUME TypeOK, Versions, NEW o \in Object, Put(Target, o), cfgC' = cfgC
  PROVE  /\ Versions'
         /\ cfg'[Target].rv = cfg[Target].rv + 1 /\ cfg[Target].rv \in Nat
         /\ cfg'[Target].stored = o.stored /\ cfg'[Target].gen = o.gen
         /\ cfg'[Target].obs = o.obs /\ cfg'[Target].spec = o.spec
         /\ Len(cfgQ[Target]) \in Nat /\ Len(cfgQ'[Target]) = Len(cfgQ[Target]) + 1
         /\ \A i \in 1..Len(cfgQ[Target]) : cfgQ'[Target][i] = cfgQ[Target][i]
         /\ cfgQ'[Target][Len(cfgQ[Target]) + 1] = cfg'[Target]
  <1> DEFINE q == cfgQ[Target]
             e == cfg'[Target]
  <1>1. /\ e = [o EXCEPT !.rv = cfg[Target].rv + 1] /\ e \in Object
        /\ cfgQ'[Target] = Append(q, e) /\ q \in Seq(Object)
        /\ cfg[Target] \in Object /\ cfgC[Target] \in Object
    BY PutFacts, ConfigAssumption DEF TypeOK
  <1>2. /\ e.rv = cfg[Target].rv + 1 /\ cfg[Target].rv \in Nat /\ cfgC[Target].rv \in Nat
        /\ e.stored = o.stored /\ e.gen = o.gen /\ e.obs = o.obs /\ e.spec = o.spec
    BY <1>1 DEF Object
  <1>3. /\ cfgQ'[Target] # <<>>
        /\ Len(q) \in Nat /\ Len(cfgQ'[Target]) = Len(q) + 1
        /\ \A i \in 1..Len(q) : cfgQ'[Target][i] = q[i]
        /\ cfgQ'[Target][Len(q) + 1] = e
    BY <1>1, AppendEvent
  <1>4. \A i \in 1..Len(q) : q[i].rv \in Nat
    BY VersionTypes
  <1>5. \A i \in 1..Len(q) + 1 : i \in 1..Len(q) \/ i = Len(q) + 1
    BY <1>3
  <1>6. Versions'
    <2> DEFINE r == cfgQ'[Target]
    <2>1. \A i \in 1..Len(q) : cfgC[Target].rv < q[i].rv /\ q[i].rv <= cfg[Target].rv
      BY DEF Versions
    <2>2. \A i, j \in 1..Len(q) : i < j => q[i].rv < q[j].rv
      BY DEF Versions
    <2>3. cfgC[Target].rv < e.rv /\ cfgC[Target].rv <= e.rv
      BY <1>2 DEF Versions
    <2>4. \A i \in 1..Len(q) : /\ cfgC[Target].rv < q[i].rv
                                 /\ q[i].rv < e.rv /\ q[i].rv <= e.rv
      BY <1>2, <1>4, <2>1
    <2> HIDE DEF e
    <2>5. \A i \in 1..Len(r) : cfgC[Target].rv < r[i].rv /\ r[i].rv <= e.rv
      <3> TAKE i \in 1..Len(r)
      <3>1. CASE i \in 1..Len(q)
        BY <3>1, <1>3, <2>4
      <3>2. CASE i = Len(q) + 1
        BY <3>2, <1>2, <1>3, <2>3
      <3>3. QED
        BY <1>3, <1>5, <3>1, <3>2
    <2>6. \A i, j \in 1..Len(r) : i < j => r[i].rv < r[j].rv
      <3> TAKE i, j \in 1..Len(r)
      <3>1. CASE i \in 1..Len(q) /\ j \in 1..Len(q)
        BY <3>1, <1>3, <2>2
      <3>2. CASE i \in 1..Len(q) /\ j = Len(q) + 1
        BY <3>2, <1>3, <2>4
      <3>3. QED
        BY <1>3, <1>5, <3>1, <3>2
    <2>7. r[Len(r)] = e
      BY <1>3
    <2>8. QED
      BY <1>3, <2>3, <2>5, <2>6, <2>7 DEF Versions, e
  <1>7. QED
    BY <1>2, <1>3, <1>6

\* What a step on another name leaves alone.
LEMMA SameTarget ==
  ASSUME StatusInv, cfg'[Target] = cfg[Target], cfgC'[Target] = cfgC[Target],
         cfgQ'[Target] = cfgQ[Target], UNCHANGED gconf, copy' = copy \/ copy' = NoObj
  PROVE  StatusInv'
  <1>1. Versions' /\ ObsBounded'
    BY DEF StatusInv, Versions, ObsBounded
  <1>2. CopyInForce'
    BY NoObjType DEF StatusInv, CopyInForce
  <1>3. Observed'
    BY DEF StatusInv, Observed, Current
  <1>4. QED
    BY <1>1, <1>2, <1>3 DEF StatusInv

\* The user's writes: of all of them only one that changes neither the spec
\* nor the generation leaves an object whose generation has been observed.
LEMMA UserStatus ==
  ASSUME TypeInv, AllChecked, StatusInv, NEW n \in Names, User(n)
  PROVE  StatusInv'
  <1>1. TypeOK /\ Target \in Names /\ cfg[Target] \in Object
    BY ConfigAssumption DEF TypeInv, TypeOK
  <1>2. UNCHANGED <<cfgC, gconf, queue, copy>>
    BY UserWrites
  <1>3. PICK o \in Object : Put(n, o) /\ Successor(o, n)
    BY UserWrites
  <1>4. CASE n # Target
    BY <1>1, <1>2, <1>3, <1>4, PutFacts, SameTarget DEF TypeOK
  <1>5. CASE n = Target
    <2>1. Put(Target, o) /\ Successor(o, Target) /\ Versions /\ cfgC' = cfgC
      BY <1>2, <1>3, <1>5 DEF StatusInv
    <2>2. /\ Versions'
          /\ cfg'[Target].rv = cfg[Target].rv + 1 /\ cfg[Target].rv \in Nat
          /\ cfg'[Target].stored = o.stored /\ cfg'[Target].gen = o.gen
          /\ cfg'[Target].obs = o.obs /\ cfg'[Target].spec = o.spec
          /\ Len(cfgQ[Target]) \in Nat /\ Len(cfgQ'[Target]) = Len(cfgQ[Target]) + 1
          /\ \A i \in 1..Len(cfgQ[Target]) : cfgQ'[Target][i] = cfgQ[Target][i]
          /\ cfgQ'[Target][Len(cfgQ[Target]) + 1] = cfg'[Target]
      BY <1>1, <2>1, PutVersion
    <2>3. cfg[Target].gen \in Nat /\ cfg[Target].obs \in Nat
      BY <1>1 DEF Object
    <2>4. CopyInForce'
      BY <1>2 DEF StatusInv, CopyInForce
    <2>5. ObsBounded'
      <3>1. cfg[Target].stored => cfg[Target].gen >= 1 /\ cfg[Target].obs <= cfg[Target].gen
        BY DEF StatusInv, ObsBounded
      <3>2. o.stored => o.gen >= 1 /\ o.obs <= o.gen
        BY <2>1, <2>3, <3>1 DEF Successor
      <3>3. QED
        BY <2>2, <3>2 DEF ObsBounded
    <2>6. Observed'
      <3> SUFFICES ASSUME o.stored, o.obs = o.gen
                   PROVE  /\ Current(cfgC[Target])'
                          /\ \A i \in 1..Len(cfgQ'[Target]) : Current(cfgQ[Target][i])'
                          /\ gconf'.gen # 0 => gconf'.spec = cfg'[Target].spec
        BY <2>2 DEF Observed
      <3>1. o = cfg[Target] /\ cfg[Target].stored
        BY <2>1, <2>3 DEF Successor, StatusInv, ObsBounded
      <3>2. /\ Current(cfgC[Target])
            /\ \A i \in 1..Len(cfgQ[Target]) : Current(cfgQ[Target][i])
            /\ gconf.gen # 0 => gconf.spec = cfg[Target].spec
        BY <3>1 DEF StatusInv, Observed
      <3>3. Current(cfgC[Target])' /\ (gconf'.gen # 0 => gconf'.spec = cfg'[Target].spec)
        BY <1>2, <2>2, <3>1, <3>2 DEF Current
      <3>4. \A i \in 1..Len(cfgQ'[Target]) : Current(cfgQ[Target][i])'
        <4> TAKE i \in 1..Len(cfgQ'[Target])
        <4>1. i \in 1..Len(cfgQ[Target]) \/ i = Len(cfgQ[Target]) + 1
          BY <2>2
        <4>2. QED
          BY <4>1, <2>2, <3>1, <3>2 DEF Current
      <3>5. QED
        BY <3>3, <3>4
    <2>7. QED
      BY <2>2, <2>4, <2>5, <2>6 DEF StatusInv
  <1>6. QED
    BY <1>4, <1>5

\* An event arrives.
LEMMA DeliverStatus ==
  ASSUME TypeOK, StatusInv, NEW n \in Names, Deliver(n)
  PROVE  StatusInv'
  <1>1. CASE n # Target
    BY <1>1, DeliverFacts, SameTarget, ConfigAssumption
  <1>2. CASE n = Target
    <2> DEFINE q == cfgQ[Target]
               r == cfgQ'[Target]
    <2>1. /\ q \in Seq(Object) /\ Len(q) \in Nat /\ Len(q) >= 1
          /\ cfgC'[Target] = q[1] /\ Len(r) = Len(q) - 1
          /\ \A i \in 1..Len(r) : i + 1 \in 1..Len(q) /\ r[i] = q[i + 1]
          /\ r = <<>> <=> Len(q) = 1
          /\ UNCHANGED <<cfg, gconf, copy>>
      BY <1>2, DeliverFacts
    <2>2. 1 \in 1..Len(q) /\ q # <<>>
      BY <2>1
    <2>3. /\ q[Len(q)] = cfg[Target]
          /\ \A i \in 1..Len(q) : cfgC[Target].rv < q[i].rv /\ q[i].rv <= cfg[Target].rv
          /\ \A i, j \in 1..Len(q) : i < j => q[i].rv < q[j].rv
      BY <2>2 DEF StatusInv, Versions
    <2>4. Versions'
      <3>1. r = <<>> => cfgC'[Target] = cfg'[Target]
        BY <2>1, <2>3
      <3>2. r # <<>> => r[Len(r)] = cfg'[Target]
        BY <2>1, <2>3
      <3>3. cfgC'[Target].rv <= cfg'[Target].rv
        BY <2>1, <2>2, <2>3
      <3>4. \A i \in 1..Len(r) : cfgC'[Target].rv < r[i].rv /\ r[i].rv <= cfg'[Target].rv
        BY <2>1, <2>2, <2>3
      <3>5. \A i, j \in 1..Len(r) : i < j => r[i].rv < r[j].rv
        BY <2>1, <2>2, <2>3
      <3>6. QED
        BY <3>1, <3>2, <3>3, <3>4, <3>5 DEF Versions
    <2>5. CopyInForce'
      <3> SUFFICES ASSUME copy.stored
                   PROVE  /\ gconf' = [spec |-> copy.spec, gen |-> copy.gen]
                          /\ copy.rv < cfgC'[Target].rv
                          /\ copy.rv <= cfgC'[Target].rv /\ copy.rv # cfgC'[Target].rv
        BY <2>1 DEF CopyInForce
      <3>1. /\ gconf = [spec |-> copy.spec, gen |-> copy.gen]
            /\ copy.rv <= cfgC[Target].rv
        BY DEF StatusInv, CopyInForce
      <3>2. copy.rv \in Nat /\ cfgC[Target].rv \in Nat /\ q[1].rv \in Nat
        BY <2>2, VersionTypes
      <3>3. QED
        BY <2>1, <2>2, <2>3, <3>1, <3>2
    <2>6. Observed' /\ ObsBounded'
      BY <2>1, <2>2 DEF StatusInv, Observed, ObsBounded, Current
    <2>7. QED
      BY <2>4, <2>5, <2>6 DEF StatusInv
  <1>3. QED
    BY <1>1, <1>2

\* A reconcile puts the cached object in force, which is the stored one when
\* that says that it has been observed.
LEMMA ReconcileStatus ==
  ASSUME TypeOK, StatusInv, NEW n \in Names, Reconcile(n)
  PROVE  StatusInv'
  <1>1. UNCHANGED <<cfg, cfgC, cfgQ>>
    BY DEF Reconcile
  <1>2. CASE UNCHANGED <<gconf, copy>>
    BY <1>1, <1>2, SameTarget
  <1>3. CASE /\ gconf' = [spec |-> cfgC[Target].spec, gen |-> cfgC[Target].gen]
             /\ copy' = cfgC[Target]
    <2>1. Versions' /\ ObsBounded'
      BY <1>1 DEF StatusInv, Versions, ObsBounded
    <2>2. CopyInForce'
      <3>1. cfgC[Target].rv <= cfgC[Target].rv
        BY VersionTypes
      <3>2. QED
        BY <1>1, <1>3, <3>1 DEF CopyInForce
    <2>3. Observed'
      BY <1>1, <1>3 DEF StatusInv, Observed, Current
    <2>4. QED
      BY <2>1, <2>2, <2>3 DEF StatusInv
  <1>4. QED
    BY <1>2, <1>3 DEF Reconcile, Set

\* A status update that is accepted is of the stored object, and nothing is
\* under way.
LEMMA AcceptedCopy ==
  ASSUME TypeOK, StatusInv, copy.stored, cfg[Target].rv = copy.rv
  PROVE  copy = cfg[Target] /\ cfgC[Target] = cfg[Target] /\ cfgQ[Target] = <<>>
         /\ gconf = [spec |-> copy.spec, gen |-> copy.gen]
  <1> DEFINE q == cfgQ[Target]
  <1>1. q \in Seq(Object) /\ cfg[Target].rv \in Nat /\ cfgC[Target].rv \in Nat
        /\ \A i \in 1..Len(q) : q[i].rv \in Nat
    BY VersionTypes
  <1>2. cfgC[Target].rv = cfg[Target].rv /\ copy = cfgC[Target]
        /\ gconf = [spec |-> copy.spec, gen |-> copy.gen]
    BY <1>1 DEF StatusInv, CopyInForce, Versions
  <1>3. q = <<>>
    <2>1. SUFFICES ASSUME q # <<>> PROVE FALSE
      OBVIOUS
    <2>2. 1 \in 1..Len(q)
      BY <1>1, <2>1
    <2>3. cfgC[Target].rv < q[1].rv /\ q[1].rv <= cfg[Target].rv
      BY <2>2 DEF StatusInv, Versions
    <2>4. QED
      BY <1>1, <1>2, <2>2, <2>3
  <1>4. QED
    BY <1>2, <1>3 DEF StatusInv, Versions

\* The status reports the generation of the object that was put in force.
LEMMA UpdateStatusStep ==
  ASSUME TypeOK, StatusInv, UpdateStatus
  PROVE  StatusInv'
  <1> DEFINE o == [cfg[Target] EXCEPT !.obs = gconf.gen]
  <1>1. UNCHANGED <<cfgC, gconf>> /\ copy' = NoObj /\ copy.stored
    BY DEF UpdateStatus
  <1>2. CASE UNCHANGED <<cfg, cfgQ>>
    BY <1>1, <1>2, SameTarget
  <1>3. CASE Put(Target, o) /\ cfg[Target].rv = copy.rv /\ cfg[Target].stored
    <2>1. /\ copy = cfg[Target] /\ cfgC[Target] = cfg[Target] /\ cfgQ[Target] = <<>>
          /\ gconf = [spec |-> copy.spec, gen |-> copy.gen]
      BY <1>1, <1>3, AcceptedCopy
    <2>2. o \in Object /\ o.stored = cfg[Target].stored /\ o.spec = cfg[Target].spec
          /\ o.gen = cfg[Target].gen /\ o.obs = cfg[Target].gen
      BY <2>1, ConfigAssumption DEF TypeOK, Object
    <2>3. /\ Versions'
          /\ cfg'[Target].stored = o.stored /\ cfg'[Target].gen = o.gen
          /\ cfg'[Target].obs = o.obs /\ cfg'[Target].spec = o.spec
          /\ Len(cfgQ'[Target]) = Len(cfgQ[Target]) + 1
          /\ cfgQ'[Target][Len(cfgQ[Target]) + 1] = cfg'[Target]
      BY <1>1, <1>3, <2>2, PutVersion DEF StatusInv
    <2>4. Len(cfgQ'[Target]) = 1 /\ cfgQ'[Target][1] = cfg'[Target]
      BY <2>1, <2>3
    <2>5. CopyInForce'
      BY <1>1, NoObjType DEF CopyInForce
    <2>6. Observed'
      BY <1>1, <1>3, <2>1, <2>2, <2>3, <2>4 DEF Observed, Current
    <2>7. ObsBounded'
      <3>1. cfg[Target].gen >= 1 /\ cfg[Target].gen \in Nat
        BY <1>3, ConfigAssumption DEF StatusInv, ObsBounded, TypeOK, Object
      <3>2. QED
        BY <2>2, <2>3, <3>1 DEF ObsBounded
    <2>8. QED
      BY <2>3, <2>5, <2>6, <2>7 DEF StatusInv
  <1>4. QED
    BY <1>2, <1>3 DEF UpdateStatus

\* Initially there is no object.
LEMMA StatusInit == Init => StatusInv
  <1> SUFFICES ASSUME Init PROVE StatusInv
    OBVIOUS
  <1>1. /\ cfg[Target] = NoObj /\ cfgC[Target] = NoObj /\ cfgQ[Target] = <<>>
        /\ Len(cfgQ[Target]) = 0 /\ copy = NoObj
    BY ConfigAssumption DEF Init
  <1>2. NoObj.rv <= NoObj.rv
    BY NoObjType
  <1>3. QED
    BY <1>1, <1>2, NoObjType DEF StatusInv, Versions, CopyInForce, Observed, ObsBounded

\* A restart forgets what was in force and lists what is stored.
LEMMA CrashStatus ==
  ASSUME TypeOK, StatusInv, Crash
  PROVE  StatusInv'
  <1>1. /\ cfg' = cfg /\ cfgC' = cfg /\ cfgQ'[Target] = <<>> /\ Len(cfgQ'[Target]) = 0
        /\ copy' = NoObj /\ gconf'.gen = 0
    BY ConfigAssumption DEF Crash, NewConfig
  <1>2. cfg[Target].rv <= cfg[Target].rv
    BY ConfigAssumption DEF TypeOK, Object
  <1>3. Versions' /\ CopyInForce' /\ ObsBounded'
    BY <1>1, <1>2, NoObjType DEF StatusInv, Versions, CopyInForce, ObsBounded
  <1>4. Observed'
    BY <1>1 DEF Observed, Current
  <1>5. QED
    BY <1>3, <1>4 DEF StatusInv

\* Every step keeps the status truthful.
LEMMA StatusStep ==
  ASSUME TypeInv, AllChecked, StatusInv, [Next]_vars
  PROVE  StatusInv'
  <1>1. TypeOK
    BY DEF TypeInv
  <1>2. CASE UpdateStatusFails \/ Resync \/ UNCHANGED vars
    BY <1>2, SameTarget DEF UpdateStatusFails, Resync, vars
  <1>3. QED
    BY <1>1, <1>2, UserStatus, DeliverStatus, ReconcileStatus, UpdateStatusStep, CrashStatus
       DEF Next

\* When the stored KNLConfig says that its generation has been observed, GCONF
\* holds its spec, unless the process has just started: over the Set of an old
\* cached object, status updates that race with the user, restarts, and
\* generations that start again with a new object.
THEOREM StatusTruthfulTheorem == Spec => []StatusTruthful
  <1>1. TypeInv /\ AllChecked /\ StatusInv /\ [Next]_vars
          => TypeInv' /\ AllChecked' /\ StatusInv'
    BY TypeStep, CheckedStep, StatusStep
  <1>2. StatusInv => StatusTruthful
    BY DEF StatusInv, Observed, StatusTruthful
  <1>3. QED
    BY TypeInit, CheckedInit, StatusInit, <1>1, <1>2, PTL DEF Spec

=============================================================================
