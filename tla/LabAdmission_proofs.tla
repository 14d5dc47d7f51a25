------------------------- MODULE LabAdmission_proofs -------------------------
(***************************************************************************)
(* Proofs about LabAdmission for any manifests, configurations and node    *)
(* names, and any number of Labs, requests, loads and restarts: what is    *)
(* stored is fit to be used, and the operator's own updates pass.          *)
(***************************************************************************)
EXTENDS LabAdmission, FiniteSetTheorems, TLAPS

-----------------------------------------------------------------------------
(* What the theorems ask of the users *)

\* An SR VM whose type is given has a name of that type.
NamedAfterType ==
  \A l \in Labs : \A m \in Manifests[l] : \A n \in DOMAIN m.nodes :
    m.nodes[n].type \in SRVMs => TypeOf[n] = m.nodes[n].type

\* No configuration has a default where the application has none, but for
\* the fields that Validate asks for.
NoNewDefault ==
  \A c \in Configs : \A t \in Types : \A f \in {"opt", "model", "info", "mac"} :
    DefKNLConfig[t][f] = Nil => c[t][f] = Nil

-----------------------------------------------------------------------------
(* The inductive invariants *)

\* Two Cards maps with the same slots.
SameCards(p, q) == (p = Nil <=> q = Nil) /\ (p # Nil => DOMAIN p[1] = DOMAIN q[1])

\* The nodes of the SR types have a chassis.
HasChassis(node) == node.type \in SRTypes => node.model # Nil /\ node.info # Nil

\* A configuration like DefKNLConfig in what it has.
IsConfig(c) ==
  /\ c \in [Types -> NodeRecs(Types)]
  /\ \A t \in SRTypes : c[t].model # Nil /\ c[t].info # Nil

\* GCONF and the cards that go with it.
GconfInv ==
  /\ IsConfig(gconf)
  /\ heap # <<>> /\ \A t \in Types : SameCards(gconf[t].info, heap[Len(heap)][t])

\* SysInfo of a card for the request r.
CardInfo(r, h, n, s) ==
  IF r.shared[n] = 0 THEN r.spec.nodes[n].info[1][s]
                     ELSE h[r.shared[n]][r.spec.nodes[n].type][1][s]

\* The nodes of the links are there, and the CPMs.
Closed(nodes) ==
  /\ \A c \in Conns : NodeAt(c) \in DOMAIN nodes
  /\ \A n \in DOMAIN nodes : CPMName[n] \in DOMAIN nodes

\* What FillDefaultVal has yet to do is cards of SR VMs, one at a time ...
Pending(r) ==
  /\ \A n \in r.nodes : n \in DOMAIN r.spec.nodes /\ r.spec.nodes[n].type \in SRVMs
  /\ \A n \in Names, s \in Slots : <<n, s>> \in r.todo \cup r.write =>
       /\ n \in DOMAIN r.spec.nodes /\ r.spec.nodes[n].type \in SRVMs
       /\ s \in DOMAIN r.spec.nodes[n].info[1]
  /\ \A x, y \in r.write : x = y

\* ... and what it is done with has its SysInfo.
Filled(r, h) ==
  \A n \in DOMAIN r.spec.nodes \ r.nodes :
    r.spec.nodes[n].type \in SRVMs /\ ChassisValid(r.spec.nodes[n]) =>
      \A s \in DOMAIN r.spec.nodes[n].info[1] :
        <<n, s>> \in r.todo \cup r.write \/ CardInfo(r, h, n, s) # Nil

\* A request after LoadDef.
FillInv(r, h) ==
  /\ Closed(r.spec.nodes) /\ Pending(r) /\ Filled(r, h)
  /\ \A c \in Conns : r.spec.mac[c] # Nil
  /\ \A n \in DOMAIN r.spec.nodes :
       /\ HasChassis(r.spec.nodes[n])
       /\ r.shared[n] # 0 => SameCards(r.spec.nodes[n].info,
                                      h[r.shared[n]][r.spec.nodes[n].type])

\* A spec that Default leaves as it is, but for new defaults.
Settled(spec) ==
  /\ Valid(spec) /\ ~Panics(spec.nodes) /\ Closed(spec.nodes)
  /\ \A n \in DOMAIN spec.nodes :
       /\ HasChassis(spec.nodes[n])
       /\ TypeOf[n] \in SRTypes => spec.nodes[n].mac # Nil
       /\ spec.nodes[n].type \in SRVMs =>
            \A s \in DOMAIN spec.nodes[n].info[1] : spec.nodes[n].info[1][s] # Nil
  /\ \A c \in Conns : /\ spec.mac[c] # Nil
                      /\ TypeOf[NodeAt(c)] \in SRVMs => spec.port[c] # Nil

LabInv(o) ==
  /\ o \in [ph : Phase, rv : Nat, spec : {o.spec}] /\ IsSpec(o.spec, Types)
  /\ IF Exists(o) THEN Settled(o.spec) ELSE o.spec = NoSpec

RequestInv(r, h) ==
  /\ IsRequest(r, Len(h))
  /\ IF r.step = "fill" THEN FillInv(r, h) ELSE r.todo = {} /\ r.write = {}

AdmissionInv ==
  /\ lab = [l \in Labs |-> lab[l]] /\ \A l \in Labs : LabInv(lab[l])
  /\ req = [l \in Labs |-> req[l]] /\ \A l \in Labs : RequestInv(req[l], heap)
  /\ heap \in Seq([Types -> Infos]) /\ GconfInv
  /\ writes \in 0..MaxWrite /\ loads \in 0..MaxLoad /\ crashes \in 0..MaxCrash

\* SR VMs are named after their type, in all specs.
Named(spec) ==
  \A n \in DOMAIN spec.nodes : spec.nodes[n].type \in SRVMs => TypeOf[n] = spec.nodes[n].type

NamedInv == \A l \in Labs : Named(lab[l].spec) /\ Named(req[l].spec)

\* A Lab being created has the MACs that are given at first, then distinct
\* ones for the other connectors; GCONF has those of the configurations.
ConnMacsDistinct(spec, l) ==
  \A c, d \in Conns :
    c # d /\ spec.mac[c] = spec.mac[d] => spec.mac[c] \in LinkMacsGiven(l)

ConfigMacs == {Nil} \cup (UNION {{c[t].mac : t \in Types} : c \in Configs})

MacInv ==
  /\ MacsDistinct
  /\ \A t \in Types : gconf[t].mac \in ConfigMacs
  /\ \A l \in Labs : req[l].kind = "create" =>
       /\ \A n \in DOMAIN req[l].spec.nodes :
            req[l].spec.nodes[n].mac \in ChassisMacsGiven(l) \cup {Nil}
       /\ req[l].step = "default" =>
            \A c \in Conns : req[l].spec.mac[c] \in LinkMacsGiven(l) \cup {Nil}
       /\ req[l].step = "fill" => ConnMacsDistinct(req[l].spec, l)

\* The operator's update of a Lab that has not changed since has its spec at
\* every step, and shares no cards.
OperatorInv ==
  /\ \A t \in Types : \A f \in {"opt", "model", "info", "mac"} :
       DefKNLConfig[t][f] = Nil => gconf[t][f] = Nil
  /\ \A l \in Labs : req[l].kind = "finalizer" =>
       /\ req[l].rv <= lab[l].rv
       /\ req[l].rv = lab[l].rv =>
            /\ lab[l].ph \in {"bare", "dying"} /\ req[l].spec = lab[l].spec
            /\ req[l].write = {}
            /\ req[l].step = "fill" => \A n \in DOMAIN req[l].spec.nodes :
                 req[l].spec.nodes[n].info # Nil => req[l].shared[n] = 0

-----------------------------------------------------------------------------
(* Pointers *)

LEMMA NilPtr ==
  ASSUME NEW S
  PROVE  Nil \in Ptr(S)
BY DEF Ptr

LEMMA RefPtr ==
  ASSUME NEW S, NEW v \in S
  PROVE  Ref(v) \in Ptr(S)
BY DEF Ptr

LEMMA RefVal ==
  ASSUME NEW v
  PROVE  Ref(v) # Nil /\ Ref(v)[1] = v
BY DEF Ref, Nil

LEMMA RefEq ==
  ASSUME NEW v, NEW w, Ref(v) = Ref(w)
  PROVE  v = w
BY RefVal

LEMMA PtrVal ==
  ASSUME NEW S, NEW p \in Ptr(S), p # Nil
  PROVE  p[1] \in S /\ p = Ref(p[1])
<1>1. PICK v \in S : p = Ref(v)
  BY DEF Ptr
<1>2. QED
  BY <1>1, RefVal

LEMMA PtrMonotone ==
  ASSUME NEW S, NEW T, S \subseteq T, NEW p \in Ptr(S)
  PROVE  p \in Ptr(T)
BY DEF Ptr

\* Or is the first pointer that is not nil.
LEMMA OrPtr ==
  ASSUME NEW S, NEW p \in Ptr(S), NEW q \in Ptr(S)
  PROVE  /\ Or(p, q) \in Ptr(S)
         /\ Or(p, q) = Nil <=> p = Nil /\ q = Nil
         /\ p # Nil => Or(p, q) = p
BY DEF Or

-----------------------------------------------------------------------------
(* Cards *)

SI == Ptr(Models \cup {"user"})

LEMMA InfoVal ==
  ASSUME NEW p \in Infos, p # Nil
  PROVE  /\ p = Ref(p[1]) /\ DOMAIN p[1] \subseteq Slots
         /\ p[1] \in [DOMAIN p[1] -> SI]
<1>1. p = Ref(p[1]) /\ p[1] \in UNION {[S -> SI] : S \in SUBSET Slots}
  BY PtrVal DEF Infos, SI
<1>2. PICK S \in SUBSET Slots : p[1] \in [S -> SI]
  BY <1>1
<1>3. QED
  BY <1>1, <1>2

LEMMA InfoRef ==
  ASSUME NEW S, S \subseteq Slots, NEW f \in [S -> SI]
  PROVE  Ref(f) \in Infos
<1>1. f \in UNION {[T -> SI] : T \in SUBSET Slots}
  OBVIOUS
<1>2. QED
  BY <1>1, RefPtr DEF Infos, SI

\* Writing the SysInfo v of the card s: the cards q are p but for it.
CardWritten(q, p, s, v) ==
  /\ q \in Infos /\ q # Nil /\ DOMAIN q[1] = DOMAIN p[1] /\ q[1][s] = v
  /\ \A x \in DOMAIN p[1] : p[1][x] # Nil => q[1][x] # Nil

LEMMA InfoWrite ==
  ASSUME NEW p \in Infos, p # Nil, NEW s \in DOMAIN p[1], NEW v \in Ptr(Models), v # Nil
  PROVE  CardWritten(Ref([p[1] EXCEPT ![s] = v]), p, s, v)
<1> DEFINE q == Ref([p[1] EXCEPT ![s] = v])
<1>1. v \in SI
  BY PtrMonotone DEF SI
<1>2. [p[1] EXCEPT ![s] = v] \in [DOMAIN p[1] -> SI]
  BY <1>1, InfoVal
<1>3. q[1] = [p[1] EXCEPT ![s] = v] /\ q # Nil
  BY RefVal
<1>4. q \in Infos
  BY <1>2, InfoRef, InfoVal
<1> HIDE DEF q
<1>5. CardWritten(q, p, s, v)
  BY <1>3, <1>4, InfoVal DEF CardWritten
<1>6. QED
  BY <1>5 DEF q

-----------------------------------------------------------------------------
(* Specs, nodes and requests *)

LEMMA ConnFacts ==
  /\ \A c \in Conns : NodeAt(c) \in Names
  /\ IsFiniteSet(Conns) /\ Cardinality(Conns) \in Nat
<1> DEFINE P(k) == {<<k, i>> : i \in 1..Len(Ends[k])}
           F == [k \in Links |-> P(k)]
           T == {P(k) : k \in Links}
<1>1. ASSUME NEW c \in Conns PROVE NodeAt(c) \in Names
  <2>0. PICK k \in Links : c \in P(k)
    BY DEF Conns
  <2>1. PICK i \in 1..Len(Ends[k]) : c = <<k, i>>
    BY <2>0
  <2>2. Ends[k] \in Seq(Names)
    BY AdmissionAssumption
  <2>3. Ends[k][i] \in Names
    BY <2>2
  <2>4. QED
    BY <2>1, <2>3 DEF NodeAt
<1>2. ASSUME NEW k \in Links PROVE IsFiniteSet(P(k))
  <2> DEFINE G == [i \in 1..Len(Ends[k]) |-> <<k, i>>]
  <2>1. Len(Ends[k]) \in Nat
    BY AdmissionAssumption
  <2>2. IsFiniteSet(1..Len(Ends[k]))
    BY <2>1, FS_Interval
  <2>3. G \in Surjection(1..Len(Ends[k]), P(k))
    BY DEF Surjection
  <2>4. QED
    BY <2>2, <2>3, FS_Surjection
<1>3. F \in Surjection(Links, T)
  BY DEF Surjection
<1>4. IsFiniteSet(T) /\ \A S \in T : IsFiniteSet(S)
  <2>1. IsFiniteSet(T)
    BY <1>3, FS_Surjection, AdmissionAssumption
  <2>2. QED
    BY <1>2, <2>1
<1>5. IsFiniteSet(UNION T)
  BY <1>4, FS_UNION
<1>6. IsFiniteSet(Conns)
  BY <1>5 DEF Conns
<1>7. QED
  BY <1>1, <1>6, FS_CardinalityType

\* The index of a node is at most the number of names.
LEMMA NodeIndexType ==
  ASSUME NEW nodes, NEW n
  PROVE  NodeIndex(nodes, n) \in 0..Len(NameList)
<1> DEFINE S == {i \in 1..Len(NameList) :
                  /\ NameList[i] \in DOMAIN nodes
                  /\ \E j \in 1..Len(NameList) : i < j /\ NameList[j] = n}
<1>1. Len(NameList) \in Nat
  BY AdmissionAssumption
<1>2. IsFiniteSet(1..Len(NameList)) /\ Cardinality(1..Len(NameList)) = Len(NameList)
  BY <1>1, FS_Interval, SMTT(30)
<1>3. S \in SUBSET (1..Len(NameList))
  OBVIOUS
<1> HIDE DEF S
<1>4. IsFiniteSet(S) /\ Cardinality(S) <= Len(NameList)
  BY <1>2, <1>3, FS_Subset
<1>5. Cardinality(S) \in Nat
  BY <1>4, FS_CardinalityType
<1>6. Cardinality(S) \in 0..Len(NameList)
  BY <1>1, <1>4, <1>5
<1>7. QED
  BY <1>6 DEF NodeIndex, S

LEMMA NodeFields ==
  ASSUME NEW types, NEW node \in NodeRecs(types)
  PROVE  /\ node.type \in types /\ node.req \in Ptr({"a", "b"}) /\ node.opt \in Ptr({"a", "b"})
         /\ node.model \in Ptr(Models) /\ node.info \in Infos
         /\ node.mac \in Ptr(0..Len(NameList))
         /\ node = [type |-> node.type, req |-> node.req, opt |-> node.opt,
                    model |-> node.model, info |-> node.info, mac |-> node.mac]
BY DEF NodeRecs

LEMMA NodeRec ==
  ASSUME NEW types, NEW t \in types, NEW a \in Ptr({"a", "b"}), NEW b \in Ptr({"a", "b"}),
         NEW m \in Ptr(Models), NEW i \in Infos, NEW x \in Ptr(0..Len(NameList))
  PROVE  [type |-> t, req |-> a, opt |-> b, model |-> m, info |-> i, mac |-> x]
           \in NodeRecs(types)
BY DEF NodeRecs

LEMMA NewNode ==
  ASSUME NEW types, NEW t \in types
  PROVE  Node(t) \in NodeRecs(types)
<1>1. Nil \in Infos
  BY NilPtr DEF Infos
<1>2. QED
  BY <1>1, NilPtr, NodeRec DEF Node

LEMMA SpecFields ==
  ASSUME NEW types, NEW spec, IsSpec(spec, types)
  PROVE  /\ spec.mac \in [Conns -> Ptr(0..Cardinality(Conns))]
         /\ spec.port \in [Conns -> Ptr(Slots)]
         /\ DOMAIN spec.nodes \subseteq Names
         /\ spec.nodes \in [DOMAIN spec.nodes -> NodeRecs(types)]
         /\ spec = [nodes |-> spec.nodes, mac |-> spec.mac, port |-> spec.port]
BY DEF IsSpec

LEMMA SpecRec ==
  ASSUME NEW types, NEW S \in SUBSET Names, NEW nodes \in [S -> NodeRecs(types)],
         NEW mac \in [Conns -> Ptr(0..Cardinality(Conns))], NEW port \in [Conns -> Ptr(Slots)],
         NEW spec, spec = [nodes |-> nodes, mac |-> mac, port |-> port]
  PROVE  IsSpec(spec, types)
BY DEF IsSpec

LEMMA NodesWiden ==
  ASSUME NEW S, NEW T, S \subseteq T
  PROVE  NodeRecs(S) \subseteq NodeRecs(T)
BY DEF NodeRecs

LEMMA SpecWiden ==
  ASSUME NEW spec, IsSpec(spec, Types)
  PROVE  IsSpec(spec, Types \cup {"nil"})
<1>1. spec.nodes \in [DOMAIN spec.nodes -> NodeRecs(Types \cup {"nil"})]
  BY SpecFields, NodesWiden
<1>2. QED
  BY <1>1 DEF IsSpec

LEMMA EmptyFcn ==
  ASSUME NEW S
  PROVE  <<>> \in [{} -> S] /\ DOMAIN <<>> = {}
OBVIOUS

LEMMA NoSpecType ==
  ASSUME NEW types
  PROVE  IsSpec(NoSpec, types) /\ DOMAIN NoSpec.nodes = {}
<1>1. <<>> \in [{} -> NodeRecs(types)] /\ {} \in SUBSET Names
  BY EmptyFcn
<1>2. QED
  BY <1>1, EmptyFcn, NilPtr, SpecRec DEF NoSpec

LEMMA RequestFields ==
  ASSUME NEW r, NEW k, IsRequest(r, k)
  PROVE  /\ r.kind \in {"none", "create", "update", "finalizer"}
         /\ r.step \in {"none", "default", "fill"} /\ r.rv \in Nat
         /\ r.nodes \in SUBSET Names /\ r.todo \in SUBSET (Names \X Slots)
         /\ r.write \in SUBSET (Names \X Slots)
         /\ IsSpec(r.spec, Types \cup {"nil"})
         /\ r.step = "fill" => IsSpec(r.spec, Types)
                               /\ r.shared \in [DOMAIN r.spec.nodes -> 0..k]
         /\ r = [kind |-> r.kind, step |-> r.step, rv |-> r.rv, spec |-> r.spec,
                 shared |-> r.shared, nodes |-> r.nodes, todo |-> r.todo, write |-> r.write]
BY SpecWiden DEF IsRequest

LEMMA RequestRec ==
  ASSUME NEW k, NEW kind \in {"none", "create", "update", "finalizer"}, NEW rv \in Nat,
         NEW step \in {"none", "default", "fill"}, NEW spec, NEW shared,
         IF step = "fill" THEN IsSpec(spec, Types) /\ shared \in [DOMAIN spec.nodes -> 0..k]
                          ELSE IsSpec(spec, Types \cup {"nil"}),
         NEW nodes \in SUBSET Names, NEW todo \in SUBSET (Names \X Slots),
         NEW write \in SUBSET (Names \X Slots),
         NEW r, r = [kind |-> kind, step |-> step, rv |-> rv, spec |-> spec,
                     shared |-> shared, nodes |-> nodes, todo |-> todo, write |-> write]
  PROVE  IsRequest(r, k)
BY DEF IsRequest

LEMMA FillRec ==
  ASSUME NEW k, NEW kind \in {"none", "create", "update", "finalizer"}, NEW rv \in Nat,
         NEW spec, IsSpec(spec, Types), NEW shared \in [DOMAIN spec.nodes -> 0..k],
         NEW nodes \in SUBSET Names, NEW todo \in SUBSET (Names \X Slots),
         NEW write \in SUBSET (Names \X Slots),
         NEW r, r = [kind |-> kind, step |-> "fill", rv |-> rv, spec |-> spec,
                     shared |-> shared, nodes |-> nodes, todo |-> todo, write |-> write]
  PROVE  IsRequest(r, k)
BY DEF IsRequest

LEMMA CardInfoSame ==
  ASSUME NEW r, NEW r2, r2.spec = r.spec, r2.shared = r.shared, NEW h, NEW n, NEW s
  PROVE  CardInfo(r2, h, n, s) = CardInfo(r, h, n, s)
BY DEF CardInfo

LEMMA NoReqType ==
  ASSUME NEW k
  PROVE  IsRequest(NoReq, k)
BY NoSpecType, RequestRec DEF NoReq

-----------------------------------------------------------------------------
(* GCONF and LoadDef *)

LEMMA DefConfig ==
  /\ DefKNLConfig \in [Types -> NodeRecs(Types)]
  /\ \A t \in SRTypes : DefKNLConfig[t].model # Nil /\ DefKNLConfig[t].info # Nil
  /\ \A t \in Types : DefKNLConfig[t].mac = Nil
<1> DEFINE mod(t) == CASE t \in {"vsim", "srsim"} -> Ref("SR-7")
                       [] t = "vsri" -> Ref("VSR-I") [] OTHER -> Nil
           inf(t) == CASE t \in {"vsim", "srsim"} -> Ref([s \in {"A", "1"} |-> Nil])
                       [] t = "vsri" -> Ref([s \in {"A"} |-> Nil]) [] OTHER -> Nil
           f1 == [s \in {"A", "1"} |-> Nil]
           f2 == [s \in {"A"} |-> Nil]
<1>1. f1 \in [{"A", "1"} -> SI] /\ f2 \in [{"A"} -> SI]
  BY NilPtr DEF SI
<1>2. Ref(f1) \in Infos /\ Ref(f2) \in Infos
  <2>1. {"A", "1"} \subseteq Slots /\ {"A"} \subseteq Slots
    BY DEF Slots
  <2> HIDE DEF f1, f2
  <2>2. QED
    BY <1>1, <2>1, InfoRef
<1>3. Nil \in Infos
  BY NilPtr DEF Infos
<1>4. ASSUME NEW t \in Types
      PROVE  mod(t) \in Ptr(Models) /\ inf(t) \in Infos
  <2>1. Ref("SR-7") \in Ptr(Models) /\ Ref("VSR-I") \in Ptr(Models) /\ Nil \in Ptr(Models)
    BY NilPtr, RefPtr DEF Models
  <2>2. QED
    BY <1>2, <1>3, <2>1
<1>5. ASSUME NEW t \in SRTypes
      PROVE  mod(t) # Nil /\ inf(t) # Nil
  BY RefVal DEF SRTypes, SRVMs
<1>6. ASSUME NEW t \in Types
      PROVE  DefKNLConfig[t] = [type |-> t, req |-> Nil, opt |-> Nil, model |-> mod(t),
                                info |-> inf(t), mac |-> Nil]
  BY DEF DefKNLConfig, Node
<1> HIDE DEF mod, inf
<1>7. ASSUME NEW t \in Types
      PROVE  DefKNLConfig[t] \in NodeRecs(Types)
  BY <1>4, <1>6, NilPtr, NodeRec
<1>8. DefKNLConfig = [t \in Types |-> DefKNLConfig[t]]
  BY DEF DefKNLConfig
<1>9. SRTypes \subseteq Types
  BY DEF SRTypes, SRVMs, Types
<1>10. QED
  BY <1>5, <1>6, <1>7, <1>8, <1>9

LEMMA ConfigsAre ==
  IsConfig(DefKNLConfig) /\ \A c \in Configs : IsConfig(c)
<1>1. ASSUME NEW c \in Configs PROVE IsConfig(c)
  <2>1. c \in [Types -> NodeRecs(Types)]
    BY AdmissionAssumption
  <2>2. ASSUME NEW t \in SRTypes PROVE c[t].model # Nil /\ c[t].info # Nil
    <3>1. t \in Types
      BY DEF SRTypes, SRVMs, Types
    <3>2. /\ DefKNLConfig[t]["model"] # Nil => c[t]["model"] # Nil
          /\ DefKNLConfig[t]["info"] # Nil => c[t]["info"] # Nil
      BY <3>1, AdmissionAssumption
    <3>3. QED
      BY <3>2, DefConfig
  <2>3. QED
    BY <2>1, <2>2 DEF IsConfig
<1>2. QED
  BY <1>1, DefConfig DEF IsConfig

LEMMA CardsType ==
  ASSUME NEW c, IsConfig(c)
  PROVE  /\ Cards(c) \in [Types -> Infos]
         /\ \A t \in Types : SameCards(c[t].info, Cards(c)[t])
<1>1. \A t \in Types : c[t].info \in Infos
  BY NodeFields DEF IsConfig
<1>2. QED
  BY <1>1 DEF Cards, SameCards

\* The node n among the nodes of a manifest, with its type.
Typed(nodes, n, node) ==
  IF n \in DOMAIN nodes
    THEN /\ node = [nodes[n] EXCEPT !.type = node.type]
         /\ node.type = IF nodes[n].type = "nil" THEN TypeOf[n] ELSE nodes[n].type
    ELSE node = Node(TypeOf[n])

\* The nodes before LoadDef: all that are named are there, with their types.
LEMMA WithNodesType ==
  ASSUME NEW spec, IsSpec(spec, Types \cup {"nil"}), NEW nodes, nodes = WithNodes(spec.nodes),
         \A n \in DOMAIN nodes : nodes[n].type # "unknown"
  PROVE  /\ DOMAIN nodes \subseteq Names /\ nodes \in [DOMAIN nodes -> NodeRecs(Types)]
         /\ Closed(nodes) /\ DOMAIN spec.nodes \subseteq DOMAIN nodes
         /\ \A n \in DOMAIN nodes : Typed(spec.nodes, n, nodes[n])
<1> DEFINE D == DOMAIN spec.nodes
           named == D \cup {NodeAt(c) : c \in Conns}
           all == named \cup {CPMName[x] : x \in named}
           val(n) == IF n \notin D THEN Node(TypeOf[n])
                     ELSE IF spec.nodes[n].type = "nil"
                       THEN [spec.nodes[n] EXCEPT !.type = TypeOf[n]] ELSE spec.nodes[n]
<1>1. nodes = [n \in all |-> val(n)]
  BY DEF WithNodes
<1>2. named \subseteq Names
  BY ConnFacts, SpecFields
<1>3. all \subseteq Names
  BY <1>2, AdmissionAssumption
<1>4. DOMAIN nodes = all /\ \A n \in all : nodes[n] = val(n)
  BY <1>1
<1>5. ASSUME NEW n \in all, n \in D
      PROVE  /\ val(n) \in NodeRecs(Types)
             /\ val(n) = [spec.nodes[n] EXCEPT !.type = val(n).type]
             /\ val(n).type = IF spec.nodes[n].type = "nil" THEN TypeOf[n]
                                                          ELSE spec.nodes[n].type
  <2> DEFINE old == spec.nodes[n]
  <2>1. old \in NodeRecs(Types \cup {"nil"})
    BY <1>5, SpecFields
  <2>2. val(n).type # "unknown" /\ TypeOf[n] \in Types \cup {"unknown"}
    <3> HIDE DEF val, all
    <3>1. nodes[n] = val(n) /\ n \in DOMAIN nodes /\ n \in Names
      BY <1>3, <1>4
    <3>2. QED
      BY <3>1, AdmissionAssumption
  <2>3. val(n) = IF old.type = "nil" THEN [old EXCEPT !.type = TypeOf[n]] ELSE old
    BY <1>5
  <2> HIDE DEF val, old
  <2>4. CASE old.type = "nil"
    <3>1. val(n) = [type |-> TypeOf[n], req |-> old.req, opt |-> old.opt, model |-> old.model,
                    info |-> old.info, mac |-> old.mac]
      BY <2>1, <2>3, <2>4, NodeFields
    <3>2. TypeOf[n] \in Types
      BY <2>2, <3>1
    <3>3. val(n) \in NodeRecs(Types)
      BY <2>1, <3>1, <3>2, NodeFields, NodeRec
    <3>4. QED
      BY <2>3, <2>4, <3>1, <3>3 DEF old
  <2>5. CASE old.type # "nil"
    <3>1. val(n) = old /\ old.type \in Types
      BY <2>1, <2>3, <2>5, NodeFields
    <3>2. val(n) \in NodeRecs(Types)
      BY <2>1, <3>1, NodeFields, NodeRec
    <3>3. old = [old EXCEPT !.type = old.type]
      BY <2>1, NodeFields
    <3>4. QED
      BY <2>5, <3>1, <3>2, <3>3 DEF old
  <2>6. QED
    BY <2>4, <2>5
<1>6. ASSUME NEW n \in all, n \notin D
      PROVE  val(n) \in NodeRecs(Types) /\ val(n) = Node(TypeOf[n])
  <2>1. val(n) = Node(TypeOf[n]) /\ val(n).type # "unknown"
    BY <1>4, <1>6
  <2>2. TypeOf[n] \in Types \cup {"unknown"} /\ Node(TypeOf[n]).type = TypeOf[n]
    BY <1>3, AdmissionAssumption DEF Node
  <2>3. TypeOf[n] \in Types
    BY <2>1, <2>2
  <2>4. QED
    BY <2>1, <2>3, NewNode
<1>7. Closed(nodes)
  <2>1. \A c \in Conns : NodeAt(c) \in all
    OBVIOUS
  <2>2. \A n \in all : CPMName[n] \in all
    BY <1>2, AdmissionAssumption
  <2>3. QED
    BY <1>4, <2>1, <2>2 DEF Closed
<1> HIDE DEF val
<1>8. D \subseteq all
  OBVIOUS
<1> HIDE DEF all, named
<1>9. ASSUME NEW n \in all PROVE Typed(spec.nodes, n, val(n)) /\ val(n) \in NodeRecs(Types)
  BY <1>5, <1>6 DEF Typed
<1>10. QED
  BY <1>1, <1>3, <1>4, <1>7, <1>8, <1>9

LEMMA FillNilType ==
  ASSUME IsConfig(gconf), NEW node \in NodeRecs(Types), NEW new, new = FillNil(node)
  PROVE  /\ new \in NodeRecs(Types) /\ new.type = node.type
         /\ new.mac = Or(node.mac, gconf[node.type].mac)
         /\ new.req = Or(node.req, gconf[node.type].req)
         /\ new.opt = Or(node.opt, gconf[node.type].opt)
         /\ new.model = Or(node.model, gconf[node.type].model)
         /\ new.info = Or(node.info, gconf[node.type].info) /\ HasChassis(new)
<1> DEFINE def == gconf[node.type]
<1>1. def \in NodeRecs(Types) /\ node.type \in Types
  BY NodeFields DEF IsConfig
<1>2. new = [type |-> node.type, req |-> Or(node.req, def.req), opt |-> Or(node.opt, def.opt),
             model |-> Or(node.model, def.model), info |-> Or(node.info, def.info),
             mac |-> Or(node.mac, def.mac)]
  BY DEF FillNil, NodeRecs
<1>3. /\ Or(node.req, def.req) \in Ptr({"a", "b"}) /\ Or(node.opt, def.opt) \in Ptr({"a", "b"})
      /\ Or(node.model, def.model) \in Ptr(Models)
      /\ Or(node.mac, def.mac) \in Ptr(0..Len(NameList))
  BY <1>1, NodeFields, OrPtr
<1>4. Or(node.info, def.info) \in Infos
  BY <1>1, NodeFields, OrPtr DEF Infos
<1>5. new \in NodeRecs(Types)
  BY <1>1, <1>2, <1>3, <1>4, NodeFields, NodeRec
<1>6. ASSUME node.type \in SRTypes
      PROVE  Or(node.model, def.model) # Nil /\ Or(node.info, def.info) # Nil
  BY <1>6 DEF IsConfig, Or
<1>7. QED
  BY <1>2, <1>5, <1>6 DEF HasChassis

-----------------------------------------------------------------------------
(* The steps of a request *)

LEMMA DefaultedInv ==
  ASSUME GconfInv, heap \in Seq([Types -> Infos]), NEW r, IsRequest(r, Len(heap)),
         r.todo = {}, r.write = {}, NEW nodes, nodes = WithNodes(r.spec.nodes),
         \A n \in DOMAIN nodes : nodes[n].type # "unknown",
         NEW off \in [Conns -> 1..Cardinality(Conns)], NEW r2, r2 = Defaulted(r, nodes, off)
  PROVE  IsRequest(r2, Len(heap)) /\ FillInv(r2, heap)
<1> DEFINE D == DOMAIN nodes
           new == [n \in D |-> FillNil(nodes[n])]
           mac == [c \in Conns |-> Or(r.spec.mac[c], Ref(off[c]))]
           sh == [n \in D |-> IF nodes[n].info = Nil THEN Len(heap) ELSE 0]
           vms == {n \in D : nodes[n].type \in SRVMs}
           sp == [nodes |-> new, mac |-> mac, port |-> r.spec.port]
<1>1. IsSpec(r.spec, Types \cup {"nil"})
  BY RequestFields
<1>2. /\ D \subseteq Names /\ nodes \in [D -> NodeRecs(Types)] /\ Closed(nodes)
  BY <1>1, WithNodesType
<1>3. ASSUME NEW n \in D
      PROVE  /\ new[n] \in NodeRecs(Types) /\ new[n].type = nodes[n].type
             /\ new[n].info = Or(nodes[n].info, gconf[nodes[n].type].info) /\ HasChassis(new[n])
  BY <1>2, FillNilType DEF GconfInv
<1>4. ASSUME NEW c \in Conns
      PROVE  mac[c] \in Ptr(0..Cardinality(Conns)) /\ mac[c] # Nil
  <2>1. off[c] \in 0..Cardinality(Conns)
    BY ConnFacts
  <2>2. Ref(off[c]) \in Ptr(0..Cardinality(Conns)) /\ Ref(off[c]) # Nil
    BY <2>1, RefPtr, RefVal
  <2>3. r.spec.mac[c] \in Ptr(0..Cardinality(Conns))
    BY <1>1, SpecFields
  <2>4. QED
    BY <2>2, <2>3, OrPtr
<1>5. Len(heap) \in Nat /\ Len(heap) # 0
  BY DEF GconfInv
<1>6. r2 = [kind |-> r.kind, step |-> "fill", rv |-> r.rv, spec |-> sp, shared |-> sh,
            nodes |-> vms, todo |-> {}, write |-> {}]
  <2>1. r = [kind |-> r.kind, step |-> r.step, rv |-> r.rv, spec |-> r.spec,
            shared |-> r.shared, nodes |-> r.nodes, todo |-> r.todo, write |-> r.write]
    BY RequestFields
  <2>2. QED
    BY <2>1 DEF Defaulted
<1>7. IsSpec(sp, Types)
  <2>1. new \in [D -> NodeRecs(Types)] /\ mac \in [Conns -> Ptr(0..Cardinality(Conns))]
    BY <1>3, <1>4
  <2>2. QED
    BY <1>1, <1>2, <2>1, SpecFields, SpecRec
<1>8. DOMAIN sp.nodes = D /\ sh \in [D -> 0..Len(heap)] /\ vms \in SUBSET Names
  BY <1>2, <1>5
<1>9. IsRequest(r2, Len(heap))
  <2> HIDE DEF sp, sh, vms, D
  <2>1. {} \in SUBSET (Names \X Slots)
    OBVIOUS
  <2>2. r.kind \in {"none", "create", "update", "finalizer"} /\ r.rv \in Nat
    BY RequestFields
  <2>3. QED
    BY <1>6, <1>7, <1>8, <2>1, <2>2, FillRec, ZenonT(60)
<1>10. /\ r2.spec.nodes = new /\ r2.spec.mac = mac /\ r2.shared = sh /\ r2.nodes = vms
       /\ r2.todo = {} /\ r2.write = {} /\ DOMAIN new = D
  BY <1>6
<1>11. ASSUME NEW n \in D, sh[n] # 0
       PROVE  SameCards(new[n].info, heap[sh[n]][new[n].type])
  <2>1. nodes[n].info = Nil /\ sh[n] = Len(heap)
    BY <1>11
  <2>2. new[n].info = gconf[nodes[n].type].info
    BY <1>3, <2>1 DEF Or
  <2>3. nodes[n].type \in Types
    BY <1>2, NodeFields
  <2>4. QED
    BY <1>3, <2>1, <2>2, <2>3 DEF GconfInv
<1>12. Closed(new)
  BY <1>2, <1>10 DEF Closed
<1>13. \A n \in D : n \in vms <=> new[n].type \in SRVMs
  BY <1>3
<1>14. vms \subseteq D
  OBVIOUS
<1> HIDE DEF new, mac, sh, vms, D
<1>15. Pending(r2)
  BY <1>10, <1>13, <1>14 DEF Pending
<1>16. Filled(r2, heap)
  BY <1>10, <1>13 DEF Filled
<1>17. QED
  BY <1>3, <1>4, <1>9, <1>10, <1>11, <1>12, <1>15, <1>16 DEF FillInv

\* The request r with another spec and other things to do.
With(r, spec, nodes, todo, write) ==
  [r EXCEPT !.spec = spec, !.nodes = nodes, !.todo = todo, !.write = write]

LEMMA WithFields ==
  ASSUME NEW r, NEW k, IsRequest(r, k), r.step = "fill",
         NEW spec, IsSpec(spec, Types), DOMAIN spec.nodes = DOMAIN r.spec.nodes,
         NEW nodes \in SUBSET Names, NEW todo \in SUBSET (Names \X Slots),
         NEW write \in SUBSET (Names \X Slots), NEW r2, r2 = With(r, spec, nodes, todo, write)
  PROVE  /\ IsRequest(r2, k) /\ r2.step = "fill" /\ r2.kind = r.kind /\ r2.rv = r.rv
         /\ r2.spec = spec /\ r2.shared = r.shared
         /\ r2.nodes = nodes /\ r2.todo = todo /\ r2.write = write
<1>1. r2 = [kind |-> r.kind, step |-> "fill", rv |-> r.rv, spec |-> spec,
            shared |-> r.shared, nodes |-> nodes, todo |-> todo, write |-> write]
  <2>1. r = [kind |-> r.kind, step |-> r.step, rv |-> r.rv, spec |-> r.spec,
             shared |-> r.shared, nodes |-> r.nodes, todo |-> r.todo, write |-> r.write]
    BY RequestFields
  <2>2. QED
    BY <2>1 DEF With
<1>2. /\ r.kind \in {"none", "create", "update", "finalizer"} /\ r.rv \in Nat
      /\ r.shared \in [DOMAIN spec.nodes -> 0..k]
  BY RequestFields
<1>3. IsRequest(r2, k)
  BY <1>1, <1>2 DEF IsRequest
<1>4. QED
  BY <1>1, <1>3

LEMMA FillNodeInv ==
  ASSUME NEW r, NEW h, FillInv(r, h), r.todo = {}, r.write = {}, NEW n \in r.nodes, NEW r2,
         r2.spec = r.spec, r2.shared = r.shared, r2.nodes = r.nodes \ {n}, r2.write = {},
         \A m, s : <<m, s>> \in r2.todo <=> /\ ChassisValid(r.spec.nodes[n]) /\ m = n
                                            /\ s \in DOMAIN r.spec.nodes[n].info[1]
  PROVE  FillInv(r2, h)
<1>1. Pending(r2)
  BY DEF FillInv, Pending
<1>2. Filled(r2, h)
  <2> SUFFICES ASSUME NEW m \in DOMAIN r.spec.nodes \ r2.nodes, r.spec.nodes[m].type \in SRVMs,
                      ChassisValid(r.spec.nodes[m]), NEW s \in DOMAIN r.spec.nodes[m].info[1]
               PROVE  <<m, s>> \in r2.todo \/ CardInfo(r2, h, m, s) # Nil
    BY DEF Filled
  <2>1. CASE m # n
    <3>1. CardInfo(r, h, m, s) # Nil
      BY <2>1 DEF FillInv, Filled
    <3>2. QED
      BY <3>1, CardInfoSame
  <2>2. QED
    BY <2>1
<1>3. QED
  BY <1>1, <1>2 DEF FillInv

LEMMA ReadSysInfoInv ==
  ASSUME NEW r, NEW h, FillInv(r, h), NEW n, NEW s, <<n, s>> \in r.todo, r.write = {}, NEW r2,
         r2.spec = r.spec, r2.shared = r.shared, r2.nodes = r.nodes,
         r2.todo = r.todo \ {<<n, s>>},
         r2.write = IF CardInfo(r, h, n, s) = Nil THEN {<<n, s>>} ELSE {}
  PROVE  FillInv(r2, h)
<1>1. Pending(r2)
  <2>1. \A x, y \in r2.write : x = y
    OBVIOUS
  <2>2. \A m \in Names, q \in Slots : <<m, q>> \in r2.todo \cup r2.write => <<m, q>> \in r.todo
    OBVIOUS
  <2>3. QED
    BY <2>1, <2>2 DEF FillInv, Pending
<1>2. Filled(r2, h)
  <2> SUFFICES ASSUME NEW m \in DOMAIN r.spec.nodes \ r.nodes, r.spec.nodes[m].type \in SRVMs,
                      ChassisValid(r.spec.nodes[m]), NEW q \in DOMAIN r.spec.nodes[m].info[1]
               PROVE  <<m, q>> \in r2.todo \cup r2.write \/ CardInfo(r2, h, m, q) # Nil
    BY DEF Filled
  <2>1. <<m, q>> \in r.todo \/ CardInfo(r, h, m, q) # Nil
    BY DEF FillInv, Filled
  <2>2. CardInfo(r2, h, m, q) = CardInfo(r, h, m, q)
    BY CardInfoSame
  <2>3. CASE m = n /\ q = s
    BY <2>2, <2>3
  <2>4. CASE ~(m = n /\ q = s)
    BY <2>1, <2>2, <2>4
  <2>5. QED
    BY <2>3, <2>4
<1>3. QED
  BY <1>1, <1>2 DEF FillInv

\* Of the cards of a GCONF only the SysInfo changes, and not to nil.
Grows(h, h2) ==
  /\ Len(h) \in Nat /\ Len(h2) \in Nat /\ Len(h) <= Len(h2)
  /\ \A g \in 1..Len(h) : \A t \in Types :
       /\ SameCards(h[g][t], h2[g][t])
       /\ h[g][t] # Nil => \A s \in DOMAIN h[g][t][1] :
            h[g][t][1][s] # Nil => h2[g][t][1][s] # Nil

LEMMA GrownInv ==
  ASSUME NEW r, NEW h, NEW h2, IsRequest(r, Len(h)), r.step = "fill", FillInv(r, h), Grows(h, h2)
  PROVE  IsRequest(r, Len(h2)) /\ FillInv(r, h2)
<1> DEFINE D == DOMAIN r.spec.nodes
<1>1. IsRequest(r, Len(h2))
  BY DEF IsRequest, Grows
<1>2. ASSUME NEW n \in D
      PROVE  /\ r.shared[n] \in 0..Len(h) /\ r.spec.nodes[n].type \in Types
  BY RequestFields, SpecFields, NodeFields
<1>3. ASSUME NEW n \in D, r.shared[n] # 0
      PROVE  /\ SameCards(r.spec.nodes[n].info, h[r.shared[n]][r.spec.nodes[n].type])
             /\ SameCards(h[r.shared[n]][r.spec.nodes[n].type],
                          h2[r.shared[n]][r.spec.nodes[n].type])
             /\ SameCards(r.spec.nodes[n].info, h2[r.shared[n]][r.spec.nodes[n].type])
  <2>1. r.shared[n] \in 1..Len(h)
    BY <1>2, <1>3 DEF Grows
  <2>2. /\ SameCards(r.spec.nodes[n].info, h[r.shared[n]][r.spec.nodes[n].type])
        /\ SameCards(h[r.shared[n]][r.spec.nodes[n].type],
                          h2[r.shared[n]][r.spec.nodes[n].type])
    BY <1>2, <1>3, <2>1 DEF Grows, FillInv
  <2>3. QED
    BY <2>2 DEF SameCards
<1>4. Filled(r, h2)
  <2> SUFFICES ASSUME NEW n \in D \ r.nodes, r.spec.nodes[n].type \in SRVMs,
                      ChassisValid(r.spec.nodes[n]), NEW s \in DOMAIN r.spec.nodes[n].info[1],
                      CardInfo(r, h, n, s) # Nil
               PROVE  CardInfo(r, h2, n, s) # Nil
    BY DEF Filled, FillInv
  <2>1. CASE r.shared[n] = 0
    BY <2>1 DEF CardInfo
  <2>2. CASE r.shared[n] # 0
    <3>1. r.spec.nodes[n].info # Nil
      BY DEF FillInv, HasChassis, SRTypes
    <3>2. /\ h[r.shared[n]][r.spec.nodes[n].type] # Nil
          /\ s \in DOMAIN h[r.shared[n]][r.spec.nodes[n].type][1]
      BY <1>3, <2>2, <3>1 DEF SameCards
    <3>3. r.shared[n] \in 1..Len(h) /\ r.spec.nodes[n].type \in Types
      BY <1>2, <2>2 DEF Grows
    <3>4. QED
      BY <2>2, <3>2, <3>3 DEF CardInfo, Grows
  <2>3. QED
    BY <2>1, <2>2
<1>5. QED
  BY <1>1, <1>3, <1>4 DEF FillInv

\* A card that is to be written: its node has a chassis.
LEMMA WriteCard ==
  ASSUME NEW r, NEW k, NEW h, IsRequest(r, k), r.step = "fill", FillInv(r, h),
         NEW n \in Names, NEW s \in Slots, <<n, s>> \in r.todo \cup r.write
  PROVE  /\ n \in DOMAIN r.spec.nodes /\ r.spec.nodes[n] \in NodeRecs(Types)
         /\ r.spec.nodes[n].type \in Types /\ r.spec.nodes[n].type \in SRVMs
         /\ r.spec.nodes[n].model \in Ptr(Models) /\ r.spec.nodes[n].model # Nil
         /\ r.spec.nodes[n].info \in Infos /\ r.spec.nodes[n].info # Nil
         /\ s \in DOMAIN r.spec.nodes[n].info[1] /\ r.shared[n] \in 0..k
         /\ r.shared[n] # 0 => SameCards(r.spec.nodes[n].info,
                                        h[r.shared[n]][r.spec.nodes[n].type])
<1>1. /\ n \in DOMAIN r.spec.nodes /\ r.spec.nodes[n].type \in SRVMs
      /\ s \in DOMAIN r.spec.nodes[n].info[1]
  BY DEF FillInv, Pending
<1>2. r.spec.nodes[n] \in NodeRecs(Types) /\ r.shared[n] \in 0..k
  BY <1>1, RequestFields, SpecFields
<1>3. QED
  BY <1>1, <1>2, NodeFields DEF FillInv, HasChassis, SRTypes

LEMMA WrittenCard ==
  ASSUME NEW r, NEW k, NEW h, IsRequest(r, k), r.step = "fill", FillInv(r, h),
         NEW n \in Names, NEW s \in Slots, <<n, s>> \in r.todo \cup r.write
  PROVE  \A q : q = Ref([r.spec.nodes[n].info[1] EXCEPT ![s] = r.spec.nodes[n].model]) =>
           /\ q \in Infos /\ q # Nil /\ DOMAIN q[1] = DOMAIN r.spec.nodes[n].info[1]
           /\ q[1][s] = r.spec.nodes[n].model
           /\ \A x \in DOMAIN r.spec.nodes[n].info[1] :
                r.spec.nodes[n].info[1][x] # Nil => q[1][x] # Nil
<1>1. /\ r.spec.nodes[n].info \in Infos /\ r.spec.nodes[n].info # Nil
      /\ s \in DOMAIN r.spec.nodes[n].info[1]
      /\ r.spec.nodes[n].model \in Ptr(Models) /\ r.spec.nodes[n].model # Nil
  BY WriteCard
<1>2. PICK p, v : p = r.spec.nodes[n].info /\ v = r.spec.nodes[n].model
  OBVIOUS
<1>3. p \in Infos /\ p # Nil /\ s \in DOMAIN p[1] /\ v \in Ptr(Models) /\ v # Nil
  BY <1>1, <1>2
<1>4. \A q : q = Ref([p[1] EXCEPT ![s] = v]) => CardWritten(q, p, s, v)
  BY <1>3, InfoWrite
<1>5. QED
  BY <1>2, <1>4 DEF CardWritten

\* When the SysInfo is there, the write is done.
LEMMA WrittenInv ==
  ASSUME NEW r, NEW h, FillInv(r, h), NEW n, NEW s, <<n, s>> \in r.write,
         CardInfo(r, h, n, s) # Nil, NEW r2,
         r2.spec = r.spec, r2.shared = r.shared, r2.nodes = r.nodes, r2.todo = r.todo,
         r2.write = {}
  PROVE  FillInv(r2, h)
<1>1. Pending(r2)
  BY DEF FillInv, Pending
<1>2. Filled(r2, h)
  <2> SUFFICES ASSUME NEW m \in DOMAIN r.spec.nodes \ r.nodes, r.spec.nodes[m].type \in SRVMs,
                      ChassisValid(r.spec.nodes[m]), NEW q \in DOMAIN r.spec.nodes[m].info[1]
               PROVE  <<m, q>> \in r.todo \/ CardInfo(r2, h, m, q) # Nil
    BY DEF Filled
  <2>1. <<m, q>> \in r.todo \cup r.write \/ CardInfo(r, h, m, q) # Nil
    BY DEF FillInv, Filled
  <2>2. CardInfo(r2, h, m, q) = CardInfo(r, h, m, q)
    BY CardInfoSame
  <2>3. <<m, q>> \in r.write => <<m, q>> = <<n, s>>
    BY DEF FillInv, Pending
  <2>4. <<m, q>> = <<n, s>> => m = n /\ q = s
    OBVIOUS
  <2>5. QED
    BY <2>1, <2>2, <2>3, <2>4
<1>3. QED
  BY <1>1, <1>2 DEF FillInv

\* A write into cards of the request's own.
LEMMA OwnInv ==
  ASSUME NEW r, NEW k, NEW h, IsRequest(r, k), r.step = "fill", FillInv(r, h),
         NEW n \in Names, NEW s \in Slots, <<n, s>> \in r.write, r.shared[n] = 0,
         NEW r2, r2.shared = r.shared, r2.nodes = r.nodes, r2.todo = r.todo, r2.write = r.write,
         r2.spec.mac = r.spec.mac, DOMAIN r2.spec.nodes = DOMAIN r.spec.nodes,
         \A m \in DOMAIN r.spec.nodes : m # n => r2.spec.nodes[m] = r.spec.nodes[m],
         r2.spec.nodes[n].type = r.spec.nodes[n].type,
         r2.spec.nodes[n].model = r.spec.nodes[n].model,
         r2.spec.nodes[n].info = Ref([r.spec.nodes[n].info[1] EXCEPT ![s] = r.spec.nodes[n].model])
  PROVE  FillInv(r2, h) /\ CardInfo(r2, h, n, s) # Nil
<1> DEFINE p == r.spec.nodes[n].info
           q == r2.spec.nodes[n].info
<1>1. /\ q \in Infos /\ q # Nil /\ DOMAIN q[1] = DOMAIN p[1] /\ q[1][s] = r.spec.nodes[n].model
      /\ \A x \in DOMAIN p[1] : p[1][x] # Nil => q[1][x] # Nil
  <2>1. <<n, s>> \in r.todo \cup r.write
    OBVIOUS
  <2>2. \A z : z = Ref([p[1] EXCEPT ![s] = r.spec.nodes[n].model]) =>
           /\ z \in Infos /\ z # Nil /\ DOMAIN z[1] = DOMAIN p[1]
           /\ z[1][s] = r.spec.nodes[n].model
           /\ \A x \in DOMAIN p[1] : p[1][x] # Nil => z[1][x] # Nil
    BY <2>1, WrittenCard, Zenon
  <2>3. QED
    BY <2>2, Zenon
<1>2. r.spec.nodes[n].model # Nil /\ n \in DOMAIN r.spec.nodes
  BY WriteCard
<1>3. CardInfo(r2, h, n, s) # Nil
  BY <1>1, <1>2 DEF CardInfo
<1> HIDE DEF q
<1>4. Closed(r2.spec.nodes)
  BY DEF FillInv, Closed
<1>5. ASSUME NEW m \in DOMAIN r.spec.nodes
      PROVE  /\ r2.spec.nodes[m].type = r.spec.nodes[m].type
             /\ r.spec.nodes[m].type \in SRVMs =>
                  /\ DOMAIN r2.spec.nodes[m].info[1] = DOMAIN r.spec.nodes[m].info[1]
                  /\ ChassisValid(r2.spec.nodes[m]) <=> ChassisValid(r.spec.nodes[m])
             /\ HasChassis(r2.spec.nodes[m])
             /\ r.shared[m] # 0 => r2.spec.nodes[m] = r.spec.nodes[m]
  <2>1. CASE m # n
    BY <2>1 DEF FillInv
  <2>2. CASE m = n
    BY <1>1, <1>2, <2>2 DEF q, HasChassis, ChassisValid
  <2>3. QED
    BY <2>1, <2>2
<1>6. Pending(r2)
  BY <1>5 DEF FillInv, Pending
<1>7. Filled(r2, h)
  <2> SUFFICES ASSUME NEW m \in DOMAIN r.spec.nodes \ r.nodes, r.spec.nodes[m].type \in SRVMs,
                      ChassisValid(r.spec.nodes[m]), NEW x \in DOMAIN r.spec.nodes[m].info[1],
                      CardInfo(r, h, m, x) # Nil
               PROVE  CardInfo(r2, h, m, x) # Nil
    <3>1. Filled(r, h)
      BY DEF FillInv
    <3>2. SUFFICES ASSUME NEW m \in DOMAIN r.spec.nodes \ r.nodes,
                          r2.spec.nodes[m].type \in SRVMs, ChassisValid(r2.spec.nodes[m]),
                          NEW x \in DOMAIN r2.spec.nodes[m].info[1]
                   PROVE  <<m, x>> \in r.todo \cup r.write \/ CardInfo(r2, h, m, x) # Nil
      BY DEF Filled
    <3>3. /\ r.spec.nodes[m].type \in SRVMs /\ ChassisValid(r.spec.nodes[m])
          /\ x \in DOMAIN r.spec.nodes[m].info[1]
      BY <1>5, <3>2
    <3>4. <<m, x>> \in r.todo \cup r.write \/ CardInfo(r, h, m, x) # Nil
      BY <3>1, <3>2, <3>3 DEF Filled
    <3>5. QED
      BY <3>2, <3>3, <3>4
  <2>1. CASE m # n
    BY <2>1 DEF CardInfo
  <2>2. CASE m = n
    BY <1>1, <2>2 DEF CardInfo, q
  <2>3. QED
    BY <2>1, <2>2
<1>8. QED
  BY <1>3, <1>4, <1>5, <1>6, <1>7 DEF FillInv

\* A write into cards of a GCONF.
Wrote(h, g, t, s, v) == [h EXCEPT ![g][t] = Ref([h[g][t][1] EXCEPT ![s] = v])]

LEMMA SharedGrows ==
  ASSUME NEW h \in Seq([Types -> Infos]), NEW g \in 1..Len(h), NEW t \in Types,
         h[g][t] # Nil, NEW s \in DOMAIN h[g][t][1], NEW v \in Ptr(Models), v # Nil,
         NEW h2, h2 = Wrote(h, g, t, s, v)
  PROVE  /\ h2 \in Seq([Types -> Infos]) /\ Len(h2) = Len(h) /\ Grows(h, h2)
         /\ h2[g][t][1][s] # Nil
<1> DEFINE q == Ref([h[g][t][1] EXCEPT ![s] = v])
<1>1. h[g] \in [Types -> Infos] /\ h[g][t] \in Infos
  OBVIOUS
<1>2. /\ q \in Infos /\ q # Nil /\ DOMAIN q[1] = DOMAIN h[g][t][1] /\ q[1][s] = v
      /\ \A x \in DOMAIN h[g][t][1] : h[g][t][1][x] # Nil => q[1][x] # Nil
  <2>1. PICK p : p = h[g][t]
    OBVIOUS
  <2>2. CardWritten(Ref([p[1] EXCEPT ![s] = v]), p, s, v)
    BY <1>1, <2>1, InfoWrite
  <2>3. QED
    BY <2>1, <2>2 DEF CardWritten
<1> HIDE DEF q
<1>3. h2 = [h EXCEPT ![g] = [h[g] EXCEPT ![t] = q]]
  BY DEF q, Wrote
<1>4. [h[g] EXCEPT ![t] = q] \in [Types -> Infos]
  BY <1>1, <1>2
<1>5. h2 \in Seq([Types -> Infos]) /\ Len(h2) = Len(h) /\ Len(h) \in Nat
  BY <1>3, <1>4
<1>6. /\ h2[g][t] = q
      /\ \A x \in 1..Len(h) : \A u \in Types : x # g \/ u # t => h2[x][u] = h[x][u]
  BY <1>1, <1>3
<1>7. ASSUME NEW x \in 1..Len(h), NEW u \in Types
      PROVE  /\ SameCards(h[x][u], h2[x][u])
             /\ h[x][u] # Nil => \A y \in DOMAIN h[x][u][1] :
                  h[x][u][1][y] # Nil => h2[x][u][1][y] # Nil
  <2>1. CASE x = g /\ u = t
    <3>1. h2[x][u] = q /\ h[x][u] = h[g][t]
      BY <1>6, <2>1
    <3>2. SameCards(h[g][t], q)
      BY <1>2 DEF SameCards
    <3>3. QED
      BY <1>2, <3>1, <3>2
  <2>2. CASE ~(x = g /\ u = t)
    BY <1>6, <2>2 DEF SameCards
  <2>3. QED
    BY <2>1, <2>2
<1>8. Grows(h, h2)
  BY <1>5, <1>7 DEF Grows
<1>9. QED
  BY <1>2, <1>5, <1>6, <1>8

-----------------------------------------------------------------------------
(* The end of a request *)

\* A spec that lacks nothing but ports.
Ready(spec) ==
  /\ IsSpec(spec, Types) /\ Closed(spec.nodes)
  /\ \A c \in Conns : spec.mac[c] # Nil
  /\ \A n \in DOMAIN spec.nodes :
       /\ HasChassis(spec.nodes[n])
       /\ TypeOf[n] \in SRTypes => spec.nodes[n].mac # Nil
       /\ spec.nodes[n].type \in SRVMs /\ ChassisValid(spec.nodes[n]) =>
            \A s \in DOMAIN spec.nodes[n].info[1] : spec.nodes[n].info[1][s] # Nil

LEMMA CardInfoType ==
  ASSUME NEW r, NEW h \in Seq([Types -> Infos]), IsRequest(r, Len(h)), r.step = "fill",
         FillInv(r, h), NEW n \in DOMAIN r.spec.nodes, r.spec.nodes[n].info # Nil,
         NEW s \in DOMAIN r.spec.nodes[n].info[1]
  PROVE  CardInfo(r, h, n, s) \in SI
<1>1. /\ r.spec.nodes[n].info \in Infos /\ r.spec.nodes[n].type \in Types
      /\ r.shared[n] \in 0..Len(h)
  BY RequestFields, SpecFields, NodeFields
<1>2. CASE r.shared[n] = 0
  BY <1>1, <1>2, InfoVal DEF CardInfo
<1>3. CASE r.shared[n] # 0
  <2> DEFINE q == h[r.shared[n]][r.spec.nodes[n].type]
  <2>1. r.shared[n] \in 1..Len(h)
    BY <1>1, <1>3
  <2>2. q \in Infos
    BY <1>1, <2>1
  <2>3. q # Nil /\ s \in DOMAIN q[1]
    BY <1>3 DEF FillInv, SameCards
  <2>4. q[1][s] \in SI
    BY <2>2, <2>3, InfoVal
  <2>5. QED
    BY <1>3, <2>4 DEF CardInfo
<1>4. QED
  BY <1>2, <1>3

\* SerialisedNode, for the request r.
Serial(r, h, n) ==
  IF r.spec.nodes[n].info = Nil THEN r.spec.nodes[n]
  ELSE [r.spec.nodes[n] EXCEPT !.info =
          Ref([s \in DOMAIN r.spec.nodes[n].info[1] |-> CardInfo(r, h, n, s)])]

LEMMA SerialType ==
  ASSUME NEW r, NEW h \in Seq([Types -> Infos]), IsRequest(r, Len(h)), r.step = "fill",
         FillInv(r, h), NEW n \in DOMAIN r.spec.nodes, NEW node, node = Serial(r, h, n)
  PROVE  /\ node \in NodeRecs(Types) /\ node.type = r.spec.nodes[n].type
         /\ node.mac = r.spec.nodes[n].mac /\ HasChassis(node)
         /\ r.spec.nodes[n].info # Nil =>
              /\ DOMAIN node.info[1] = DOMAIN r.spec.nodes[n].info[1]
              /\ \A s \in DOMAIN node.info[1] : node.info[1][s] = CardInfo(r, h, n, s)
<1> DEFINE old == r.spec.nodes[n]
           f == [s \in DOMAIN old.info[1] |-> CardInfo(r, h, n, s)]
<1>1. old \in NodeRecs(Types) /\ old.info \in Infos
  BY RequestFields, SpecFields, NodeFields
<1>2. HasChassis(old)
  BY DEF FillInv
<1>3. CASE old.info = Nil
  BY <1>1, <1>2, <1>3 DEF Serial
<1>4. CASE old.info # Nil
  <2>1. f \in [DOMAIN old.info[1] -> SI]
    BY <1>4, CardInfoType
  <2>2. DOMAIN old.info[1] \subseteq Slots
    BY <1>1, <1>4, InfoVal
  <2>3. DOMAIN f = DOMAIN old.info[1] /\ \A s \in DOMAIN f : f[s] = CardInfo(r, h, n, s)
    OBVIOUS
  <2>4. node = [old EXCEPT !.info = Ref(f)]
    BY <1>4 DEF Serial
  <2> HIDE DEF f, old
  <2>5. Ref(f) \in Infos
    BY <2>1, <2>2, InfoRef
  <2>6. Ref(f) # Nil /\ Ref(f)[1] = f
    BY RefVal
  <2>7. node \in NodeRecs(Types) /\ node.type = old.type /\ node.mac = old.mac
        /\ node.info = Ref(f) /\ node.model = old.model
    BY <1>1, <2>4, <2>5 DEF NodeRecs
  <2>8. HasChassis(node)
    BY <1>2, <2>6, <2>7 DEF HasChassis
  <2>9. QED
    BY <2>3, <2>6, <2>7, <2>8 DEF old
<1>5. QED
  BY <1>3, <1>4

\* The index of a node depends on the names of the nodes only.
LEMMA NodeIndexNames ==
  ASSUME NEW f, NEW g, DOMAIN f = DOMAIN g, NEW n
  PROVE  NodeIndex(f, n) = NodeIndex(g, n)
BY DEF NodeIndex

\* The node n of g is that of f, with its chassis MAC.
MacAdded(f, g, n) ==
  /\ g[n].type = f[n].type /\ g[n].model = f[n].model /\ g[n].info = f[n].info
  /\ TypeOf[n] \in SRTypes => g[n].mac # Nil
  /\ g[n].mac = IF TypeOf[n] \in SRTypes
                  THEN Or(f[n].mac, Ref(NodeIndex(f, n))) ELSE f[n].mac

LEMMA WithChassisMACType ==
  ASSUME NEW D \in SUBSET Names, NEW f \in [D -> NodeRecs(Types)], NEW g, g = WithChassisMAC(f)
  PROVE  /\ g \in [D -> NodeRecs(Types)]
         /\ \A n \in D : MacAdded(f, g, n)
<1>1. g = [n \in D |-> IF TypeOf[n] \in SRTypes
             THEN [f[n] EXCEPT !.mac = Or(@, Ref(NodeIndex(f, n)))] ELSE f[n]]
  BY DEF WithChassisMAC
<1>2. ASSUME NEW n \in D
      PROVE  /\ g[n] \in NodeRecs(Types)
             /\ g[n].type = f[n].type /\ g[n].model = f[n].model
             /\ g[n].info = f[n].info
             /\ TypeOf[n] \in SRTypes => g[n].mac # Nil
             /\ g[n].mac = IF TypeOf[n] \in SRTypes
                             THEN Or(f[n].mac, Ref(NodeIndex(f, n))) ELSE f[n].mac
  <2> DEFINE i == NodeIndex(f, n)
  <2>1. f[n] \in NodeRecs(Types)
    OBVIOUS
  <2>2. Ref(i) \in Ptr(0..Len(NameList)) /\ Ref(i) # Nil
    BY NodeIndexType, RefPtr, RefVal
  <2>3. g[n] = IF TypeOf[n] \in SRTypes THEN [f[n] EXCEPT !.mac = Or(f[n].mac, Ref(i))] ELSE f[n]
    BY <1>1
  <2> HIDE DEF i
  <2>4. Or(f[n].mac, Ref(i)) \in Ptr(0..Len(NameList)) /\ Or(f[n].mac, Ref(i)) # Nil
    BY <2>1, <2>2, NodeFields, OrPtr
  <2>5. CASE TypeOf[n] \in SRTypes
    <3>1. g[n] = [f[n] EXCEPT !.mac = Or(f[n].mac, Ref(i))]
      BY <2>3, <2>5
    <3>2. QED
      BY <2>1, <2>4, <2>5, <3>1 DEF NodeRecs, i
  <2>6. CASE TypeOf[n] \notin SRTypes
    BY <2>1, <2>3, <2>6
  <2>7. QED
    BY <2>5, <2>6
<1>3. QED
  BY <1>1, <1>2 DEF MacAdded

LEMMA SerialisedReady ==
  ASSUME NEW l, heap \in Seq([Types -> Infos]), IsRequest(req[l], Len(heap)),
         req[l].step = "fill", FillInv(req[l], heap), req[l].nodes = {}, req[l].todo = {},
         req[l].write = {}, NEW spec, spec = Serialised(l)
  PROVE  /\ Ready(spec) /\ DOMAIN spec.nodes = DOMAIN req[l].spec.nodes
         /\ spec.mac = req[l].spec.mac /\ spec.port = req[l].spec.port
         /\ \A n \in DOMAIN spec.nodes :
              /\ spec.nodes[n].type = req[l].spec.nodes[n].type
              /\ spec.nodes[n].mac =
                   IF TypeOf[n] \in SRTypes
                     THEN Or(req[l].spec.nodes[n].mac, Ref(NodeIndex(spec.nodes, n)))
                     ELSE req[l].spec.nodes[n].mac
<1> DEFINE r == req[l]
           D == DOMAIN r.spec.nodes
           f == [n \in D |-> Serial(r, heap, n)]
           g == WithChassisMAC(f)
<1>1. \A n, s : SysInfo(l, n, s) = CardInfo(r, heap, n, s)
  BY DEF SysInfo, CardInfo
<1>2. \A n : SerialisedNode(l, n) = Serial(r, heap, n)
  BY <1>1 DEF SerialisedNode, Serial
<1>3. IsSpec(r.spec, Types)
  BY RequestFields
<1>4. spec = [nodes |-> g, mac |-> r.spec.mac, port |-> r.spec.port]
  <2>1. f = [n \in D |-> SerialisedNode(l, n)]
    BY <1>2
  <2>2. r.spec = [nodes |-> r.spec.nodes, mac |-> r.spec.mac, port |-> r.spec.port]
    BY <1>3, SpecFields
  <2>3. spec = [r.spec EXCEPT !.nodes = g]
    BY <2>1 DEF Serialised
  <2> HIDE DEF g
  <2>4. QED
    BY <2>2, <2>3
<1>5. ASSUME NEW n \in D
      PROVE  /\ f[n] \in NodeRecs(Types) /\ f[n].type = r.spec.nodes[n].type
             /\ f[n].mac = r.spec.nodes[n].mac /\ HasChassis(f[n])
             /\ r.spec.nodes[n].info # Nil =>
                  /\ DOMAIN f[n].info[1] = DOMAIN r.spec.nodes[n].info[1]
                  /\ \A s \in DOMAIN f[n].info[1] : f[n].info[1][s] = CardInfo(r, heap, n, s)
  <2>1. f[n] = Serial(r, heap, n)
    OBVIOUS
  <2> HIDE DEF f
  <2>2. QED
    BY <2>1, SerialType
<1>6. D \in SUBSET Names /\ f \in [D -> NodeRecs(Types)]
  BY <1>3, <1>5, SpecFields
<1>7. /\ g \in [D -> NodeRecs(Types)]
      /\ \A n \in D : /\ g[n].type = f[n].type /\ g[n].model = f[n].model
                      /\ g[n].info = f[n].info
                      /\ TypeOf[n] \in SRTypes => g[n].mac # Nil
                      /\ g[n].mac = IF TypeOf[n] \in SRTypes
                                      THEN Or(f[n].mac, Ref(NodeIndex(f, n))) ELSE f[n].mac
  <2>1. g = WithChassisMAC(f)
    OBVIOUS
  <2> HIDE DEF f, D, g
  <2>2. g \in [D -> NodeRecs(Types)] /\ \A n \in D : MacAdded(f, g, n)
    BY <1>6, <2>1, WithChassisMACType
  <2>3. QED
    BY <2>2 DEF MacAdded
<1>8. DOMAIN f = D
  OBVIOUS
<1> HIDE DEF f, g
<1>9. \A n : NodeIndex(f, n) = NodeIndex(g, n)
  BY <1>7, <1>8, NodeIndexNames
<1>10. spec.nodes = g /\ spec.mac = r.spec.mac /\ spec.port = r.spec.port /\ DOMAIN g = D
  BY <1>4, <1>7
<1>11. IsSpec(spec, Types)
  <2>1. /\ r.spec.mac \in [Conns -> Ptr(0..Cardinality(Conns))]
        /\ r.spec.port \in [Conns -> Ptr(Slots)]
    BY <1>3, SpecFields
  <2>2. QED
    BY <1>4, <1>6, <1>7, <1>10, <2>1 DEF IsSpec
<1>12. Closed(g) /\ \A c \in Conns : r.spec.mac[c] # Nil
  BY <1>10 DEF FillInv, Closed
<1>13. ASSUME NEW n \in D
       PROVE  /\ HasChassis(g[n])
              /\ g[n].type \in SRVMs /\ ChassisValid(g[n]) =>
                   \A s \in DOMAIN g[n].info[1] : g[n].info[1][s] # Nil
  <2>1. HasChassis(g[n])
    BY <1>5, <1>7 DEF HasChassis
  <2>2. SUFFICES ASSUME g[n].type \in SRVMs, ChassisValid(g[n]), NEW s \in DOMAIN g[n].info[1]
                 PROVE  g[n].info[1][s] # Nil
    BY <2>1
  <2>3. r.spec.nodes[n].type \in SRVMs /\ r.spec.nodes[n].info # Nil
    BY <1>5, <1>7, <2>2 DEF FillInv, HasChassis, SRTypes
  <2>4. /\ DOMAIN g[n].info[1] = DOMAIN r.spec.nodes[n].info[1]
        /\ g[n].info[1][s] = CardInfo(r, heap, n, s)
    BY <1>5, <1>7, <2>3
  <2>5. ChassisValid(r.spec.nodes[n])
    BY <2>2, <2>4 DEF ChassisValid
  <2>6. QED
    BY <2>3, <2>4, <2>5 DEF FillInv, Filled
<1>14. Ready(spec)
  BY <1>7, <1>10, <1>11, <1>12, <1>13 DEF Ready
<1>15. QED
  BY <1>5, <1>7, <1>9, <1>10, <1>14

LEMMA PortChoice ==
  ASSUME NEW spec, NEW p \in PortChoices(spec)
  PROVE  /\ DOMAIN p = Conns /\ p = [c \in Conns |-> p[c]]
         /\ \A c \in Conns :
              IF spec.port[c] # Nil \/ TypeOf[NodeAt(c)] \notin SRVMs THEN p[c] = spec.port[c]
              ELSE \E s : p[c] = Ref(s)
<1> DEFINE ports == [c \in Conns |->
              IF spec.port[c] # Nil \/ TypeOf[NodeAt(c)] \notin SRVMs THEN {spec.port[c]}
              ELSE {Ref(s) : s \in DefaultMDASlots(spec.nodes[NodeAt(c)])}]
<1>1. /\ p \in [Conns -> UNION {ports[c] : c \in Conns}]
      /\ \A c \in Conns : p[c] \in ports[c]
  BY DEF PortChoices
<1>2. QED
  BY <1>1

\* A spec that is admitted is settled.
LEMMA AdmittedSettled ==
  ASSUME NEW spec, Ready(spec), ~Panics(spec.nodes), NEW p \in PortChoices(spec),
         NEW full, full = [spec EXCEPT !.port = p], Valid(full)
  PROVE  /\ IsSpec(full, Types) /\ Settled(full)
         /\ full.nodes = spec.nodes /\ full.mac = spec.mac
<1>1. spec = [nodes |-> spec.nodes, mac |-> spec.mac, port |-> spec.port]
  BY SpecFields DEF Ready
<1>2. /\ full = [nodes |-> spec.nodes, mac |-> spec.mac, port |-> p]
      /\ full.nodes = spec.nodes /\ full.mac = spec.mac /\ full.port = p
  BY <1>1
<1>3. ASSUME NEW c \in Conns
      PROVE  p[c] \in Ptr(Slots) /\ (TypeOf[NodeAt(c)] \in SRVMs => p[c] # Nil)
  <2>1. CASE spec.port[c] # Nil \/ TypeOf[NodeAt(c)] \notin SRVMs
    <3>1. p[c] = spec.port[c]
      BY <2>1, PortChoice
    <3>2. spec.port[c] \in Ptr(Slots)
      BY SpecFields DEF Ready
    <3>3. QED
      BY <2>1, <3>1, <3>2
  <2>2. CASE ~(spec.port[c] # Nil \/ TypeOf[NodeAt(c)] \notin SRVMs)
    <3> DEFINE n == NodeAt(c)
               node == spec.nodes[n]
    <3>1. PICK s : p[c] = Ref(s)
      BY <2>2, PortChoice
    <3>2. n \in DOMAIN spec.nodes /\ TypeOf[n] \in SRVMs /\ TypeOf[n] \in SRTypes
      BY <2>2 DEF Ready, Closed, SRTypes
    <3>3. node.type = TypeOf[n]
      BY <3>2 DEF Panics
    <3>4. node.info \in Infos /\ node.info # Nil
      BY <3>2, <3>3, SpecFields, NodeFields DEF Ready, HasChassis
    <3>5. NodeValid(full, n)
      BY <1>2, <3>2 DEF Valid
    <3>6. p[c] # Nil /\ p[c][1] = s
      BY <3>1, RefVal
    <3>7. s \in DOMAIN node.info[1]
      BY <1>2, <3>2, <3>3, <3>5, <3>6 DEF NodeValid
    <3>8. s \in Slots
      BY <3>4, <3>7, InfoVal
    <3>9. QED
      BY <3>1, <3>6, <3>8, RefPtr
  <2>3. QED
    BY <2>1, <2>2
<1>4. p \in [Conns -> Ptr(Slots)]
  BY <1>3, PortChoice
<1>5. IsSpec(full, Types)
  <2>1. /\ DOMAIN spec.nodes \in SUBSET Names /\ spec.nodes \in [DOMAIN spec.nodes -> NodeRecs(Types)]
        /\ spec.mac \in [Conns -> Ptr(0..Cardinality(Conns))]
    BY SpecFields DEF Ready
  <2>2. QED
    BY <1>2, <1>4, <2>1 DEF IsSpec
<1>6. ASSUME NEW n \in DOMAIN spec.nodes, spec.nodes[n].type \in SRVMs
      PROVE  ChassisValid(spec.nodes[n])
  BY <1>2, <1>6 DEF Valid, NodeValid, SRTypes
<1>7. Settled(full)
  BY <1>2, <1>3, <1>6 DEF Settled, Ready
<1>8. QED
  BY <1>2, <1>5, <1>7

-----------------------------------------------------------------------------
(* The actions *)

LEMMA InvTypes == AdmissionInv => TypeOK
BY DEF AdmissionInv, TypeOK, LabInv, RequestInv, GconfInv, IsConfig

LEMMA NoReqInv ==
  ASSUME NEW h
  PROVE  RequestInv(NoReq, h) /\ NoReq.step = "none"
BY NoReqType DEF RequestInv, NoReq

LEMMA NoLabInv ==
  ASSUME NEW o, o.ph = "gone", o.rv \in Nat, o = [ph |-> o.ph, rv |-> o.rv, spec |-> NoSpec]
  PROVE  LabInv(o)
BY NoSpecType DEF LabInv, Exists, Phase

\* A step of one Lab's request that leaves GCONF alone.
LEMMA OneRequest ==
  ASSUME AdmissionInv, NEW l \in Labs,
         req' = [k \in Labs |-> req'[k]], \A k \in Labs : k # l => req'[k] = req[k],
         RequestInv(req'[l], heap),
         lab' = [k \in Labs |-> lab'[k]], \A k \in Labs : k # l => lab'[k] = lab[k],
         LabInv(lab'[l]), writes' \in 0..MaxWrite, UNCHANGED <<gconf, heap, loads, crashes>>
  PROVE  AdmissionInv'
<1>1. \A k \in Labs : RequestInv(req'[k], heap') /\ LabInv(lab'[k])
  BY DEF AdmissionInv
<1>2. GconfInv'
  BY DEF AdmissionInv, GconfInv
<1>3. QED
  BY <1>1, <1>2 DEF AdmissionInv

\* The same, with the Lab unchanged.
LEMMA OnlyRequest ==
  ASSUME AdmissionInv, NEW l \in Labs, NEW r, req' = [req EXCEPT ![l] = r],
         RequestInv(r, heap), writes' \in 0..MaxWrite, UNCHANGED <<lab, gconf, heap, loads, crashes>>
  PROVE  AdmissionInv'
<1>1. req = [k \in Labs |-> req[k]] /\ lab = [k \in Labs |-> lab[k]] /\ LabInv(lab[l])
  BY DEF AdmissionInv
<1>2. /\ req' = [k \in Labs |-> req'[k]] /\ \A k \in Labs : k # l => req'[k] = req[k]
      /\ req'[l] = r
  BY <1>1
<1>3. /\ lab' = [k \in Labs |-> lab'[k]] /\ \A k \in Labs : k # l => lab'[k] = lab[k]
      /\ LabInv(lab'[l])
  BY <1>1
<1>4. QED
  BY <1>2, <1>3, OneRequest

LEMMA RefuseInv ==
  ASSUME AdmissionInv, NEW l \in Labs, Refuse(l), UNCHANGED <<gconf, writes, loads, crashes>>
  PROVE  AdmissionInv'
<1>1. writes' \in 0..MaxWrite
  BY DEF AdmissionInv
<1>2. QED
  BY <1>1, NoReqInv, OnlyRequest DEF Refuse

LEMMA NewRequest ==
  ASSUME NEW kind, NEW rv, NEW spec, NEW r,
         r = [NoReq EXCEPT !.kind = kind, !.step = "default", !.rv = rv, !.spec = spec]
  PROVE  r = [kind |-> kind, step |-> "default", rv |-> rv, spec |-> spec,
              shared |-> <<>>, nodes |-> {}, todo |-> {}, write |-> {}]
BY DEF NoReq

LEMMA BeginInv ==
  ASSUME AdmissionInv, NEW l \in Labs, NEW kind \in {"create", "update", "finalizer"},
         NEW spec, IsSpec(spec, Types \cup {"nil"}), Begin(l, kind, spec),
         writes' \in 0..MaxWrite, UNCHANGED <<lab, gconf, heap, loads, crashes>>
  PROVE  AdmissionInv'
<1> DEFINE r == [NoReq EXCEPT !.kind = kind, !.step = "default", !.rv = lab[l].rv, !.spec = spec]
<1>1. lab[l].rv \in Nat
  BY DEF AdmissionInv, LabInv
<1>2. r = [kind |-> kind, step |-> "default", rv |-> lab[l].rv, spec |-> spec,
           shared |-> <<>>, nodes |-> {}, todo |-> {}, write |-> {}]
  BY NewRequest
<1>3. RequestInv(r, heap)
  BY <1>1, <1>2 DEF RequestInv, IsRequest
<1>4. req' = [req EXCEPT ![l] = r]
  BY DEF Begin
<1> HIDE DEF r
<1>5. QED
  BY <1>3, <1>4, OnlyRequest

LEMMA UserCreateInv ==
  ASSUME AdmissionInv, NEW l \in Labs, NEW m \in Manifests[l], UserCreate(l, m)
  PROVE  AdmissionInv'
<1>1. writes' \in 0..MaxWrite
  BY AdmissionAssumption DEF AdmissionInv, UserCreate
<1>2. IsSpec(m, Types \cup {"nil"})
  BY AdmissionAssumption
<1>3. QED
  BY <1>1, <1>2, BeginInv DEF UserCreate

LEMMA UserUpdateInv ==
  ASSUME AdmissionInv, NEW l \in Labs, NEW m \in Manifests[l], UserUpdate(l, m)
  PROVE  AdmissionInv'
<1>1. writes' \in 0..MaxWrite
  BY AdmissionAssumption DEF AdmissionInv, UserUpdate
<1>2. IsSpec(m, Types \cup {"nil"})
  BY AdmissionAssumption
<1>3. QED
  BY <1>1, <1>2, BeginInv DEF UserUpdate

LEMMA OperatorUpdateInv ==
  ASSUME AdmissionInv, NEW l \in Labs, OperatorUpdate(l)
  PROVE  AdmissionInv'
<1>1. writes' \in 0..MaxWrite
  BY DEF AdmissionInv, OperatorUpdate
<1>2. IsSpec(lab[l].spec, Types \cup {"nil"})
  BY SpecWiden DEF AdmissionInv, LabInv
<1>3. QED
  BY <1>1, <1>2, BeginInv DEF OperatorUpdate

LEMMA UserDeleteInv ==
  ASSUME AdmissionInv, NEW l \in Labs, UserDelete(l)
  PROVE  AdmissionInv'
<1> DEFINE o == lab[l]
<1>1. /\ o \in [ph : Phase, rv : Nat, spec : {o.spec}] /\ IsSpec(o.spec, Types)
      /\ Settled(o.spec)
  BY DEF AdmissionInv, LabInv, UserDelete, Exists
<1>2. lab = [k \in Labs |-> lab[k]] /\ req = [k \in Labs |-> req[k]] /\ RequestInv(req[l], heap)
  BY DEF AdmissionInv
<1>3. /\ lab' = [k \in Labs |-> lab'[k]] /\ \A k \in Labs : k # l => lab'[k] = lab[k]
      /\ lab'[l] = [ph |-> Deleted(o).ph, rv |-> o.rv + 1,
                    spec |-> IF o.ph = "bare" THEN NoSpec ELSE o.spec]
  BY <1>2 DEF UserDelete
<1>4. LabInv(lab'[l])
  <2>1. CASE o.ph = "bare"
    <3>1. lab'[l] = [ph |-> "gone", rv |-> o.rv + 1, spec |-> NoSpec]
      BY <1>1, <1>3, <2>1 DEF Deleted
    <3>2. QED
      BY <1>1, <3>1, NoLabInv
  <2>2. CASE o.ph = "held"
    <3>1. lab'[l] = [ph |-> "dying", rv |-> o.rv + 1, spec |-> o.spec]
      BY <1>1, <1>3, <2>2 DEF Deleted
    <3>2. QED
      BY <1>1, <3>1 DEF LabInv, Exists, Phase
  <2>3. QED
    BY <2>1, <2>2 DEF UserDelete
<1>5. QED
  BY <1>2, <1>3, <1>4, OneRequest DEF UserDelete, AdmissionInv

LEMMA DefaultNodesInv ==
  ASSUME AdmissionInv, NEW l \in Labs, DefaultNodes(l)
  PROVE  AdmissionInv'
<1> DEFINE nodes == WithNodes(req[l].spec.nodes)
<1>1. CASE Refuse(l)
  BY <1>1, RefuseInv DEF DefaultNodes
<1>2. CASE ~Refuse(l)
  <2>1. PICK off \in [Conns -> 1..Cardinality(Conns)] :
          req' = [req EXCEPT ![l] = Defaulted(@, nodes, off)]
    BY <1>2 DEF DefaultNodes, MacOffsets
  <2>2. /\ \A n \in DOMAIN nodes : nodes[n].type # "unknown"
        /\ UNCHANGED <<lab, gconf, heap, writes, loads, crashes>> /\ req[l].step = "default"
    BY <1>2 DEF DefaultNodes
  <2>3. /\ IsRequest(req[l], Len(heap)) /\ req[l].todo = {} /\ req[l].write = {}
        /\ GconfInv /\ heap \in Seq([Types -> Infos]) /\ writes' \in 0..MaxWrite
    BY <2>2 DEF AdmissionInv, RequestInv
  <2>4. PICK ns : ns = nodes
    OBVIOUS
  <2> HIDE DEF nodes
  <2>5. PICK r2 : r2 = Defaulted(req[l], ns, off)
    OBVIOUS
  <2>6. IsRequest(r2, Len(heap)) /\ FillInv(r2, heap)
    BY <2>2, <2>3, <2>4, <2>5, DefaultedInv DEF nodes
  <2>7. r2.step = "fill"
    <3>1. req[l] = [kind |-> req[l].kind, step |-> req[l].step, rv |-> req[l].rv,
                    spec |-> req[l].spec, shared |-> req[l].shared, nodes |-> req[l].nodes,
                    todo |-> req[l].todo, write |-> req[l].write]
      BY <2>3, RequestFields
    <3>2. QED
      BY <2>5, <3>1 DEF Defaulted
  <2>8. RequestInv(r2, heap)
    BY <2>6, <2>7 DEF RequestInv
  <2>9. req' = [req EXCEPT ![l] = r2]
    BY <2>1, <2>4, <2>5
  <2>10. QED
    BY <2>2, <2>3, <2>8, <2>9, OnlyRequest
<1>3. QED
  BY <1>1, <1>2

LEMMA FillNodeStep ==
  ASSUME AdmissionInv, NEW l \in Labs, NEW n \in Names, FillNode(l, n)
  PROVE  AdmissionInv'
<1> DEFINE r == req[l]
           node == r.spec.nodes[n]
           todo == IF ChassisValid(node) THEN {<<n, s>> : s \in DOMAIN node.info[1]} ELSE {}
<1>1. /\ r.step = "fill" /\ r.todo = {} /\ r.write = {} /\ n \in r.nodes
      /\ UNCHANGED <<lab, gconf, heap, writes, loads, crashes>>
  BY DEF FillNode
<1>2. IsRequest(r, Len(heap)) /\ FillInv(r, heap) /\ writes' \in 0..MaxWrite
  BY <1>1 DEF AdmissionInv, RequestInv
<1>3. n \in DOMAIN r.spec.nodes /\ node.info # Nil /\ node.info \in Infos
  <2>1. n \in DOMAIN r.spec.nodes /\ node.info # Nil
    BY <1>1, <1>2 DEF FillInv, Pending, HasChassis, SRTypes
  <2>2. QED
    BY <1>1, <1>2, <2>1, RequestFields, SpecFields, NodeFields
<1>4. DOMAIN node.info[1] \subseteq Slots
  BY <1>3, InfoVal
<1>5. /\ todo \in SUBSET (Names \X Slots)
      /\ \A m, s : <<m, s>> \in todo <=> ChassisValid(node) /\ m = n /\ s \in DOMAIN node.info[1]
  BY <1>4
<1>6. PICK r2 : r2 = With(r, r.spec, r.nodes \ {n}, todo, {})
  OBVIOUS
<1>7. req' = [req EXCEPT ![l] = r2]
  <2>1. r2 = [r EXCEPT !.nodes = @ \ {n}, !.todo = todo]
    <3>1. r = [kind |-> r.kind, step |-> r.step, rv |-> r.rv, spec |-> r.spec,
               shared |-> r.shared, nodes |-> r.nodes, todo |-> r.todo, write |-> r.write]
      BY <1>2, RequestFields
    <3> HIDE DEF r, todo
    <3>2. QED
      BY <1>1, <1>6, <3>1 DEF With
  <2>2. req' = [req EXCEPT ![l] = [req[l] EXCEPT !.nodes = @ \ {n}, !.todo = todo]]
    BY DEF FillNode
  <2> HIDE DEF todo
  <2>3. QED
    BY <2>1, <2>2
<1> HIDE DEF todo
<1>8. /\ IsSpec(r.spec, Types) /\ r.nodes \ {n} \in SUBSET Names
      /\ {} \in SUBSET (Names \X Slots)
  BY <1>1, <1>2, RequestFields
<1>9. /\ IsRequest(r2, Len(heap)) /\ r2.step = "fill" /\ r2.spec = r.spec
      /\ r2.shared = r.shared /\ r2.nodes = r.nodes \ {n} /\ r2.todo = todo /\ r2.write = {}
  BY <1>1, <1>2, <1>5, <1>6, <1>8, WithFields
<1>10. FillInv(r2, heap)
  BY <1>1, <1>2, <1>5, <1>9, FillNodeInv
<1>11. QED
  BY <1>1, <1>2, <1>7, <1>9, <1>10, OnlyRequest DEF RequestInv

LEMMA ReadSysInfoStep ==
  ASSUME AdmissionInv, NEW l \in Labs, NEW n \in Names, NEW s \in Slots, ReadSysInfo(l, n, s)
  PROVE  AdmissionInv'
<1> DEFINE r == req[l]
           todo == r.todo \ {<<n, s>>}
           write == IF CardInfo(r, heap, n, s) = Nil THEN {<<n, s>>} ELSE {}
<1>1. /\ <<n, s>> \in r.todo /\ r.write = {}
      /\ UNCHANGED <<lab, gconf, heap, writes, loads, crashes>>
  BY DEF ReadSysInfo
<1>2. /\ r.step = "fill" /\ IsRequest(r, Len(heap)) /\ FillInv(r, heap)
      /\ writes' \in 0..MaxWrite
  BY <1>1 DEF AdmissionInv, RequestInv
<1>3. SysInfo(l, n, s) = CardInfo(r, heap, n, s)
  BY DEF SysInfo, CardInfo
<1>4. PICK r2 : r2 = With(r, r.spec, r.nodes, todo, write)
  OBVIOUS
<1>5. req' = [req EXCEPT ![l] = r2]
  <2>1. r2 = [r EXCEPT !.todo = todo, !.write = write]
    <3>1. r = [kind |-> r.kind, step |-> r.step, rv |-> r.rv, spec |-> r.spec,
               shared |-> r.shared, nodes |-> r.nodes, todo |-> r.todo, write |-> r.write]
      BY <1>2, RequestFields
    <3> HIDE DEF r, todo, write
    <3>2. QED
      BY <1>4, <3>1 DEF With
  <2>2. req' = [req EXCEPT ![l] = [req[l] EXCEPT !.todo = todo, !.write = write]]
    BY <1>3 DEF ReadSysInfo
  <2> HIDE DEF todo, write
  <2>3. QED
    BY <2>1, <2>2
<1>6. /\ IsSpec(r.spec, Types) /\ r.nodes \in SUBSET Names
      /\ todo \in SUBSET (Names \X Slots) /\ write \in SUBSET (Names \X Slots)
  BY <1>2, RequestFields
<1>7. todo = r.todo \ {<<n, s>>} /\ write = IF CardInfo(r, heap, n, s) = Nil THEN {<<n, s>>} ELSE {}
  OBVIOUS
<1> HIDE DEF todo, write
<1>8. /\ IsRequest(r2, Len(heap)) /\ r2.step = "fill" /\ r2.spec = r.spec
      /\ r2.shared = r.shared /\ r2.nodes = r.nodes /\ r2.todo = todo /\ r2.write = write
  BY <1>2, <1>4, <1>6, WithFields
<1>9. FillInv(r2, heap)
  BY <1>1, <1>2, <1>7, <1>8, ReadSysInfoInv
<1>10. QED
  BY <1>1, <1>2, <1>5, <1>8, <1>9, OnlyRequest DEF RequestInv

\* A step of one request in which cards of a GCONF may grow.
LEMMA GrowingRequest ==
  ASSUME AdmissionInv, NEW l \in Labs, NEW r, req' = [req EXCEPT ![l] = r],
         heap' \in Seq([Types -> Infos]), Len(heap') = Len(heap), Grows(heap, heap'),
         RequestInv(r, heap'), UNCHANGED <<lab, gconf, writes, loads, crashes>>
  PROVE  AdmissionInv'
<1>1. ASSUME NEW k \in Labs, k # l PROVE RequestInv(req'[k], heap')
  <2>1. req'[k] = req[k] /\ RequestInv(req[k], heap)
    BY <1>1 DEF AdmissionInv
  <2>2. RequestInv(req[k], heap')
    <3>1. CASE req[k].step = "fill"
      BY <2>1, <3>1, GrownInv DEF RequestInv
    <3>2. CASE req[k].step # "fill"
      BY <2>1, <3>2 DEF RequestInv
    <3>3. QED
      BY <3>1, <3>2
  <2>3. QED
    BY <2>1, <2>2
<1>2. req' = [k \in Labs |-> req'[k]] /\ req'[l] = r
  BY DEF AdmissionInv
<1>3. \A k \in Labs : RequestInv(req'[k], heap')
  BY <1>1, <1>2
<1>4. GconfInv'
  <2>1. Len(heap) \in 1..Len(heap) /\ Len(heap') # 0
    BY DEF AdmissionInv, GconfInv
  <2>2. ASSUME NEW t \in Types PROVE SameCards(gconf[t].info, heap'[Len(heap)][t])
    <3>1. SameCards(gconf[t].info, heap[Len(heap)][t])
      BY DEF AdmissionInv, GconfInv
    <3>2. SameCards(heap[Len(heap)][t], heap'[Len(heap)][t])
      BY <2>1 DEF Grows
    <3>3. QED
      BY <3>1, <3>2 DEF SameCards
  <2>3. QED
    BY <2>1, <2>2 DEF AdmissionInv, GconfInv
<1>5. QED
  BY <1>2, <1>3, <1>4 DEF AdmissionInv

LEMMA GrowsRefl ==
  ASSUME NEW h \in Seq([Types -> Infos])
  PROVE  Grows(h, h)
BY DEF Grows, SameCards

LEMMA WriteSysInfoStep ==
  ASSUME AdmissionInv, NEW l \in Labs, NEW n \in Names, NEW s \in Slots, WriteSysInfo(l, n, s)
  PROVE  AdmissionInv'
<1> DEFINE r == req[l]
           node == r.spec.nodes[n]
           g == r.shared[n]
<1>1. <<n, s>> \in r.write /\ UNCHANGED <<lab, gconf, writes, loads, crashes>>
  BY DEF WriteSysInfo
<1>2. /\ r.step = "fill" /\ IsRequest(r, Len(heap)) /\ FillInv(r, heap)
      /\ heap \in Seq([Types -> Infos]) /\ writes' \in 0..MaxWrite
  BY <1>1 DEF AdmissionInv, RequestInv
<1>3. /\ n \in DOMAIN r.spec.nodes /\ node \in NodeRecs(Types) /\ node.type \in Types
      /\ node.model \in Ptr(Models) /\ node.model # Nil
      /\ node.info \in Infos /\ node.info # Nil /\ s \in DOMAIN node.info[1]
      /\ g \in 0..Len(heap) /\ (g # 0 => SameCards(node.info, heap[g][node.type]))
  <2>1. <<n, s>> \in r.todo \cup r.write
    BY <1>1
  <2>2. QED
    BY <1>2, <2>1, WriteCard
<1>4. /\ IsSpec(r.spec, Types) /\ r.nodes \in SUBSET Names /\ r.todo \in SUBSET (Names \X Slots)
      /\ {} \in SUBSET (Names \X Slots) /\ r.write \in SUBSET (Names \X Slots)
      /\ r = [kind |-> r.kind, step |-> r.step, rv |-> r.rv, spec |-> r.spec,
              shared |-> r.shared, nodes |-> r.nodes, todo |-> r.todo, write |-> r.write]
  BY <1>2, RequestFields
<1>5. CASE g = 0
  <2> DEFINE q == Ref([node.info[1] EXCEPT ![s] = node.model])
             new == [node EXCEPT !.info = q]
             nodes == [r.spec.nodes EXCEPT ![n] = new]
             spec == [r.spec EXCEPT !.nodes = nodes]
  <2>1. req' = [req EXCEPT ![l] = [req[l] EXCEPT !.write = {}, !.spec = spec]] /\ heap' = heap
    <3>1. req' = [req EXCEPT ![l].write = {}, ![l].spec.nodes[n].info = q] /\ heap' = heap
      BY <1>5 DEF WriteSysInfo
    <3>2. /\ r.spec = [nodes |-> r.spec.nodes, mac |-> r.spec.mac, port |-> r.spec.port]
          /\ req = [k \in Labs |-> req[k]]
      BY <1>4, SpecFields DEF AdmissionInv
    <3> HIDE DEF q
    <3>3. QED
      BY <1>3, <1>4, <3>1, <3>2
  <2>2. q \in Infos
    <3>1. PICK p, v : p = node.info /\ v = node.model
      OBVIOUS
    <3>2. CardWritten(Ref([p[1] EXCEPT ![s] = v]), p, s, v)
      BY <1>3, <3>1, InfoWrite
    <3>3. QED
      BY <3>1, <3>2 DEF CardWritten
  <2>3. q = Ref([node.info[1] EXCEPT ![s] = node.model])
    OBVIOUS
  <2> HIDE DEF q
  <2>4. /\ new \in NodeRecs(Types) /\ new.type = node.type /\ new.model = node.model
        /\ new.info = q
    BY <1>3, <2>2 DEF NodeRecs
  <2> HIDE DEF new
  <2>5. /\ r.spec.nodes \in [DOMAIN r.spec.nodes -> NodeRecs(Types)]
        /\ r.spec = [nodes |-> r.spec.nodes, mac |-> r.spec.mac, port |-> r.spec.port]
        /\ DOMAIN r.spec.nodes \subseteq Names
        /\ r.spec.mac \in [Conns -> Ptr(0..Cardinality(Conns))]
        /\ r.spec.port \in [Conns -> Ptr(Slots)]
    BY <1>4, SpecFields
  <2>6. /\ nodes \in [DOMAIN r.spec.nodes -> NodeRecs(Types)] /\ nodes[n] = new
        /\ DOMAIN nodes = DOMAIN r.spec.nodes
        /\ \A m \in DOMAIN r.spec.nodes : m # n => nodes[m] = r.spec.nodes[m]
    BY <1>3, <2>4, <2>5
  <2> HIDE DEF nodes
  <2>7. /\ spec = [nodes |-> nodes, mac |-> r.spec.mac, port |-> r.spec.port]
        /\ spec.nodes = nodes /\ spec.mac = r.spec.mac /\ spec.port = r.spec.port
    BY <2>5
  <2> HIDE DEF spec
  <2>8. IsSpec(spec, Types) /\ DOMAIN spec.nodes = DOMAIN r.spec.nodes
    BY <2>5, <2>6, <2>7 DEF IsSpec
  <2>9. PICK r1, r2 : /\ r1 = With(r, spec, r.nodes, r.todo, r.write)
                      /\ r2 = With(r, spec, r.nodes, r.todo, {})
    OBVIOUS
  <2>10. /\ r1.spec = spec /\ r1.shared = r.shared /\ r1.nodes = r.nodes /\ r1.todo = r.todo
         /\ r1.write = r.write
    BY <1>2, <1>4, <2>8, <2>9, WithFields
  <2>11. /\ r2.spec = spec /\ r2.shared = r.shared /\ r2.nodes = r.nodes /\ r2.todo = r.todo
         /\ r2.write = {} /\ r2.step = "fill" /\ IsRequest(r2, Len(heap))
    BY <1>2, <1>4, <2>8, <2>9, WithFields
  <2>12. FillInv(r1, heap) /\ CardInfo(r1, heap, n, s) # Nil
    BY <1>1, <1>2, <1>5, <2>3, <2>4, <2>6, <2>7, <2>8, <2>10, OwnInv, ZenonT(60)
  <2>13. FillInv(r2, heap)
    BY <1>1, <2>10, <2>11, <2>12, WrittenInv
  <2>14. req' = [req EXCEPT ![l] = r2]
    <3>1. r2 = [r EXCEPT !.write = {}, !.spec = spec]
      <4> HIDE DEF r
      <4>1. QED
        BY <1>4, <2>9 DEF With
    <3>2. QED
      BY <2>1, <3>1
  <2>15. QED
    BY <1>1, <1>2, <2>1, <2>11, <2>13, <2>14, OnlyRequest DEF RequestInv
<1>6. CASE g # 0
  <2> DEFINE t == node.type
  <2>1. /\ req' = [req EXCEPT ![l] = [req[l] EXCEPT !.write = {}]]
        /\ heap' = Wrote(heap, g, t, s, node.model)
    BY <1>6 DEF WriteSysInfo, Wrote
  <2>2. g \in 1..Len(heap) /\ heap[g][t] # Nil /\ s \in DOMAIN heap[g][t][1]
    <3>1. SameCards(node.info, heap[g][t]) /\ node.info # Nil /\ s \in DOMAIN node.info[1]
      BY <1>3, <1>6
    <3>2. heap[g][t] # Nil /\ s \in DOMAIN heap[g][t][1]
      BY <3>1 DEF SameCards
    <3>3. g \in 0..Len(heap) /\ Len(heap) \in Nat
      BY <1>2, <1>3
    <3> HIDE DEF g
    <3>4. g \in 1..Len(heap)
      BY <1>6, <3>3
    <3>5. QED
      BY <3>2, <3>4
  <2>3. /\ heap' \in Seq([Types -> Infos]) /\ Len(heap') = Len(heap) /\ Grows(heap, heap')
        /\ heap'[g][t][1][s] # Nil
    <3>1. t \in Types /\ node.model \in Ptr(Models) /\ node.model # Nil
      BY <1>3
    <3> HIDE DEF g, t, node
    <3>2. QED
      BY <1>2, <2>1, <2>2, <3>1, SharedGrows
  <2>4. FillInv(r, heap')
    BY <1>2, <2>3, GrownInv
  <2>5. CardInfo(r, heap', n, s) # Nil
    BY <1>6, <2>3 DEF CardInfo
  <2>6. PICK r2 : r2 = With(r, r.spec, r.nodes, r.todo, {})
    OBVIOUS
  <2>7. /\ r2.spec = r.spec /\ r2.shared = r.shared /\ r2.nodes = r.nodes /\ r2.todo = r.todo
        /\ r2.write = {} /\ r2.step = "fill" /\ IsRequest(r2, Len(heap))
    BY <1>2, <1>4, <2>6, WithFields
  <2>8. FillInv(r2, heap')
    BY <1>1, <2>4, <2>5, <2>7, WrittenInv
  <2>9. req' = [req EXCEPT ![l] = r2]
    <3>1. r2 = [r EXCEPT !.write = {}]
      <4> HIDE DEF r
      <4>1. QED
        BY <1>4, <2>6 DEF With
    <3>2. QED
      BY <2>1, <3>1
  <2>10. QED
    BY <1>1, <1>2, <2>3, <2>7, <2>8, <2>9, GrowingRequest DEF RequestInv
<1>7. QED
  BY <1>5, <1>6

\* What Decide may store.
Admitted(l, full) ==
  /\ IsSpec(full, Types) /\ Settled(full) /\ Admissible(l, full)
  /\ DOMAIN full.nodes = DOMAIN req[l].spec.nodes /\ full.mac = req[l].spec.mac
  /\ \A n \in DOMAIN full.nodes :
       /\ full.nodes[n].type = req[l].spec.nodes[n].type
       /\ full.nodes[n].mac = IF TypeOf[n] \in SRTypes
                                THEN Or(req[l].spec.nodes[n].mac, Ref(NodeIndex(full.nodes, n)))
                                ELSE req[l].spec.nodes[n].mac

LEMMA DecideCases ==
  ASSUME AdmissionInv, NEW l \in Labs, Decide(l)
  PROVE  \/ Refuse(l)
         \/ \E full : /\ Admitted(l, full) /\ lab' = [lab EXCEPT ![l] = Stored(l, full)]
                      /\ req' = [req EXCEPT ![l] = NoReq] /\ UNCHANGED heap
<1> DEFINE spec == Serialised(l)
<1>1. SUFFICES ASSUME ~Refuse(l)
               PROVE  \E full : /\ Admitted(l, full) /\ lab' = [lab EXCEPT ![l] = Stored(l, full)]
                                /\ req' = [req EXCEPT ![l] = NoReq] /\ UNCHANGED heap
  OBVIOUS
<1>2. /\ req[l].step = "fill" /\ req[l].nodes = {} /\ req[l].todo = {} /\ req[l].write = {}
      /\ ~Panics(spec.nodes)
  BY <1>1 DEF Decide
<1>3. PICK p \in PortChoices(spec) :
        LET full == [spec EXCEPT !.port = p] IN
        /\ Admissible(l, full) /\ lab' = [lab EXCEPT ![l] = Stored(l, full)]
        /\ req' = [req EXCEPT ![l] = NoReq] /\ UNCHANGED heap
  BY <1>1 DEF Decide
<1>4. PICK sp, full : sp = spec /\ full = [sp EXCEPT !.port = p]
  OBVIOUS
<1>5. /\ Admissible(l, full) /\ lab' = [lab EXCEPT ![l] = Stored(l, full)]
      /\ req' = [req EXCEPT ![l] = NoReq] /\ UNCHANGED heap
  BY <1>3, <1>4
<1>6. /\ heap \in Seq([Types -> Infos]) /\ IsRequest(req[l], Len(heap)) /\ FillInv(req[l], heap)
  BY <1>2 DEF AdmissionInv, RequestInv
<1>7. sp = Serialised(l) /\ p \in PortChoices(sp) /\ ~Panics(sp.nodes)
  BY <1>2, <1>4
<1> HIDE DEF spec
<1>8. /\ Ready(sp) /\ DOMAIN sp.nodes = DOMAIN req[l].spec.nodes /\ sp.mac = req[l].spec.mac
      /\ \A n \in DOMAIN sp.nodes :
           /\ sp.nodes[n].type = req[l].spec.nodes[n].type
           /\ sp.nodes[n].mac = IF TypeOf[n] \in SRTypes
                THEN Or(req[l].spec.nodes[n].mac, Ref(NodeIndex(sp.nodes, n)))
                ELSE req[l].spec.nodes[n].mac
  BY <1>2, <1>6, <1>7, SerialisedReady
<1>9. Valid(full)
  BY <1>5 DEF Admissible
<1>10. /\ IsSpec(full, Types) /\ Settled(full) /\ full.nodes = sp.nodes /\ full.mac = sp.mac
  BY <1>4, <1>7, <1>8, <1>9, AdmittedSettled
<1>11. Admitted(l, full)
  BY <1>5, <1>8, <1>10 DEF Admitted
<1>12. QED
  BY <1>5, <1>11

LEMMA NextVersion ==
  ASSUME NEW o, o \in [ph : Phase, rv : Nat, spec : {o.spec}], NEW spec,
         NEW o2, o2 = [o EXCEPT !.rv = @ + 1, !.spec = spec]
  PROVE  o2 = [ph |-> o.ph, rv |-> o.rv + 1, spec |-> spec]
<1>1. DOMAIN o = {"ph", "rv", "spec"}
  OBVIOUS
<1>2. o2.ph = o.ph /\ o2.rv = o.rv + 1 /\ o2.spec = spec
  BY <1>1
<1>3. o2 = [f \in {"ph", "rv", "spec"} |-> o2[f]]
  BY <1>1
<1>4. QED
  BY <1>2, <1>3

\* What is stored: a new Lab, or the Lab as it is in its next phase.
LEMMA StoredCases ==
  ASSUME NEW l \in Labs, LabInv(lab[l]), NEW full, Valid(full), Admissible(l, full),
         NEW o, o = Stored(l, full)
  PROVE  \/ req[l].kind = "create" /\ o = [ph |-> "bare", rv |-> lab[l].rv + 1, spec |-> full]
         \/ req[l].kind = "update" /\ o = lab[l]
         \/ /\ req[l].kind \notin {"create", "update"} /\ lab[l].ph = "dying"
            /\ o = [ph |-> "gone", rv |-> lab[l].rv + 1, spec |-> NoSpec]
         \/ /\ req[l].kind \notin {"create", "update"} /\ lab[l].ph \in {"bare", "held"}
            /\ o = [ph |-> "held", rv |-> lab[l].rv + 1, spec |-> lab[l].spec]
<1>1. /\ lab[l] \in [ph : Phase, rv : Nat, spec : {lab[l].spec}] /\ lab[l].ph \in Phase
  BY DEF LabInv
<1> DEFINE obj == [lab[l] EXCEPT !.rv = @ + 1, !.spec = full]
<1>2. obj = [ph |-> lab[l].ph, rv |-> lab[l].rv + 1, spec |-> full]
  BY <1>1, NextVersion
<1> HIDE DEF obj
<1>4. CASE req[l].kind = "create"
  <2>1. o = [obj EXCEPT !.ph = "bare"]
    BY <1>4 DEF Stored, obj
  <2>2. QED
    BY <1>2, <1>4, <2>1
<1>5. CASE req[l].kind = "update"
  BY <1>5 DEF Stored
<1>6. CASE req[l].kind \notin {"create", "update"}
  <2>1. full = lab[l].spec
    BY <1>6 DEF Admissible
  <2>2. lab[l].ph # "gone"
    BY <2>1, NoSpecType DEF LabInv, Exists, Valid
  <2>3. CASE lab[l].ph = "dying"
    <3>1. o = [WithoutFinalizer(obj) EXCEPT !.spec = NoSpec]
      BY <1>6, <2>3 DEF Stored, obj
    <3>2. WithoutFinalizer(obj) = [ph |-> "gone", rv |-> lab[l].rv + 1, spec |-> full]
      BY <1>2, <2>3 DEF WithoutFinalizer
    <3>3. QED
      BY <1>6, <2>3, <3>1, <3>2
  <2>4. CASE lab[l].ph \in {"bare", "held"}
    <3>1. o = WithFinalizer(obj)
      BY <1>6, <2>4 DEF Stored, obj
    <3>2. QED
      BY <1>2, <1>6, <2>1, <2>4, <3>1 DEF WithFinalizer
  <2>5. QED
    BY <1>1, <2>2, <2>3, <2>4 DEF Phase
<1>7. QED
  BY <1>4, <1>5, <1>6

LEMMA DecideInv ==
  ASSUME AdmissionInv, NEW l \in Labs, Decide(l)
  PROVE  AdmissionInv'
<1>1. UNCHANGED <<gconf, writes, loads, crashes>> /\ writes' \in 0..MaxWrite
  BY DEF Decide, AdmissionInv
<1>2. CASE Refuse(l)
  BY <1>1, <1>2, RefuseInv
<1>3. ASSUME NEW full, Admitted(l, full), lab' = [lab EXCEPT ![l] = Stored(l, full)],
             req' = [req EXCEPT ![l] = NoReq], UNCHANGED heap
      PROVE  AdmissionInv'
  <2>1. PICK o : o = Stored(l, full)
    OBVIOUS
  <2>2. /\ lab = [k \in Labs |-> lab[k]] /\ req = [k \in Labs |-> req[k]] /\ LabInv(lab[l])
    BY DEF AdmissionInv
  <2>3. Valid(full) /\ Admissible(l, full) /\ IsSpec(full, Types) /\ Settled(full)
    BY <1>3 DEF Admitted, Admissible
  <2>4. LabInv(o)
    <3>1. lab[l].rv \in Nat /\ (Exists(lab[l]) => Settled(lab[l].spec)) /\ IsSpec(lab[l].spec, Types)
      BY <2>2 DEF LabInv
    <3>2. CASE o = [ph |-> "bare", rv |-> lab[l].rv + 1, spec |-> full]
      BY <2>3, <3>1, <3>2 DEF LabInv, Exists, Phase
    <3>3. CASE o = [ph |-> "gone", rv |-> lab[l].rv + 1, spec |-> NoSpec]
      BY <3>1, <3>3, NoLabInv
    <3>4. CASE /\ o = [ph |-> "held", rv |-> lab[l].rv + 1, spec |-> lab[l].spec]
               /\ lab[l].ph \in {"bare", "held"}
      BY <3>1, <3>4 DEF LabInv, Exists, Phase
    <3>5. CASE o = lab[l]
      BY <2>2, <3>5
    <3>6. QED
      BY <2>1, <2>2, <2>3, <3>2, <3>3, <3>4, <3>5, StoredCases
  <2>5. lab' = [lab EXCEPT ![l] = o]
    BY <1>3, <2>1
  <2>6. /\ lab' = [k \in Labs |-> lab'[k]] /\ (\A k \in Labs : k # l => lab'[k] = lab[k])
        /\ lab'[l] = o
    BY <2>2, <2>5
  <2>7. /\ req' = [k \in Labs |-> req'[k]] /\ (\A k \in Labs : k # l => req'[k] = req[k])
        /\ req'[l] = NoReq
    BY <1>3, <2>2
  <2>8. RequestInv(req'[l], heap) /\ LabInv(lab'[l])
    BY <2>4, <2>6, <2>7, NoReqInv
  <2>9. QED
    BY <1>1, <1>3, <2>6, <2>7, <2>8, OneRequest
<1>4. QED
  BY <1>2, <1>3, DecideCases

LEMMA LoadConfigInv ==
  ASSUME AdmissionInv, NEW c \in Configs, LoadConfig(c)
  PROVE  AdmissionInv'
<1> DEFINE cards == Cards(c)
<1>1. /\ IsConfig(c) /\ cards \in [Types -> Infos]
      /\ \A t \in Types : SameCards(c[t].info, cards[t])
  BY ConfigsAre, CardsType
<1>2. /\ loads' \in 0..MaxLoad /\ gconf' = c /\ heap' = Append(heap, cards)
      /\ heap \in Seq([Types -> Infos]) /\ UNCHANGED <<lab, req, writes, crashes>>
  BY AdmissionAssumption DEF AdmissionInv, LoadConfig
<1> HIDE DEF cards
<1>3. /\ heap' \in Seq([Types -> Infos]) /\ Len(heap') = Len(heap) + 1 /\ heap' # <<>>
      /\ heap'[Len(heap')] = cards /\ \A g \in 1..Len(heap) : heap'[g] = heap[g]
  BY <1>1, <1>2
<1>4. GconfInv'
  BY <1>1, <1>2, <1>3 DEF GconfInv
<1>5. Grows(heap, heap')
  BY <1>2, <1>3 DEF Grows, SameCards
<1>6. ASSUME NEW k \in Labs PROVE RequestInv(req[k], heap')
  <2>1. RequestInv(req[k], heap)
    BY DEF AdmissionInv
  <2>2. CASE req[k].step = "fill"
    BY <1>5, <2>1, <2>2, GrownInv DEF RequestInv
  <2>3. CASE req[k].step # "fill"
    BY <2>1, <2>3 DEF RequestInv, IsRequest
  <2>4. QED
    BY <2>2, <2>3
<1>7. QED
  BY <1>2, <1>3, <1>4, <1>6 DEF AdmissionInv

\* GCONF as newConfig makes it.
LEMMA NewConfig ==
  ASSUME NEW h, h = <<Cards(DefKNLConfig)>>
  PROVE  /\ h \in Seq([Types -> Infos]) /\ IsConfig(DefKNLConfig) /\ h # <<>>
         /\ \A t \in Types : SameCards(DefKNLConfig[t].info, h[Len(h)][t])
<1>1. PICK cards : cards = Cards(DefKNLConfig)
  OBVIOUS
<1>2. /\ IsConfig(DefKNLConfig) /\ cards \in [Types -> Infos]
      /\ \A t \in Types : SameCards(DefKNLConfig[t].info, cards[t])
  BY <1>1, ConfigsAre, CardsType
<1>3. h = <<cards>>
  BY <1>1
<1>4. h \in Seq([Types -> Infos]) /\ h # <<>> /\ h[Len(h)] = cards
  BY <1>2, <1>3
<1>5. QED
  BY <1>2, <1>4

LEMMA CrashInv ==
  ASSUME AdmissionInv, Crash
  PROVE  AdmissionInv'
<1>1. /\ crashes' \in 0..MaxCrash /\ gconf' = DefKNLConfig /\ heap' = <<Cards(DefKNLConfig)>>
      /\ req' = [l \in Labs |-> NoReq] /\ UNCHANGED <<lab, writes, loads>>
  BY AdmissionAssumption DEF AdmissionInv, Crash
<1>2. heap' \in Seq([Types -> Infos]) /\ GconfInv'
  BY <1>1, NewConfig DEF GconfInv
<1>3. /\ req' = [l \in Labs |-> req'[l]] /\ \A l \in Labs : RequestInv(req'[l], heap')
  BY <1>1, NoReqInv
<1>4. QED
  BY <1>1, <1>2, <1>3 DEF AdmissionInv

LEMMA InitInv == Init => AdmissionInv
<1> SUFFICES ASSUME Init PROVE AdmissionInv
  OBVIOUS
<1>1. heap \in Seq([Types -> Infos]) /\ GconfInv
  BY NewConfig DEF GconfInv, Init
<1>2. /\ req = [l \in Labs |-> req[l]] /\ \A l \in Labs : RequestInv(req[l], heap)
  BY NoReqInv DEF Init
<1>3. LabInv(NoObj)
  <2>1. /\ NoObj.ph = "gone" /\ NoObj.rv \in Nat
        /\ NoObj = [ph |-> NoObj.ph, rv |-> NoObj.rv, spec |-> NoSpec]
    BY DEF NoObj
  <2>2. QED
    BY <2>1, NoLabInv
<1>4. lab = [l \in Labs |-> lab[l]] /\ \A l \in Labs : LabInv(lab[l])
  BY <1>3 DEF Init
<1>5. QED
  BY <1>1, <1>2, <1>4, AdmissionAssumption DEF AdmissionInv, Init

LEMMA NextInv == AdmissionInv /\ [Next]_vars => AdmissionInv'
<1> SUFFICES ASSUME AdmissionInv, [Next]_vars PROVE AdmissionInv'
  OBVIOUS
<1>1. ASSUME NEW l \in Labs, Admission(l) PROVE AdmissionInv'
  BY <1>1, DefaultNodesInv, FillNodeStep, ReadSysInfoStep, WriteSysInfoStep, DecideInv
     DEF Admission
<1>2. ASSUME NEW l \in Labs, OperatorUpdate(l) PROVE AdmissionInv'
  BY <1>2, OperatorUpdateInv
<1>3. ASSUME NEW l \in Labs, UserDelete(l) PROVE AdmissionInv'
  BY <1>3, UserDeleteInv
<1>4. ASSUME NEW l \in Labs, NEW m \in Manifests[l], UserCreate(l, m) \/ UserUpdate(l, m)
      PROVE  AdmissionInv'
  BY <1>4, UserCreateInv, UserUpdateInv
<1>5. ASSUME NEW c \in Configs, LoadConfig(c) PROVE AdmissionInv'
  BY <1>5, LoadConfigInv
<1>6. CASE Crash
  BY <1>6, CrashInv
<1>7. CASE UNCHANGED vars
  BY <1>7 DEF vars, AdmissionInv, GconfInv
<1>8. QED
  BY <1>1, <1>2, <1>3, <1>4, <1>5, <1>6, <1>7 DEF Next

LEMMA AdmissionInvariant == Spec => []AdmissionInv
BY InitInv, NextInv, PTL DEF Spec

-----------------------------------------------------------------------------
(* What a step does to one Lab and its request *)

\* A request begins.
Begins(l, kind, spec) ==
  /\ kind \in {"create", "update", "finalizer"}
  /\ req'[l] = [kind |-> kind, step |-> "default", rv |-> lab[l].rv, spec |-> spec,
                shared |-> <<>>, nodes |-> {}, todo |-> {}, write |-> {}]
  /\ IF kind = "finalizer" THEN spec = lab[l].spec /\ lab[l].ph \in {"bare", "dying"}
                           ELSE spec \in Manifests[l]

Begun(l) == \E kind, spec : Begins(l, kind, spec)

\* LoadDef.
LoadedDef(l) ==
  \E nodes, off :
    /\ nodes = WithNodes(req[l].spec.nodes) /\ \A n \in DOMAIN nodes : nodes[n].type # "unknown"
    /\ off \in [Conns -> 1..Cardinality(Conns)] /\ IsMacOffset(off)
    /\ req[l].step = "default" /\ req'[l] = Defaulted(req[l], nodes, off)

\* No more than the SysInfo of cards.
Kept(l) ==
  /\ req'[l].kind = req[l].kind /\ req'[l].step = req[l].step /\ req'[l].rv = req[l].rv
  /\ req'[l].shared = req[l].shared /\ req'[l].spec.mac = req[l].spec.mac
  /\ DOMAIN req'[l].spec.nodes = DOMAIN req[l].spec.nodes
  /\ \A n \in DOMAIN req[l].spec.nodes :
       /\ req'[l].spec.nodes[n].type = req[l].spec.nodes[n].type
       /\ req'[l].spec.nodes[n].mac = req[l].spec.nodes[n].mac
  /\ req[l].write = {} => req'[l].spec = req[l].spec
  /\ \/ req'[l].write = {} \/ req'[l].write = req[l].write
     \/ \E n \in Names, s \in Slots : <<n, s>> \in req[l].todo /\ CardInfo(req[l], heap, n, s) = Nil

\* The Lab goes on to its next phase.
Moved(l) ==
  /\ lab'[l].rv = lab[l].rv + 1
  /\ \/ Exists(lab'[l]) /\ Exists(lab[l]) /\ lab'[l].spec = lab[l].spec
     \/ ~Exists(lab'[l]) /\ lab'[l].spec = NoSpec

\* The Lab is created.
Created(l) ==
  /\ req[l].kind = "create" /\ req[l].step = "fill" /\ lab'[l].rv = lab[l].rv + 1
  /\ Admitted(l, lab'[l].spec)

LEMMA SameKept ==
  ASSUME NEW l, req'[l] = req[l]
  PROVE  Kept(l)
BY DEF Kept

LEMMA BeginBegun ==
  ASSUME AdmissionInv, NEW l \in Labs, NEW kind \in {"create", "update", "finalizer"}, NEW spec,
         Begin(l, kind, spec),
         IF kind = "finalizer" THEN spec = lab[l].spec /\ lab[l].ph \in {"bare", "dying"}
                               ELSE spec \in Manifests[l]
  PROVE  Begun(l)
<1>1. PICK r : /\ r = [NoReq EXCEPT !.kind = kind, !.step = "default",
                                    !.rv = lab[l].rv, !.spec = spec]
               /\ req' = [req EXCEPT ![l] = r]
  BY DEF Begin
<1>2. PICK rv : rv = lab[l].rv
  OBVIOUS
<1>3. r = [NoReq EXCEPT !.kind = kind, !.step = "default", !.rv = rv, !.spec = spec]
  BY <1>1, <1>2
<1>4. r = [kind |-> kind, step |-> "default", rv |-> rv, spec |-> spec,
           shared |-> <<>>, nodes |-> {}, todo |-> {}, write |-> {}]
  BY <1>3 DEF NoReq
<1>5. req'[l] = r
  BY <1>1 DEF AdmissionInv
<1>6. req'[l] = [kind |-> kind, step |-> "default", rv |-> lab[l].rv, spec |-> spec,
                 shared |-> <<>>, nodes |-> {}, todo |-> {}, write |-> {}]
  BY <1>2, <1>4, <1>5
<1>7. Begins(l, kind, spec)
  BY <1>6 DEF Begins
<1>8. QED
  BY <1>7 DEF Begun

LEMMA FillKept ==
  ASSUME AdmissionInv, NEW l \in Labs, NEW n \in Names, FillNode(l, n)
  PROVE  Kept(l)
<1>1. /\ req[l].write = {} /\ IsRequest(req[l], Len(heap))
      /\ \E todo : req'[l] = [req[l] EXCEPT !.nodes = @ \ {n}, !.todo = todo]
  BY DEF FillNode, AdmissionInv, RequestInv
<1>2. PICK todo : req'[l] = [req[l] EXCEPT !.nodes = @ \ {n}, !.todo = todo]
  BY <1>1
<1>3. PICK r : r = req[l]
  OBVIOUS
<1>4. r = [kind |-> r.kind, step |-> r.step, rv |-> r.rv, spec |-> r.spec,
           shared |-> r.shared, nodes |-> r.nodes, todo |-> r.todo, write |-> r.write]
  BY <1>1, <1>3, RequestFields
<1>5. /\ req'[l].kind = r.kind /\ req'[l].step = r.step /\ req'[l].rv = r.rv
      /\ req'[l].shared = r.shared /\ req'[l].spec = r.spec /\ req'[l].write = r.write
  BY <1>2, <1>3, <1>4
<1>6. QED
  BY <1>3, <1>5 DEF Kept

LEMMA ReadKept ==
  ASSUME AdmissionInv, NEW l \in Labs, NEW n \in Names, NEW s \in Slots, ReadSysInfo(l, n, s)
  PROVE  Kept(l)
<1>1. /\ IsRequest(req[l], Len(heap)) /\ <<n, s>> \in req[l].todo
      /\ req'[l] = [req[l] EXCEPT !.todo = @ \ {<<n, s>>},
                      !.write = IF SysInfo(l, n, s) = Nil THEN {<<n, s>>} ELSE {}]
  BY DEF ReadSysInfo, AdmissionInv, RequestInv
<1>2. SysInfo(l, n, s) = CardInfo(req[l], heap, n, s)
  BY DEF SysInfo, CardInfo
<1>3. PICK r : r = req[l]
  OBVIOUS
<1>4. r = [kind |-> r.kind, step |-> r.step, rv |-> r.rv, spec |-> r.spec,
           shared |-> r.shared, nodes |-> r.nodes, todo |-> r.todo, write |-> r.write]
  BY <1>1, <1>3, RequestFields
<1>5. PICK td, w : /\ req'[l] = [r EXCEPT !.todo = td, !.write = w]
                   /\ w = IF SysInfo(l, n, s) = Nil THEN {<<n, s>>} ELSE {}
  BY <1>1, <1>3
<1>6. /\ req'[l].kind = r.kind /\ req'[l].step = r.step /\ req'[l].rv = r.rv
      /\ req'[l].shared = r.shared /\ req'[l].spec = r.spec /\ req'[l].write = w
  BY <1>4, <1>5
<1>7. QED
  BY <1>1, <1>2, <1>3, <1>5, <1>6 DEF Kept

LEMMA WriteKept ==
  ASSUME AdmissionInv, NEW l \in Labs, NEW n \in Names, NEW s \in Slots, WriteSysInfo(l, n, s)
  PROVE  Kept(l)
<1>1. /\ IsRequest(req[l], Len(heap)) /\ FillInv(req[l], heap) /\ <<n, s>> \in req[l].write
      /\ req[l].step = "fill" /\ req = [k \in Labs |-> req[k]]
  BY DEF WriteSysInfo, AdmissionInv, RequestInv
<1>2. PICK r : r = req[l]
  OBVIOUS
<1>3. r = [kind |-> r.kind, step |-> r.step, rv |-> r.rv, spec |-> r.spec,
           shared |-> r.shared, nodes |-> r.nodes, todo |-> r.todo, write |-> r.write]
  BY <1>1, <1>2, RequestFields
<1>4. CASE r.shared[n] = 0
  <2>1. PICK q : req' = [req EXCEPT ![l].write = {}, ![l].spec.nodes[n].info = q]
    BY <1>2, <1>4 DEF WriteSysInfo
  <2>2. /\ r.spec = [nodes |-> r.spec.nodes, mac |-> r.spec.mac, port |-> r.spec.port]
        /\ r.spec.nodes \in [DOMAIN r.spec.nodes -> NodeRecs(Types)] /\ n \in DOMAIN r.spec.nodes
    BY <1>1, <1>2, RequestFields, SpecFields DEF FillInv, Pending
  <2>3. req'[l] = [r EXCEPT !.write = {},
                     !.spec = [r.spec EXCEPT !.nodes =
                       [r.spec.nodes EXCEPT ![n] = [r.spec.nodes[n] EXCEPT !.info = q]]]]
    BY <1>1, <1>2, <1>3, <2>1, <2>2
  <2>4. PICK new : new = [r.spec.nodes[n] EXCEPT !.info = q]
    OBVIOUS
  <2>5. new.type = r.spec.nodes[n].type /\ new.mac = r.spec.nodes[n].mac
    BY <2>2, <2>4 DEF NodeRecs
  <2>6. PICK nodes : nodes = [r.spec.nodes EXCEPT ![n] = new]
    OBVIOUS
  <2>7. /\ DOMAIN nodes = DOMAIN r.spec.nodes
        /\ \A m \in DOMAIN r.spec.nodes : nodes[m] = IF m = n THEN new ELSE r.spec.nodes[m]
    BY <2>2, <2>6
  <2>8. PICK spec : spec = [r.spec EXCEPT !.nodes = nodes]
    OBVIOUS
  <2>9. spec.nodes = nodes /\ spec.mac = r.spec.mac
    BY <2>2, <2>8
  <2>10. req'[l] = [r EXCEPT !.write = {}, !.spec = spec]
    BY <2>3, <2>4, <2>6, <2>8
  <2>11. /\ req'[l].kind = r.kind /\ req'[l].step = r.step /\ req'[l].rv = r.rv
         /\ req'[l].shared = r.shared /\ req'[l].spec = spec /\ req'[l].write = {}
    BY <1>3, <2>10
  <2>12. r.write # {}
    BY <1>1, <1>2
  <2>13. QED
    BY <1>2, <2>5, <2>7, <2>9, <2>11, <2>12 DEF Kept
<1>5. CASE r.shared[n] # 0
  <2>1. req' = [req EXCEPT ![l].write = {}]
    BY <1>2, <1>5 DEF WriteSysInfo
  <2>2. req'[l] = [r EXCEPT !.write = {}]
    BY <1>1, <1>2, <2>1
  <2>3. /\ req'[l].kind = r.kind /\ req'[l].step = r.step /\ req'[l].rv = r.rv
        /\ req'[l].shared = r.shared /\ req'[l].spec = r.spec /\ req'[l].write = {}
    BY <1>3, <2>2
  <2>4. QED
    BY <1>2, <2>3 DEF Kept
<1>6. QED
  BY <1>4, <1>5

\* What a step does to a request ...
LEMMA RequestEffect ==
  ASSUME AdmissionInv, [Next]_vars, NEW l \in Labs
  PROVE  req'[l] = NoReq \/ Begun(l) \/ LoadedDef(l) \/ Kept(l)
<1>0. req = [k \in Labs |-> req[k]]
  BY DEF AdmissionInv
<1>1. ASSUME NEW k \in Labs, k # l, NEW r, req' = [req EXCEPT ![k] = r] PROVE Kept(l)
  BY <1>0, <1>1, SameKept
<1>2. ASSUME NEW k \in Labs, Refuse(k) PROVE req'[l] = NoReq \/ Kept(l)
  <2>1. CASE k = l
    BY <1>0, <1>2, <2>1 DEF Refuse
  <2>2. CASE k # l
    BY <1>1, <1>2, <2>2 DEF Refuse
  <2>3. QED
    BY <2>1, <2>2
<1>3. ASSUME NEW k \in Labs, DefaultNodes(k)
      PROVE  req'[l] = NoReq \/ LoadedDef(l) \/ Kept(l)
  <2>1. CASE Refuse(k)
    BY <1>2, <2>1
  <2>2. CASE ~Refuse(k)
    <3>1. PICK nodes : nodes = WithNodes(req[k].spec.nodes)
      OBVIOUS
    <3>2. /\ \A n \in DOMAIN nodes : nodes[n].type # "unknown" /\ req[k].step = "default"
          /\ \E off \in [Conns -> 1..Cardinality(Conns)] :
               IsMacOffset(off) /\ req' = [req EXCEPT ![k] = Defaulted(@, nodes, off)]
      BY <1>3, <2>2, <3>1 DEF DefaultNodes, MacOffsets
    <3>3. PICK off \in [Conns -> 1..Cardinality(Conns)] :
            IsMacOffset(off) /\ req' = [req EXCEPT ![k] = Defaulted(@, nodes, off)]
      BY <3>2
    <3>4. CASE k = l
      <4>1. req'[l] = Defaulted(req[l], nodes, off)
        BY <1>0, <3>3, <3>4
      <4>2. req[l].step = "default"
        BY <1>3, <3>4 DEF DefaultNodes
      <4>3. QED
        BY <3>1, <3>2, <3>3, <3>4, <4>1, <4>2 DEF LoadedDef
    <3>5. CASE k # l
      BY <1>1, <3>3, <3>5
    <3>6. QED
      BY <3>4, <3>5
  <2>3. QED
    BY <2>1, <2>2
<1>4. ASSUME NEW k \in Labs, NEW n \in Names, NEW s \in Slots,
             FillNode(k, n) \/ ReadSysInfo(k, n, s) \/ WriteSysInfo(k, n, s)
      PROVE  Kept(l)
  <2>1. CASE k = l
    BY <1>4, <2>1, FillKept, ReadKept, WriteKept
  <2>2. CASE k # l
    <3>1. req'[l] = req[l]
      BY <1>0, <1>4, <2>2 DEF FillNode, ReadSysInfo, WriteSysInfo
    <3>2. QED
      BY <3>1, SameKept
  <2>3. QED
    BY <2>1, <2>2
<1>5. ASSUME NEW k \in Labs, Decide(k) PROVE req'[l] = NoReq \/ Kept(l)
  <2>1. CASE Refuse(k)
    BY <1>2, <2>1
  <2>2. CASE req' = [req EXCEPT ![k] = NoReq]
    <3>1. CASE k = l
      BY <1>0, <2>2, <3>1
    <3>2. CASE k # l
      BY <1>1, <2>2, <3>2
    <3>3. QED
      BY <3>1, <3>2
  <2>3. QED
    BY <1>5, <2>1, <2>2, DecideCases
<1>6. ASSUME NEW k \in Labs, NEW kind \in {"create", "update", "finalizer"}, NEW spec,
             Begin(k, kind, spec),
             IF kind = "finalizer" THEN spec = lab[k].spec /\ lab[k].ph \in {"bare", "dying"}
                                   ELSE spec \in Manifests[k]
      PROVE  Begun(l) \/ Kept(l)
  <2>1. CASE k = l
    BY <1>6, <2>1, BeginBegun
  <2>2. CASE k # l
    BY <1>1, <1>6, <2>2 DEF Begin
  <2>3. QED
    BY <2>1, <2>2
<1>7. ASSUME NEW k \in Labs, OperatorUpdate(k) PROVE Begun(l) \/ Kept(l)
  BY <1>6, <1>7 DEF OperatorUpdate
<1>8. ASSUME NEW k \in Labs, NEW m \in Manifests[k], UserCreate(k, m) \/ UserUpdate(k, m)
      PROVE  Begun(l) \/ Kept(l)
  BY <1>6, <1>8 DEF UserCreate, UserUpdate
<1>9. ASSUME NEW k \in Labs, UserDelete(k) PROVE Kept(l)
  BY <1>9, SameKept DEF UserDelete
<1>10. ASSUME NEW c \in Configs, LoadConfig(c) PROVE Kept(l)
  BY <1>10, SameKept DEF LoadConfig
<1>11. CASE Crash
  BY <1>11 DEF Crash
<1>12. CASE UNCHANGED vars
  BY <1>12, SameKept DEF vars
<1>13. ASSUME NEW k \in Labs, Admission(k) PROVE req'[l] = NoReq \/ LoadedDef(l) \/ Kept(l)
  <2>1. "A" \in Slots
    BY DEF Slots
  <2>2. QED
    BY <1>3, <1>4, <1>5, <1>13, <2>1 DEF Admission
<1>14. QED
  BY <1>7, <1>8, <1>9, <1>10, <1>11, <1>12, <1>13 DEF Next

\* ... and to a Lab.
LEMMA LabEffect ==
  ASSUME AdmissionInv, [Next]_vars, NEW l \in Labs
  PROVE  lab'[l] = lab[l] \/ Moved(l) \/ Created(l)
<1>0. lab = [k \in Labs |-> lab[k]]
  BY DEF AdmissionInv
<1>1. ASSUME NEW k \in Labs, Decide(k) PROVE lab'[l] = lab[l] \/ Moved(l) \/ Created(l)
  <2>1. CASE Refuse(k)
    BY <2>1 DEF Refuse
  <2>2. ASSUME NEW full, Admitted(k, full), lab' = [lab EXCEPT ![k] = Stored(k, full)]
        PROVE  lab'[l] = lab[l] \/ Moved(l) \/ Created(l)
    <3>1. CASE k # l
      BY <1>0, <2>2, <3>1
    <3>2. CASE k = l
      <4>1. PICK o : o = Stored(l, full)
        OBVIOUS
      <4>2. lab' = [lab EXCEPT ![l] = o]
        BY <2>2, <3>2, <4>1
      <4>3. lab'[l] = o
        BY <1>0, <4>2
      <4>4. LabInv(lab[l]) /\ Valid(full) /\ Admissible(l, full)
        BY <2>2, <3>2 DEF AdmissionInv, Admitted, Admissible
      <4>5. CASE req[l].kind = "create" /\ o = [ph |-> "bare", rv |-> lab[l].rv + 1, spec |-> full]
        <5>1. req[l].step = "fill"
          BY <1>1, <3>2 DEF Decide
        <5>2. QED
          BY <2>2, <3>2, <4>3, <4>5, <5>1 DEF Created
      <4>6. CASE o = lab[l]
        BY <4>3, <4>6
      <4>7. CASE o = [ph |-> "gone", rv |-> lab[l].rv + 1, spec |-> NoSpec]
        BY <4>3, <4>7 DEF Moved, Exists
      <4>8. CASE /\ o = [ph |-> "held", rv |-> lab[l].rv + 1, spec |-> lab[l].spec]
                 /\ lab[l].ph \in {"bare", "held"}
        BY <4>3, <4>8 DEF Moved, Exists
      <4>9. QED
        BY <4>1, <4>4, <4>5, <4>6, <4>7, <4>8, StoredCases
    <3>3. QED
      BY <3>1, <3>2
  <2>3. QED
    BY <1>1, <2>1, <2>2, DecideCases
<1>2. ASSUME NEW k \in Labs, UserDelete(k) PROVE lab'[l] = lab[l] \/ Moved(l)
  <2>1. CASE k # l
    BY <1>0, <1>2, <2>1 DEF UserDelete
  <2>2. CASE k = l
    <3>1. /\ lab[l].ph \in {"bare", "held"}
          /\ lab'[l] = [ph |-> Deleted(lab[l]).ph, rv |-> lab[l].rv + 1,
                        spec |-> IF lab[l].ph = "bare" THEN NoSpec ELSE lab[l].spec]
      BY <1>0, <1>2, <2>2 DEF UserDelete
    <3>2. lab[l] \in [ph : Phase, rv : Nat, spec : {lab[l].spec}]
      BY DEF AdmissionInv, LabInv
    <3>3. CASE lab[l].ph = "bare"
      <4>1. Deleted(lab[l]).ph = "gone"
        BY <3>2, <3>3 DEF Deleted
      <4>2. QED
        BY <3>1, <3>3, <4>1 DEF Moved, Exists
    <3>4. CASE lab[l].ph = "held"
      <4>1. Deleted(lab[l]).ph = "dying"
        BY <3>2, <3>4 DEF Deleted
      <4>2. QED
        BY <3>1, <3>4, <4>1 DEF Moved, Exists
    <3>5. QED
      BY <3>1, <3>3, <3>4
  <2>3. QED
    BY <2>1, <2>2
<1>3. ASSUME NEW k \in Labs, Admission(k) PROVE lab'[l] = lab[l] \/ Moved(l) \/ Created(l)
  BY <1>1, <1>3 DEF Admission, DefaultNodes, Refuse, FillNode, ReadSysInfo, WriteSysInfo
<1>4. QED
  BY <1>2, <1>3 DEF Next, OperatorUpdate, UserCreate, UserUpdate, LoadConfig, Crash, vars

\* What LoadDef makes of the nodes, of the MACs, and which nodes share cards.
Loaded(nodes)    == [n \in DOMAIN nodes |-> FillNil(nodes[n])]
Macs(mac, off)   == [c \in Conns |-> Or(mac[c], Ref(off[c]))]
Sharing(nodes)   == [n \in DOMAIN nodes |-> IF nodes[n].info = Nil THEN Len(heap) ELSE 0]

IsLoaded(r2, r, nodes, off) ==
  /\ r2.kind = r.kind /\ r2.rv = r.rv /\ r2.step = "fill"
  /\ r2.todo = r.todo /\ r2.write = r.write /\ r2.shared = Sharing(nodes)
  /\ r2.spec = [nodes |-> Loaded(nodes), mac |-> Macs(r.spec.mac, off), port |-> r.spec.port]
  /\ r2.spec.nodes = Loaded(nodes) /\ r2.spec.mac = Macs(r.spec.mac, off)

LEMMA DefaultedSpec ==
  ASSUME NEW r, NEW k, IsRequest(r, k), NEW nodes, NEW off, NEW r2, r2 = Defaulted(r, nodes, off)
  PROVE  IsLoaded(r2, r, nodes, off)
<1>1. r = [kind |-> r.kind, step |-> r.step, rv |-> r.rv, spec |-> r.spec,
           shared |-> r.shared, nodes |-> r.nodes, todo |-> r.todo, write |-> r.write]
  BY RequestFields
<1> DEFINE sp == [nodes |-> Loaded(nodes), mac |-> Macs(r.spec.mac, off),
                  port |-> r.spec.port]
           vms == {n \in DOMAIN nodes : nodes[n].type \in SRVMs}
<1>2. r2 = [r EXCEPT !.step = "fill", !.spec = sp, !.shared = Sharing(nodes), !.nodes = vms]
  BY DEF Defaulted, Loaded, Macs, Sharing
<1>3. sp.nodes = Loaded(nodes) /\ sp.mac = Macs(r.spec.mac, off)
  OBVIOUS
<1> HIDE DEF sp, vms
<1>4. /\ r2.kind = r.kind /\ r2.rv = r.rv /\ r2.step = "fill" /\ r2.todo = r.todo
      /\ r2.write = r.write /\ r2.spec = sp /\ r2.shared = Sharing(nodes)
  BY <1>1, <1>2
<1>5. QED
  BY <1>3, <1>4 DEF sp, IsLoaded

-----------------------------------------------------------------------------
(* Theorems *)

\* The states of requests, Labs and GCONF are of their types: the cards that a
\* request goes on with belong to a GCONF that there was, whatever is loaded
\* meanwhile, and Validate refuses a port that GetDefaultMDASlot could not find.
THEOREM TypeCorrect == Spec => []TypeOK
BY AdmissionInvariant, InvTypes, PTL

\* Named is kept: Default gives a type that is not given by the name.
LEMMA TypedNamed ==
  ASSUME NEW spec, IsSpec(spec, Types \cup {"nil"}), Named(spec),
         NEW n, NEW node, Typed(spec.nodes, n, node), node.type \in SRVMs
  PROVE  TypeOf[n] = node.type
<1>1. CASE n \in DOMAIN spec.nodes
  BY <1>1 DEF Typed, Named
<1>2. CASE n \notin DOMAIN spec.nodes
  BY <1>2 DEF Typed, Node
<1>3. QED
  BY <1>1, <1>2

LEMMA NamedStep ==
  ASSUME NamedAfterType, AdmissionInv, NamedInv, [Next]_vars
  PROVE  NamedInv'
<1> SUFFICES ASSUME NEW l \in Labs PROVE Named(lab'[l].spec) /\ Named(req'[l].spec)
  BY DEF NamedInv
<1>0. Named(lab[l].spec) /\ Named(req[l].spec)
  BY DEF NamedInv
<1>1. Named(NoSpec)
  BY NoSpecType DEF Named
<1>2. Named(lab'[l].spec)
  <2>1. CASE Created(l)
    BY <1>0, <2>1 DEF Created, Admitted, Named
  <2>2. CASE lab'[l] = lab[l] \/ Moved(l)
    BY <1>0, <1>1, <2>2 DEF Moved
  <2>3. QED
    BY <2>1, <2>2, LabEffect
<1>3. Named(req'[l].spec)
  <2>1. CASE req'[l] = NoReq
    BY <1>1, <2>1 DEF NoReq
  <2>2. CASE Begun(l)
    <3>1. PICK kind, spec : Begins(l, kind, spec)
      BY <2>2 DEF Begun
    <3>2. Named(spec)
      BY <1>0, <3>1 DEF NamedAfterType, Named, Begins
    <3>3. req'[l].spec = spec
      BY <3>1 DEF Begins
    <3>4. QED
      BY <3>2, <3>3
  <2>3. CASE LoadedDef(l)
    <3>1. PICK nodes, off :
            /\ nodes = WithNodes(req[l].spec.nodes)
            /\ \A n \in DOMAIN nodes : nodes[n].type # "unknown"
            /\ req'[l] = Defaulted(req[l], nodes, off)
      BY <2>3 DEF LoadedDef
    <3>2. IsRequest(req[l], Len(heap)) /\ IsSpec(req[l].spec, Types \cup {"nil"}) /\ IsConfig(gconf)
      BY RequestFields DEF AdmissionInv, RequestInv, GconfInv
    <3>3. req'[l].spec.nodes = [n \in DOMAIN nodes |-> FillNil(nodes[n])]
      <4>1. IsLoaded(req'[l], req[l], nodes, off)
        BY <3>1, <3>2, DefaultedSpec
      <4>2. QED
        BY <4>1 DEF IsLoaded, Loaded
    <3>4. ASSUME NEW n \in DOMAIN nodes
          PROVE  /\ nodes[n] \in NodeRecs(Types) /\ Typed(req[l].spec.nodes, n, nodes[n])
      BY <3>1, <3>2, WithNodesType
    <3>5. ASSUME NEW n \in DOMAIN nodes, FillNil(nodes[n]).type \in SRVMs
          PROVE  TypeOf[n] = FillNil(nodes[n]).type
      <4>1. FillNil(nodes[n]).type = nodes[n].type
        BY <3>2, <3>4, FillNilType
      <4>2. QED
        BY <1>0, <3>2, <3>4, <3>5, <4>1, TypedNamed, ZenonT(60)
    <3>6. QED
      BY <3>3, <3>5 DEF Named
  <2>4. CASE Kept(l)
    BY <1>0, <2>4 DEF Kept, Named
  <2>5. QED
    BY <2>1, <2>2, <2>3, <2>4, RequestEffect
<1>4. QED
  BY <1>2, <1>3

\* A stored Lab is fit for SRVM.Ensure, if SR VMs are named after their type:
\* Default decides by the name which connectors get a port and which chassis a
\* MAC.  Other Labs may fill in the same cards of GCONF at the same time.
THEOREM SRVMFitTheorem ==
  ASSUME NamedAfterType
  PROVE  Spec => []SRVMFit
<1>1. Init => NamedInv
  <2>1. Named(NoSpec) /\ NoObj.spec = NoSpec /\ NoReq.spec = NoSpec
    BY NoSpecType DEF Named, NoObj, NoReq
  <2>2. QED
    BY <2>1 DEF Init, NamedInv
<1>2. AdmissionInv /\ NamedInv /\ [Next]_vars => NamedInv'
  BY NamedStep
<1>3. AdmissionInv /\ NamedInv => SRVMFit
  <2> SUFFICES ASSUME AdmissionInv, NamedInv, NEW l \in Labs,
                      NEW n \in DOMAIN lab[l].spec.nodes, lab[l].spec.nodes[n].type \in SRVMs
               PROVE  LET node == lab[l].spec.nodes[n] IN
                      /\ node.req # Nil /\ node.model # Nil /\ node.info # Nil /\ node.mac # Nil
                      /\ \A s \in DOMAIN node.info[1] : node.info[1][s] # Nil
                      /\ \A c \in Conns : NodeAt(c) = n =>
                           /\ lab[l].spec.port[c] # Nil
                           /\ lab[l].spec.port[c][1] \in DOMAIN node.info[1]
    BY DEF SRVMFit
  <2>1. LabInv(lab[l])
    BY DEF AdmissionInv
  <2>2. Settled(lab[l].spec)
    BY <2>1, NoSpecType DEF LabInv
  <2>3. TypeOf[n] = lab[l].spec.nodes[n].type /\ lab[l].spec.nodes[n].type \in SRTypes
    BY DEF NamedInv, Named, SRTypes
  <2>4. NodeValid(lab[l].spec, n)
    BY <2>2 DEF Settled, Valid
  <2>5. /\ lab[l].spec.nodes[n].req # Nil
        /\ \A c \in Conns : NodeAt(c) = n /\ lab[l].spec.port[c] # Nil =>
             lab[l].spec.port[c][1] \in DOMAIN lab[l].spec.nodes[n].info[1]
    BY <2>4 DEF NodeValid
  <2>6. /\ HasChassis(lab[l].spec.nodes[n]) /\ lab[l].spec.nodes[n].mac # Nil
        /\ \A s \in DOMAIN lab[l].spec.nodes[n].info[1] : lab[l].spec.nodes[n].info[1][s] # Nil
        /\ \A c \in Conns : NodeAt(c) = n => lab[l].spec.port[c] # Nil
    BY <2>2, <2>3 DEF Settled
  <2>7. QED
    BY <2>3, <2>5, <2>6 DEF HasChassis
<1>4. QED
  BY <1>1, <1>2, <1>3, AdmissionInvariant, PTL DEF Spec

\* Two nodes of a Lab have different indices.
LEMMA NodeIndexInjective ==
  ASSUME NEW nodes, NEW m \in DOMAIN nodes, NEW n \in DOMAIN nodes, DOMAIN nodes \subseteq Names,
         NodeIndex(nodes, m) = NodeIndex(nodes, n)
  PROVE  m = n
<1> DEFINE L == 1..Len(NameList)
           S(x) == {i \in L : /\ NameList[i] \in DOMAIN nodes
                              /\ \E j \in L : i < j /\ NameList[j] = x}
<1>1. /\ Len(NameList) \in Nat
      /\ \A i, j \in L : NameList[i] = NameList[j] => i = j
  BY AdmissionAssumption
<1>2. IsFiniteSet(L)
  BY <1>1, FS_Interval
<1>3. NodeIndex(nodes, m) = Cardinality(S(m)) /\ NodeIndex(nodes, n) = Cardinality(S(n))
  BY DEF NodeIndex
<1>4. PICK a \in L, b \in L : NameList[a] = m /\ NameList[b] = n
  BY DEF Names
<1>5. ASSUME NEW x \in DOMAIN nodes, NEW y \in DOMAIN nodes, NEW i \in L, NEW j \in L,
             NameList[i] = x, NameList[j] = y, i < j
      PROVE  Cardinality(S(x)) # Cardinality(S(y))
  <2>1. S(x) \in SUBSET S(y)
    <3> SUFFICES ASSUME NEW e \in S(x) PROVE e \in S(y)
      OBVIOUS
    <3>1. PICK f \in L : e < f /\ NameList[f] = x
      OBVIOUS
    <3>2. f = i
      BY <1>1, <1>5, <3>1
    <3>3. e \in L /\ e < j /\ NameList[e] \in DOMAIN nodes
      BY <1>1, <1>5, <3>1, <3>2
    <3>4. QED
      BY <1>5, <3>3
  <2>2. i \in S(y)
    BY <1>5
  <2>3. i \notin S(x)
    <3> SUFFICES ASSUME i \in S(x) PROVE FALSE
      OBVIOUS
    <3>1. PICK f \in L : i < f /\ NameList[f] = x
      OBVIOUS
    <3>2. f = i
      BY <1>1, <1>5, <3>1
    <3>3. QED
      BY <1>1, <3>1, <3>2
  <2>4. S(y) \in SUBSET L
    OBVIOUS
  <2> HIDE DEF S, L
  <2>5. IsFiniteSet(S(y))
    BY <1>2, <2>4, FS_Subset
  <2>6. Cardinality(S(y)) = Cardinality(S(x)) => S(y) = S(x)
    BY <2>1, <2>5, FS_Subset
  <2>7. QED
    BY <2>2, <2>3, <2>6
<1>6. a = b
  <2>1. ~(a < b) /\ ~(b < a)
    <3> HIDE DEF S
    <3>1. QED
      BY <1>3, <1>4, <1>5
  <2>2. QED
    BY <1>1, <2>1
<1>7. QED
  BY <1>4, <1>6

\* The counter gives every connector a number of its own: of two connectors the
\* one that the loops come to later counts all that the other counts and itself.
LEMMA MacOffsetInjective ==
  ASSUME NEW off, IsMacOffset(off), NEW c \in Conns, NEW d \in Conns, off[c] = off[d]
  PROVE  c = d
<1>1. PICK rank \in [Links -> 1..Cardinality(Links)] :
        /\ \A j, k \in Links : rank[j] = rank[k] => j = k
        /\ \A x \in Conns : off[x] = Cardinality({y \in Conns :
             rank[y[1]] < rank[x[1]] \/ (y[1] = x[1] /\ y[2] <= x[2])})
  BY DEF IsMacOffset
<1> DEFINE before(y, x) == rank[y[1]] < rank[x[1]] \/ (y[1] = x[1] /\ y[2] <= x[2])
           S(x) == {y \in Conns : before(y, x)}
<1>2. Cardinality(Links) \in Nat /\ \A k \in Links : Len(Ends[k]) \in Nat
  BY AdmissionAssumption, FS_CardinalityType
<1>3. ASSUME NEW x \in Conns
      PROVE  /\ x[1] \in Links /\ x[2] \in Nat /\ x = <<x[1], x[2]>>
             /\ rank[x[1]] \in Nat
  <2>1. PICK k \in Links : x \in {<<k, i>> : i \in 1..Len(Ends[k])}
    BY DEF Conns
  <2>2. PICK i \in 1..Len(Ends[k]) : x = <<k, i>>
    BY <2>1
  <2>3. QED
    BY <1>1, <1>2, <2>2
<1>4. ASSUME NEW x \in Conns PROVE off[x] = Cardinality(S(x)) /\ IsFiniteSet(S(x))
  <2>1. S(x) \in SUBSET Conns
    OBVIOUS
  <2>2. IsFiniteSet(S(x))
    BY <2>1, ConnFacts, FS_Subset
  <2>3. QED
    BY <1>1, <2>2
<1>5. ASSUME NEW x \in Conns, NEW y \in Conns, before(x, y), ~before(y, x)
      PROVE  off[x] # off[y]
  <2>1. ASSUME NEW z \in Conns, before(z, x) PROVE before(z, y)
    BY <1>1, <1>3, <1>5, <2>1
  <2>2. before(y, y)
    BY <1>3
  <2> HIDE DEF before
  <2>3. S(x) \in SUBSET S(y) /\ y \in S(y) /\ y \notin S(x)
    BY <1>5, <2>1, <2>2
  <2> HIDE DEF S
  <2>4. Cardinality(S(y)) = Cardinality(S(x)) => S(y) = S(x)
    BY <1>4, <2>3, FS_Subset
  <2>5. QED
    BY <1>4, <2>3, <2>4
<1>6. c = d \/ (before(c, d) /\ ~before(d, c)) \/ (before(d, c) /\ ~before(c, d))
  <2>1. CASE c[1] = d[1]
    BY <1>3, <2>1
  <2>2. CASE c[1] # d[1]
    <3>1. rank[c[1]] # rank[d[1]]
      BY <1>1, <1>3, <2>2
    <3>2. QED
      BY <1>3, <2>2, <3>1
  <2>3. QED
    BY <2>1, <2>2
<1> HIDE DEF before
<1>7. QED
  BY <1>5, <1>6

\* The parts of MacInv, for a request and for a Lab.
RequestMacs(r, l) ==
  r.kind = "create" =>
    /\ \A n \in DOMAIN r.spec.nodes : r.spec.nodes[n].mac \in ChassisMacsGiven(l) \cup {Nil}
    /\ r.step = "default" => \A c \in Conns : r.spec.mac[c] \in LinkMacsGiven(l) \cup {Nil}
    /\ r.step = "fill" => ConnMacsDistinct(r.spec, l)

LabMacs(o, l) ==
  Exists(o) =>
    /\ ConnMacsDistinct(o.spec, l)
    /\ \A m, n \in DOMAIN o.spec.nodes :
         m # n /\ o.spec.nodes[m].mac = o.spec.nodes[n].mac =>
           o.spec.nodes[m].mac \in ChassisMacsGiven(l) \cup {Nil}

GconfMacs(c) == \A t \in Types : c[t].mac \in ConfigMacs

LEMMA ConfigMacsAre ==
  /\ GconfMacs(DefKNLConfig)
  /\ \A c \in Configs : GconfMacs(c)
<1>1. Nil \in ConfigMacs
  BY Zenon DEF ConfigMacs
<1>2. GconfMacs(DefKNLConfig)
  BY <1>1, DefConfig DEF GconfMacs
<1>3. ASSUME NEW c \in Configs, NEW t \in Types PROVE c[t].mac \in ConfigMacs
  <2>1. c[t].mac \in {c[u].mac : u \in Types}
    OBVIOUS
  <2>2. QED
    BY <2>1, Zenon DEF ConfigMacs
<1>4. QED
  BY <1>2, <1>3 DEF GconfMacs

LEMMA MacParts ==
  MacInv <=> /\ GconfMacs(gconf)
             /\ \A l \in Labs : LabMacs(lab[l], l) /\ RequestMacs(req[l], l)
BY DEF MacInv, MacsDistinct, LabMacs, RequestMacs, ConnMacsDistinct, GconfMacs

LEMMA CreatedMacs ==
  ASSUME NEW l \in Labs, RequestMacs(req[l], l), Created(l)
  PROVE  LabMacs(lab'[l], l)
<1>1. PICK spec : spec = lab'[l].spec
  OBVIOUS
<1>2. Admitted(l, spec) /\ req[l].kind = "create" /\ req[l].step = "fill"
  BY <1>1 DEF Created
<1>3. ConnMacsDistinct(spec, l)
  BY <1>2 DEF Admitted, RequestMacs, ConnMacsDistinct
<1> DEFINE given == ChassisMacsGiven(l) \cup {Nil}
<1>4. ASSUME NEW n \in DOMAIN spec.nodes, spec.nodes[n].mac \notin given
      PROVE  spec.nodes[n].mac = Ref(NodeIndex(spec.nodes, n))
  <2>1. req[l].spec.nodes[n].mac \in given
    BY <1>2 DEF Admitted, RequestMacs
  <2>2. spec.nodes[n].mac = IF TypeOf[n] \in SRTypes
                              THEN Or(req[l].spec.nodes[n].mac, Ref(NodeIndex(spec.nodes, n)))
                              ELSE req[l].spec.nodes[n].mac
    BY <1>2 DEF Admitted
  <2> HIDE DEF given
  <2>3. QED
    BY <1>4, <2>1, <2>2 DEF Or
<1>5. DOMAIN spec.nodes \subseteq Names
  BY <1>2, SpecFields DEF Admitted
<1>6. ASSUME NEW m \in DOMAIN spec.nodes, NEW n \in DOMAIN spec.nodes,
             spec.nodes[m].mac \notin given, spec.nodes[m].mac = spec.nodes[n].mac
      PROVE  m = n
  <2> HIDE DEF given
  <2>1. Ref(NodeIndex(spec.nodes, m)) = Ref(NodeIndex(spec.nodes, n))
    BY <1>4, <1>6
  <2>2. NodeIndex(spec.nodes, m) = NodeIndex(spec.nodes, n)
    BY <2>1, RefEq
  <2>3. QED
    BY <1>5, <2>2, NodeIndexInjective
<1>7. QED
  BY <1>1, <1>3, <1>6 DEF LabMacs

LEMMA LoadedMacs ==
  ASSUME AdmissionInv, GconfMacs(gconf), NEW l \in Labs, RequestMacs(req[l], l), LoadedDef(l)
  PROVE  RequestMacs(req'[l], l)
<1>1. PICK nodes, off :
        /\ nodes = WithNodes(req[l].spec.nodes)
        /\ \A n \in DOMAIN nodes : nodes[n].type # "unknown"
        /\ off \in [Conns -> 1..Cardinality(Conns)] /\ IsMacOffset(off)
        /\ req[l].step = "default" /\ req'[l] = Defaulted(req[l], nodes, off)
  BY DEF LoadedDef
<1>2. IsRequest(req[l], Len(heap)) /\ IsSpec(req[l].spec, Types \cup {"nil"}) /\ IsConfig(gconf)
  BY RequestFields DEF AdmissionInv, RequestInv, GconfInv
<1>3. IsLoaded(req'[l], req[l], nodes, off)
  BY <1>1, <1>2, DefaultedSpec
<1> DEFINE given == ChassisMacsGiven(l) \cup {Nil}
<1>4. SUFFICES ASSUME req[l].kind = "create"
               PROVE  /\ \A n \in DOMAIN req'[l].spec.nodes : req'[l].spec.nodes[n].mac \in given
                      /\ req'[l].step = "fill" /\ ConnMacsDistinct(req'[l].spec, l)
  BY <1>3 DEF RequestMacs, IsLoaded
<1>5. ASSUME NEW n \in DOMAIN nodes PROVE FillNil(nodes[n]).mac \in given
  <2>1. nodes[n] \in NodeRecs(Types) /\ Typed(req[l].spec.nodes, n, nodes[n])
    BY <1>1, <1>2, WithNodesType
  <2>2. nodes[n].mac \in given
    <3>1. CASE n \in DOMAIN req[l].spec.nodes
      <4>1. req[l].spec.nodes[n].mac \in given
        BY <1>4, <3>1 DEF RequestMacs
      <4>2. req[l].spec.nodes[n] \in NodeRecs(Types \cup {"nil"})
        BY <1>2, <3>1, SpecFields
      <4>3. PICK x : x = req[l].spec.nodes[n]
        OBVIOUS
      <4>4. nodes[n] = [x EXCEPT !.type = nodes[n].type]
        BY <2>1, <3>1, <4>3 DEF Typed
      <4>5. nodes[n].mac = x.mac
        BY <4>2, <4>3, <4>4 DEF NodeRecs
      <4>6. QED
        BY <4>1, <4>3, <4>5
    <3>2. CASE n \notin DOMAIN req[l].spec.nodes
      BY <2>1, <3>2 DEF Typed, Node
    <3>3. QED
      BY <3>1, <3>2
  <2>3. gconf[nodes[n].type].mac \in given
    <3>1. nodes[n].type \in Types
      BY <2>1, NodeFields
    <3>2. gconf[nodes[n].type].mac \in ConfigMacs
      BY <3>1 DEF GconfMacs
    <3>3. ConfigMacs \subseteq given
      BY Zenon DEF ConfigMacs, ChassisMacsGiven
    <3>4. QED
      BY <3>2, <3>3
  <2>4. FillNil(nodes[n]).mac = Or(nodes[n].mac, gconf[nodes[n].type].mac)
    BY <1>2, <2>1, FillNilType
  <2> HIDE DEF given
  <2>5. QED
    BY <2>2, <2>3, <2>4 DEF Or
<1>6. \A c \in Conns : /\ req'[l].spec.mac[c] = Or(req[l].spec.mac[c], Ref(off[c]))
                       /\ req[l].spec.mac[c] \in LinkMacsGiven(l) \cup {Nil}
  BY <1>1, <1>3, <1>4 DEF IsLoaded, Macs, RequestMacs
<1>7. ASSUME NEW c \in Conns, NEW d \in Conns, req'[l].spec.mac[c] = req'[l].spec.mac[d],
             req'[l].spec.mac[c] \notin LinkMacsGiven(l)
      PROVE  c = d
  <2>1. Ref(off[c]) = Ref(off[d])
    BY <1>6, <1>7 DEF Or
  <2>2. off[c] = off[d]
    BY <2>1, RefEq
  <2>3. QED
    BY <1>1, <2>2, MacOffsetInjective
<1> HIDE DEF given
<1>8. QED
  BY <1>3, <1>5, <1>7 DEF IsLoaded, Loaded, ConnMacsDistinct

LEMMA GconfEffect ==
  ASSUME [Next]_vars
  PROVE  gconf' = gconf \/ gconf' = DefKNLConfig \/ gconf' \in Configs
<1>1. ASSUME NEW k \in Labs, Admission(k) PROVE gconf' = gconf
  BY <1>1 DEF Admission, DefaultNodes, FillNode, ReadSysInfo, WriteSysInfo, Decide
<1>2. ASSUME NEW k \in Labs, OperatorUpdate(k) \/ UserDelete(k) PROVE gconf' = gconf
  BY <1>2 DEF OperatorUpdate, UserDelete
<1>3. ASSUME NEW k \in Labs, NEW m \in Manifests[k], UserCreate(k, m) \/ UserUpdate(k, m)
      PROVE  gconf' = gconf
  BY <1>3 DEF UserCreate, UserUpdate
<1>4. ASSUME NEW c \in Configs, LoadConfig(c) PROVE gconf' \in Configs
  BY <1>4 DEF LoadConfig
<1>5. Crash => gconf' = DefKNLConfig
  BY DEF Crash
<1>6. UNCHANGED vars => gconf' = gconf
  BY DEF vars
<1>7. QED
  BY <1>1, <1>2, <1>3, <1>4, <1>5, <1>6 DEF Next

LEMMA MacStep ==
  ASSUME AdmissionInv, MacInv, [Next]_vars
  PROVE  MacInv'
<1>0. GconfMacs(gconf)
  BY MacParts
<1>1. ASSUME NEW l \in Labs PROVE LabMacs(lab'[l], l) /\ RequestMacs(req'[l], l)
  <2>0. LabMacs(lab[l], l) /\ RequestMacs(req[l], l)
    BY MacParts
  <2>1. LabMacs(lab'[l], l)
    <3>1. CASE Created(l)
      BY <2>0, <3>1, CreatedMacs
    <3>2. CASE lab'[l] = lab[l] \/ Moved(l)
      BY <2>0, <3>2 DEF Moved, LabMacs, ConnMacsDistinct
    <3>3. QED
      BY <3>1, <3>2, LabEffect
  <2>2. CASE req'[l] = NoReq
    BY <2>1, <2>2 DEF RequestMacs, NoReq
  <2>3. CASE Begun(l)
    <3>1. PICK kind, spec : Begins(l, kind, spec)
      BY <2>3 DEF Begun
    <3>2. req'[l].kind = kind /\ req'[l].step = "default" /\ req'[l].spec = spec
      BY <3>1 DEF Begins
    <3>3. kind = "create" => spec \in Manifests[l]
      BY <3>1 DEF Begins
    <3>4. ASSUME kind = "create", NEW c \in Conns PROVE spec.mac[c] \in LinkMacsGiven(l)
      <4>1. spec \in Manifests[l]
        BY <3>3, <3>4
      <4>2. spec.mac[c] \in {spec.mac[d] : d \in Conns}
        BY <3>4
      <4>3. QED
        BY <4>1, <4>2, ZenonT(60) DEF LinkMacsGiven
    <3>5. ASSUME kind = "create", NEW n \in DOMAIN spec.nodes
          PROVE  spec.nodes[n].mac \in ChassisMacsGiven(l)
      <4>1. spec \in Manifests[l]
        BY <3>3, <3>5
      <4>2. spec.nodes[n].mac \in {spec.nodes[k].mac : k \in DOMAIN spec.nodes}
        BY <3>5
      <4>3. QED
        BY <4>1, <4>2, ZenonT(60) DEF ChassisMacsGiven
    <3>6. QED
      BY <2>1, <3>2, <3>4, <3>5 DEF RequestMacs
  <2>4. CASE LoadedDef(l)
    BY <1>0, <2>0, <2>1, <2>4, LoadedMacs
  <2>5. CASE Kept(l)
    BY <2>0, <2>1, <2>5 DEF Kept, RequestMacs, ConnMacsDistinct
  <2>6. QED
    BY <2>2, <2>3, <2>4, <2>5, RequestEffect
<1>2. GconfMacs(gconf')
  BY <1>0, ConfigMacsAre, GconfEffect
<1>3. QED
  BY <1>1, <1>2 DEF MacInv, MacsDistinct, LabMacs, RequestMacs, ConnMacsDistinct, GconfMacs

\* Two connectors or two chassis of a Lab have the same MAC only if a user gives
\* it: the offset counts every connector of every link, whatever the order of
\* the map, and the index of a node every node before it.  What a manifest
\* gives, or for a chassis a KNLConfig, is taken as it is.
THEOREM MacsDistinctTheorem == Spec => []MacsDistinct
<1>1. Init => MacInv
  <2>1. NoObj.ph = "gone" /\ NoReq.kind = "none"
    BY DEF NoObj, NoReq
  <2>2. \A t \in Types : DefKNLConfig[t].mac \in ConfigMacs
    BY ConfigMacsAre DEF GconfMacs
  <2>3. QED
    BY <2>1, <2>2 DEF Init, MacInv, MacsDistinct, Exists
<1>2. AdmissionInv /\ MacInv /\ [Next]_vars => MacInv'
  BY MacStep
<1>3. MacInv => MacsDistinct
  BY DEF MacInv
<1>4. QED
  BY <1>1, <1>2, <1>3, AdmissionInvariant, PTL DEF Spec

-----------------------------------------------------------------------------
(* The operator's own updates *)

\* GCONF has no default where the application has none.
NothingNew(c) ==
  \A t \in Types : \A f \in {"opt", "model", "info", "mac"} :
    DefKNLConfig[t][f] = Nil => c[t][f] = Nil

\* Default finds nothing to do in the nodes of a settled spec ...
LEMMA SettledNodes ==
  ASSUME NEW spec, IsSpec(spec, Types), Settled(spec)
  PROVE  /\ WithNodes(spec.nodes) = spec.nodes
         /\ \A n \in DOMAIN spec.nodes : spec.nodes[n].type # "unknown"
<1> DEFINE D == DOMAIN spec.nodes
           named == D \cup {NodeAt(c) : c \in Conns}
           all == named \cup {CPMName[x] : x \in named}
           val(n) == IF n \notin D THEN Node(TypeOf[n])
                     ELSE IF spec.nodes[n].type = "nil"
                       THEN [spec.nodes[n] EXCEPT !.type = TypeOf[n]] ELSE spec.nodes[n]
<1>1. WithNodes(spec.nodes) = [n \in all |-> val(n)]
  BY DEF WithNodes
<1>2. named = D
  BY DEF Settled, Closed
<1>3. all = D
  BY <1>2 DEF Settled, Closed
<1>4. ASSUME NEW n \in D PROVE spec.nodes[n].type \in Types
  BY SpecFields, NodeFields
<1>5. "nil" \notin Types /\ "unknown" \notin Types
  BY DEF Types
<1>6. ASSUME NEW n \in D PROVE val(n) = spec.nodes[n]
  BY <1>4, <1>5
<1>7. spec.nodes = [n \in D |-> spec.nodes[n]]
  BY SpecFields
<1> HIDE DEF val, all, D
<1>8. WithNodes(spec.nodes) = spec.nodes
  BY <1>1, <1>3, <1>6, <1>7
<1>9. QED
  BY <1>4, <1>5, <1>8 DEF D

\* ... nor has LoadDef, if GCONF has nothing new.
LEMMA SettledNode ==
  ASSUME IsConfig(gconf), NothingNew(gconf), NEW node \in NodeRecs(Types), node.req # Nil,
         HasChassis(node)
  PROVE  FillNil(node) = node
<1> DEFINE def == gconf[node.type]
<1>1. def \in NodeRecs(Types) /\ node.type \in Types
  BY NodeFields DEF IsConfig
<1>2. PICK new : new = FillNil(node)
  OBVIOUS
<1>3. /\ new \in NodeRecs(Types) /\ new.type = node.type /\ new.mac = Or(node.mac, def.mac)
      /\ new.req = Or(node.req, def.req) /\ new.opt = Or(node.opt, def.opt)
      /\ new.model = Or(node.model, def.model) /\ new.info = Or(node.info, def.info)
  BY <1>2, FillNilType
<1>4. Or(node.req, def.req) = node.req
  BY DEF Or
<1>5. Or(node.opt, def.opt) = node.opt /\ Or(node.mac, def.mac) = node.mac
  <2>1. DefKNLConfig[node.type]["opt"] = Nil /\ DefKNLConfig[node.type]["mac"] = Nil
    BY <1>1 DEF DefKNLConfig, Node
  <2>2. def.opt = Nil /\ def.mac = Nil
    BY <1>1, <2>1 DEF NothingNew
  <2>3. QED
    BY <2>2 DEF Or
<1>6. Or(node.model, def.model) = node.model /\ Or(node.info, def.info) = node.info
  <2>1. CASE node.type \in SRTypes
    BY <2>1 DEF HasChassis, Or
  <2>2. CASE node.type \notin SRTypes
    <3>1. node.type = "pod"
      BY <1>1, <2>2 DEF Types, SRTypes, SRVMs
    <3>2. DefKNLConfig["pod"]["model"] = Nil /\ DefKNLConfig["pod"]["info"] = Nil
      BY DEF DefKNLConfig, Node, Types
    <3>3. def.model = Nil /\ def.info = Nil
      BY <1>1, <3>1, <3>2 DEF NothingNew
    <3>4. QED
      BY <3>3 DEF Or
  <2>3. QED
    BY <2>1, <2>2
<1>7. new = node
  BY <1>4, <1>5, <1>6, <1>3 DEF NodeRecs
<1>8. QED
  BY <1>2, <1>7

LEMMA SettledLoaded ==
  ASSUME IsConfig(gconf), NothingNew(gconf), NEW spec, IsSpec(spec, Types), Settled(spec), NEW off
  PROVE  Loaded(spec.nodes) = spec.nodes /\ Macs(spec.mac, off) = spec.mac
<1>1. ASSUME NEW n \in DOMAIN spec.nodes PROVE FillNil(spec.nodes[n]) = spec.nodes[n]
  <2>1. spec.nodes[n] \in NodeRecs(Types) /\ HasChassis(spec.nodes[n])
    BY SpecFields DEF Settled
  <2>2. spec.nodes[n].req # Nil
    BY DEF Settled, Valid, NodeValid
  <2>3. QED
    BY <2>1, <2>2, SettledNode
<1>2. spec.nodes = [n \in DOMAIN spec.nodes |-> spec.nodes[n]]
  BY SpecFields
<1>3. Loaded(spec.nodes) = spec.nodes
  BY <1>1, <1>2 DEF Loaded
<1>4. spec.mac = [c \in Conns |-> spec.mac[c]] /\ \A c \in Conns : spec.mac[c] # Nil
  BY SpecFields DEF Settled
<1>5. QED
  BY <1>3, <1>4 DEF Macs, Or

\* The part of OperatorInv for a request.
FinalizerInv(r, o) ==
  r.kind = "finalizer" =>
    /\ r.rv <= o.rv
    /\ r.rv = o.rv =>
         /\ o.ph \in {"bare", "dying"} /\ r.spec = o.spec /\ r.write = {}
         /\ r.step = "fill" => \A n \in DOMAIN r.spec.nodes :
              r.spec.nodes[n].info # Nil => r.shared[n] = 0

LEMMA OperatorParts ==
  OperatorInv <=> NothingNew(gconf) /\ \A l \in Labs : FinalizerInv(req[l], lab[l])
BY DEF OperatorInv, NothingNew, FinalizerInv

LEMMA LoadedFinalizer ==
  ASSUME AdmissionInv, NothingNew(gconf), NEW l \in Labs, FinalizerInv(req[l], lab[l]),
         LoadedDef(l), lab'[l] = lab[l]
  PROVE  FinalizerInv(req'[l], lab'[l])
<1>1. PICK nodes, off :
        /\ nodes = WithNodes(req[l].spec.nodes)
        /\ req[l].step = "default" /\ req'[l] = Defaulted(req[l], nodes, off)
  BY DEF LoadedDef
<1>2. IsRequest(req[l], Len(heap)) /\ IsConfig(gconf) /\ LabInv(lab[l]) /\ req[l].write = {}
  BY <1>1 DEF AdmissionInv, RequestInv, GconfInv
<1>3. IsLoaded(req'[l], req[l], nodes, off)
  BY <1>1, <1>2, DefaultedSpec
<1>4. req'[l].kind = req[l].kind /\ req'[l].rv = req[l].rv /\ req'[l].write = req[l].write
  BY <1>3 DEF IsLoaded
<1>5. ASSUME req[l].kind = "finalizer", req[l].rv = lab[l].rv
      PROVE  /\ req'[l].spec = lab[l].spec
             /\ \A n \in DOMAIN req'[l].spec.nodes :
                  req'[l].spec.nodes[n].info # Nil => req'[l].shared[n] = 0
  <2>1. PICK spec : spec = lab[l].spec
    OBVIOUS
  <2>2. req[l].spec = spec /\ Settled(spec) /\ IsSpec(spec, Types)
    BY <1>2, <1>5, <2>1 DEF FinalizerInv, LabInv, Exists
  <2>3. nodes = spec.nodes
    BY <1>1, <2>2, SettledNodes
  <2>4. Loaded(nodes) = spec.nodes /\ Macs(spec.mac, off) = spec.mac
    BY <1>2, <2>2, <2>3, SettledLoaded
  <2>5. /\ req'[l].spec = [nodes |-> spec.nodes, mac |-> spec.mac, port |-> spec.port]
        /\ req'[l].shared = Sharing(nodes)
    BY <1>3, <2>2, <2>4 DEF IsLoaded
  <2>6. req'[l].spec = spec
    BY <2>2, <2>5, SpecFields
  <2>7. \A n \in DOMAIN spec.nodes : spec.nodes[n].info # Nil => req'[l].shared[n] = 0
    BY <2>3, <2>5 DEF Sharing
  <2>8. QED
    BY <2>1, <2>6, <2>7
<1>6. QED
  BY <1>2, <1>4, <1>5 DEF FinalizerInv

LEMMA KeptFinalizer ==
  ASSUME AdmissionInv, NEW l \in Labs, FinalizerInv(req[l], lab[l]), Kept(l), lab'[l] = lab[l]
  PROVE  FinalizerInv(req'[l], lab'[l])
<1>1. RequestInv(req[l], heap) /\ LabInv(lab[l])
  BY DEF AdmissionInv
<1>2. ASSUME req[l].kind = "finalizer", req[l].rv = lab[l].rv,
             NEW n \in Names, NEW s \in Slots, <<n, s>> \in req[l].todo
      PROVE  CardInfo(req[l], heap, n, s) # Nil
  <2>1. req[l].step = "fill" /\ FillInv(req[l], heap)
    BY <1>1, <1>2 DEF RequestInv
  <2>2. PICK spec : spec = lab[l].spec
    OBVIOUS
  <2>3. req[l].spec = spec /\ Settled(spec)
    BY <1>1, <1>2, <2>2 DEF FinalizerInv, LabInv, Exists
  <2>4. /\ n \in DOMAIN spec.nodes /\ spec.nodes[n].type \in SRVMs
        /\ s \in DOMAIN spec.nodes[n].info[1]
    BY <1>2, <2>1, <2>3 DEF FillInv, Pending
  <2>5. spec.nodes[n].info # Nil /\ spec.nodes[n].info[1][s] # Nil
    BY <2>3, <2>4 DEF Settled, HasChassis, SRTypes
  <2>6. req[l].shared[n] = 0
    BY <1>2, <2>1, <2>3, <2>4, <2>5 DEF FinalizerInv
  <2>7. QED
    BY <2>3, <2>5, <2>6 DEF CardInfo
<1>3. QED
  BY <1>2 DEF Kept, FinalizerInv

LEMMA BegunFinalizer ==
  ASSUME NEW l \in Labs, Begun(l), NEW o, lab[l].rv \in Nat,
         o.rv = lab[l].rv + 1 \/ o = lab[l]
  PROVE  FinalizerInv(req'[l], o)
<1>1. PICK kind, spec : Begins(l, kind, spec)
  BY DEF Begun
<1>2. /\ req'[l].kind = kind /\ req'[l].step = "default" /\ req'[l].rv = lab[l].rv
      /\ req'[l].spec = spec /\ req'[l].write = {}
  BY <1>1 DEF Begins
<1>3. kind = "finalizer" => spec = lab[l].spec /\ lab[l].ph \in {"bare", "dying"}
  BY <1>1 DEF Begins
<1>4. CASE o.rv = lab[l].rv + 1
  BY <1>2, <1>4 DEF FinalizerInv
<1>5. CASE o = lab[l]
  BY <1>2, <1>3, <1>5 DEF FinalizerInv
<1>6. QED
  BY <1>4, <1>5

LEMMA OperatorStep ==
  ASSUME NoNewDefault, AdmissionInv, OperatorInv, [Next]_vars
  PROVE  OperatorInv'
<1>1. NothingNew(gconf')
  <2>1. NothingNew(gconf)
    BY OperatorParts
  <2>2. NothingNew(DefKNLConfig)
    BY DEF NothingNew
  <2>3. \A c \in Configs : NothingNew(c)
    BY DEF NoNewDefault, NothingNew
  <2>4. gconf' = gconf \/ gconf' = DefKNLConfig \/ gconf' \in Configs
    BY GconfEffect
  <2>5. QED
    BY <2>1, <2>2, <2>3, <2>4
<1>2. ASSUME NEW l \in Labs PROVE FinalizerInv(req'[l], lab'[l])
  <2>1. FinalizerInv(req[l], lab[l]) /\ NothingNew(gconf)
    BY OperatorParts
  <2>2. lab[l].rv \in Nat /\ IsRequest(req[l], Len(heap)) /\ req[l].rv \in Nat
    BY RequestFields DEF AdmissionInv, LabInv, RequestInv
  <2>3. lab'[l] = lab[l] \/ lab'[l].rv = lab[l].rv + 1
    BY LabEffect DEF Moved, Created
  <2>4. CASE req'[l] = NoReq
    BY <2>4 DEF FinalizerInv, NoReq
  <2>5. CASE Begun(l)
    BY <2>2, <2>3, <2>5, BegunFinalizer
  <2>6. CASE LoadedDef(l)
    <3>1. req'[l].kind = req[l].kind /\ req'[l].rv = req[l].rv
      <4>1. PICK nodes, off : req'[l] = Defaulted(req[l], nodes, off)
        BY <2>6 DEF LoadedDef
      <4>2. IsLoaded(req'[l], req[l], nodes, off)
        BY <2>2, <4>1, DefaultedSpec
      <4>3. QED
        BY <4>2 DEF IsLoaded
    <3>2. CASE lab'[l] = lab[l]
      BY <2>1, <2>6, <3>2, LoadedFinalizer
    <3>3. CASE lab'[l].rv = lab[l].rv + 1
      BY <2>1, <2>2, <3>1, <3>3 DEF FinalizerInv
    <3>4. QED
      BY <2>3, <3>2, <3>3
  <2>7. CASE Kept(l)
    <3>1. req'[l].kind = req[l].kind /\ req'[l].rv = req[l].rv
      BY <2>7 DEF Kept
    <3>2. CASE lab'[l] = lab[l]
      BY <2>1, <2>7, <3>2, KeptFinalizer
    <3>3. CASE lab'[l].rv = lab[l].rv + 1
      BY <2>1, <2>2, <3>1, <3>3 DEF FinalizerInv
    <3>4. QED
      BY <2>3, <3>2, <3>3
  <2>8. QED
    BY <2>4, <2>5, <2>6, <2>7, RequestEffect
<1>3. QED
  BY <1>1, <1>2 DEF OperatorInv, NothingNew, FinalizerInv

\* A request ends by its own answer, or with the operator.
LEMMA EndsBy ==
  ASSUME AdmissionInv, Next, NEW l \in Labs, req[l].kind = "finalizer", req'[l] = NoReq
  PROVE  Decide(l) \/ (DefaultNodes(l) /\ Refuse(l)) \/ Crash
<1>0. req = [k \in Labs |-> req[k]] /\ NoReq.kind = "none"
  BY DEF AdmissionInv, NoReq
<1>1. ASSUME NEW k \in Labs, k # l, NEW r, req' = [req EXCEPT ![k] = r] PROVE FALSE
  BY <1>0, <1>1
<1>2. req' # req
  BY <1>0
<1>3. ASSUME NEW k \in Labs, Refuse(k) \/ req' = [req EXCEPT ![k] = NoReq] PROVE k = l
  BY <1>1, <1>3 DEF Refuse
<1>4. ASSUME NEW k \in Labs, Decide(k) PROVE k = l
  BY <1>3, <1>4 DEF Decide
<1>5. ASSUME NEW k \in Labs, DefaultNodes(k) PROVE k = l /\ Refuse(l)
  <2>1. SUFFICES ASSUME ~Refuse(k) PROVE FALSE
    BY <1>3
  <2>2. PICK off \in [Conns -> 1..Cardinality(Conns)] :
          req' = [req EXCEPT ![k] = Defaulted(@, WithNodes(req[k].spec.nodes), off)]
    BY <1>5, <2>1 DEF DefaultNodes, MacOffsets
  <2>3. k = l
    BY <1>1, <2>2
  <2>4. PICK nodes : nodes = WithNodes(req[l].spec.nodes)
    OBVIOUS
  <2>5. req'[l] = Defaulted(req[l], nodes, off) /\ IsRequest(req[l], Len(heap))
    BY <1>0, <2>2, <2>3, <2>4 DEF AdmissionInv, RequestInv
  <2>6. IsLoaded(req'[l], req[l], nodes, off)
    BY <2>5, DefaultedSpec
  <2>7. req'[l].kind = req[l].kind
    BY <2>6 DEF IsLoaded
  <2>8. QED
    BY <1>0, <2>7
<1>6. ASSUME NEW k \in Labs, NEW n \in Names, NEW s \in Slots,
             FillNode(k, n) \/ ReadSysInfo(k, n, s) \/ WriteSysInfo(k, n, s)
      PROVE  FALSE
  <2>1. k = l
    BY <1>0, <1>6 DEF FillNode, ReadSysInfo, WriteSysInfo
  <2>2. Kept(l)
    BY <1>6, <2>1, FillKept, ReadKept, WriteKept
  <2>3. QED
    BY <1>0, <2>2 DEF Kept
<1>7. ASSUME NEW k \in Labs, NEW kind, NEW spec, Begin(k, kind, spec) PROVE FALSE
  BY <1>0, <1>1, <1>7 DEF Begin
<1>8. "A" \in Slots
  BY DEF Slots
<1>9. ASSUME NEW k \in Labs, Admission(k) PROVE Decide(l) \/ (DefaultNodes(l) /\ Refuse(l))
  BY <1>4, <1>5, <1>6, <1>8, <1>9 DEF Admission
<1>10. ASSUME NEW k \in Labs, OperatorUpdate(k) \/ UserDelete(k) PROVE FALSE
  BY <1>2, <1>7, <1>10 DEF OperatorUpdate, UserDelete
<1>11. ASSUME NEW k \in Labs, NEW m \in Manifests[k], UserCreate(k, m) \/ UserUpdate(k, m)
       PROVE  FALSE
  BY <1>7, <1>11 DEF UserCreate, UserUpdate
<1>12. ASSUME NEW c \in Configs, LoadConfig(c) PROVE FALSE
  BY <1>2, <1>12 DEF LoadConfig
<1>13. QED
  BY <1>9, <1>10, <1>11, <1>12 DEF Next

\* A settled spec is serialised as it is, if it shares no cards.
LEMMA SettledSerial ==
  ASSUME NEW r, NEW h, NEW n, NEW node, node = r.spec.nodes[n], node \in NodeRecs(Types),
         node.info # Nil => r.shared[n] = 0
  PROVE  Serial(r, h, n) = node
<1>1. CASE node.info = Nil
  BY <1>1 DEF Serial
<1>2. CASE node.info # Nil
  <2>1. node.info \in Infos
    BY NodeFields
  <2>2. \A s : CardInfo(r, h, n, s) = node.info[1][s]
    BY <1>2 DEF CardInfo
  <2>3. Serial(r, h, n) = [node EXCEPT !.info = Ref([s \in DOMAIN node.info[1] |-> node.info[1][s]])]
    BY <1>2, <2>2 DEF Serial
  <2>4. Ref([s \in DOMAIN node.info[1] |-> node.info[1][s]]) = node.info
    BY <1>2, <2>1, InfoVal
  <2>5. PICK info : info = node.info
    OBVIOUS
  <2>6. Serial(r, h, n) = [node EXCEPT !.info = info]
    BY <2>3, <2>4, <2>5
  <2>7. [node EXCEPT !.info = info] = node
    BY <2>5 DEF NodeRecs
  <2>8. QED
    BY <2>6, <2>7
<1>3. QED
  BY <1>1, <1>2

\* ... and has its chassis MACs.
LEMMA SettledMacs ==
  ASSUME NEW D \in SUBSET Names, NEW f \in [D -> NodeRecs(Types)],
         \A n \in D : TypeOf[n] \in SRTypes => f[n].mac # Nil
  PROVE  WithChassisMAC(f) = f
<1>1. ASSUME NEW n \in D, TypeOf[n] \in SRTypes, NEW x
      PROVE  [f[n] EXCEPT !.mac = Or(@, x)] = f[n]
  <2>1. PICK node : node = f[n]
    OBVIOUS
  <2>2. Or(node.mac, x) = node.mac
    BY <1>1, <2>1 DEF Or
  <2>3. PICK mac : mac = node.mac
    OBVIOUS
  <2>4. [node EXCEPT !.mac = mac] = node
    BY <2>1, <2>3 DEF NodeRecs
  <2>5. QED
    BY <2>1, <2>2, <2>3, <2>4
<1>2. WithChassisMAC(f) = [n \in D |-> f[n]]
  BY <1>1 DEF WithChassisMAC
<1>3. QED
  BY <1>2

LEMMA SettledSerialised ==
  ASSUME NEW l, NEW spec, req[l].spec = spec, IsSpec(spec, Types), Settled(spec),
         \A n \in DOMAIN spec.nodes : spec.nodes[n].info # Nil => req[l].shared[n] = 0
  PROVE  Serialised(l) = spec
<1> DEFINE D == DOMAIN spec.nodes
<1>1. \A n, s : SysInfo(l, n, s) = CardInfo(req[l], heap, n, s)
  BY DEF SysInfo, CardInfo
<1>2. \A n : SerialisedNode(l, n) = Serial(req[l], heap, n)
  BY <1>1 DEF SerialisedNode, Serial
<1>3. D \in SUBSET Names /\ spec.nodes \in [D -> NodeRecs(Types)]
  BY SpecFields
<1>4. ASSUME NEW n \in D PROVE SerialisedNode(l, n) = spec.nodes[n]
  <2>1. PICK node, r : node = spec.nodes[n] /\ r = req[l]
    OBVIOUS
  <2>2. node = r.spec.nodes[n] /\ node \in NodeRecs(Types) /\ (node.info # Nil => r.shared[n] = 0)
    BY <1>3, <2>1
  <2>3. Serial(r, heap, n) = node
    BY <2>2, SettledSerial
  <2>4. QED
    BY <1>2, <2>1, <2>3
<1>5. [n \in D |-> SerialisedNode(l, n)] = spec.nodes
  BY <1>3, <1>4
<1>6. WithChassisMAC(spec.nodes) = spec.nodes
  BY <1>3, SettledMacs DEF Settled
<1>7. Serialised(l) = [spec EXCEPT !.nodes = spec.nodes]
  BY <1>5, <1>6 DEF Serialised
<1>8. PICK nodes : nodes = spec.nodes
  OBVIOUS
<1>9. [spec EXCEPT !.nodes = nodes] = spec
  BY <1>8, SpecFields
<1>10. QED
  BY <1>7, <1>8, <1>9

\* Its ports are the ones it has.
LEMMA SettledPorts ==
  ASSUME NEW spec, IsSpec(spec, Types), Settled(spec), NEW p \in PortChoices(spec)
  PROVE  [spec EXCEPT !.port = p] = spec
<1>1. ASSUME NEW c \in Conns PROVE p[c] = spec.port[c]
  BY PortChoice DEF Settled
<1>2. p = spec.port
  BY <1>1, PortChoice, SpecFields
<1>3. PICK port : port = spec.port
  OBVIOUS
<1>4. [spec EXCEPT !.port = port] = spec
  BY <1>3, SpecFields
<1>5. QED
  BY <1>2, <1>3, <1>4

\* Decide stores what a finalizer update asks for.
LEMMA FinalizerDecided ==
  ASSUME AdmissionInv, NEW l \in Labs, FinalizerInv(req[l], lab[l]), Decide(l),
         req[l].kind = "finalizer", lab[l].rv = req[l].rv
  PROVE  lab'[l].ph # lab[l].ph
<1>1. PICK spec : spec = lab[l].spec
  OBVIOUS
<1>2. /\ req[l].spec = spec /\ lab[l].ph \in {"bare", "dying"} /\ req[l].step = "fill"
      /\ \A n \in DOMAIN spec.nodes : spec.nodes[n].info # Nil => req[l].shared[n] = 0
  BY <1>1 DEF FinalizerInv, Decide
<1>3. IsSpec(spec, Types) /\ Settled(spec) /\ LabInv(lab[l]) /\ lab = [k \in Labs |-> lab[k]]
  BY <1>1, <1>2 DEF AdmissionInv, LabInv, Exists
<1>4. Serialised(l) = spec
  BY <1>2, <1>3, SettledSerialised
<1>5. ~Panics(spec.nodes) /\ Valid(spec) /\ Admissible(l, spec)
  BY <1>1, <1>3 DEF Settled, Admissible
<1>6. \A p \in PortChoices(spec) : [spec EXCEPT !.port = p] = spec
  BY <1>3, SettledPorts
<1>7. lab' = [lab EXCEPT ![l] = Stored(l, spec)]
  BY <1>4, <1>5, <1>6 DEF Decide
<1>8. PICK o : o = Stored(l, spec)
  OBVIOUS
<1>9. lab'[l] = o
  BY <1>3, <1>7, <1>8
<1>10. o.ph # lab[l].ph
  <2>1. \/ lab[l].ph = "dying" /\ o = [ph |-> "gone", rv |-> lab[l].rv + 1, spec |-> NoSpec]
        \/ /\ lab[l].ph \in {"bare", "held"}
           /\ o = [ph |-> "held", rv |-> lab[l].rv + 1, spec |-> lab[l].spec]
    BY <1>3, <1>5, <1>8, StoredCases
  <2>2. CASE lab[l].ph = "dying"
    BY <2>1, <2>2
  <2>3. CASE lab[l].ph = "bare"
    BY <2>1, <2>3
  <2>4. QED
    BY <1>2, <2>2, <2>3
<1>11. QED
  BY <1>9, <1>10

\* DefaultNodes does not refuse it.
LEMMA FinalizerLoaded ==
  ASSUME AdmissionInv, NEW l \in Labs, FinalizerInv(req[l], lab[l]), DefaultNodes(l),
         req[l].kind = "finalizer", lab[l].rv = req[l].rv
  PROVE  req'[l].kind = "finalizer"
<1>1. PICK spec : spec = lab[l].spec
  OBVIOUS
<1>2. req[l].spec = spec /\ IsSpec(spec, Types) /\ Settled(spec)
  BY <1>1 DEF FinalizerInv, AdmissionInv, LabInv, Exists
<1>3. WithNodes(req[l].spec.nodes) = spec.nodes /\ \A n \in DOMAIN spec.nodes : spec.nodes[n].type # "unknown"
  BY <1>2, SettledNodes
<1>4. PICK off \in [Conns -> 1..Cardinality(Conns)] :
        req' = [req EXCEPT ![l] = Defaulted(@, spec.nodes, off)]
  BY <1>3 DEF DefaultNodes, MacOffsets
<1>5. req'[l] = Defaulted(req[l], spec.nodes, off) /\ IsRequest(req[l], Len(heap))
  BY <1>4 DEF AdmissionInv, RequestInv
<1>6. PICK nodes : nodes = spec.nodes
  OBVIOUS
<1>7. IsLoaded(req'[l], req[l], nodes, off)
  BY <1>5, <1>6, DefaultedSpec
<1>8. QED
  BY <1>7 DEF IsLoaded

LEMMA UpdateAccepted ==
  ASSUME AdmissionInv, OperatorInv, Next, NEW l \in Labs, req[l].kind = "finalizer",
         req'[l] = NoReq, lab[l].rv = req[l].rv, crashes' = crashes
  PROVE  lab'[l].ph # lab[l].ph
<1>1. FinalizerInv(req[l], lab[l])
  BY OperatorParts
<1>2. CASE Decide(l)
  BY <1>1, <1>2, FinalizerDecided
<1>3. ~(DefaultNodes(l) /\ Refuse(l))
  <2>1. NoReq.kind # "finalizer"
    BY DEF NoReq
  <2>2. QED
    BY <1>1, <2>1, FinalizerLoaded
<1>4. ~Crash
  BY DEF Crash, AdmissionInv
<1>5. QED
  BY <1>2, <1>3, <1>4, EndsBy

\* The operator's finalizer updates are never refused for another reason than
\* that the Lab has changed or the operator restarts: Default, applied again to
\* what it made, under any configuration without new defaults, changes nothing,
\* so that ValidateUpdate finds the spec it compares with.
THEOREM OperatorUpdatesAcceptedTheorem ==
  ASSUME NoNewDefault
  PROVE  Spec => OperatorUpdatesAccepted
<1>1. Init => OperatorInv
  <2>1. NoReq.kind = "none"
    BY DEF NoReq
  <2>2. QED
    BY <2>1 DEF Init, OperatorInv
<1>2. AdmissionInv /\ OperatorInv /\ [Next]_vars => OperatorInv'
  BY OperatorStep
<1>3. AdmissionInv /\ OperatorInv /\ [Next]_vars =>
        [\A l \in Labs :
           /\ req[l].kind = "finalizer" /\ req'[l] = NoReq
           /\ lab[l].rv = req[l].rv /\ crashes' = crashes
           => lab'[l].ph # lab[l].ph]_vars
  BY UpdateAccepted
<1>4. QED
  BY <1>1, <1>2, <1>3, AdmissionInvariant, PTL DEF Spec, OperatorUpdatesAccepted

=============================================================================
