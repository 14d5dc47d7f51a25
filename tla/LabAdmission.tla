---------------------------- MODULE LabAdmission ----------------------------
(***************************************************************************)
(* Admission of Labs: every create and update of a Lab, the operator's own *)
(* finalizer updates included, passes LabCustomDefaulter.Default and then  *)
(* LabCustomValidator.  Requests for different Labs are served at the same *)
(* time.                                                                   *)
(*                                                                         *)
(* Default fills in what the user left out from GCONF.  GCONF.Get copies   *)
(* the top of the structure only, and FillNilPointers copies pointers and  *)
(* maps: a Lab without cards is given the very map of GCONF, and           *)
(* FillDefaultVal writes into it.                                          *)
(***************************************************************************)
EXTENDS Naturals, Sequences, FiniteSets, KubeObject

CONSTANTS
  Labs,        \* Lab names
  NameList,    \* node names, in GetSortedKeySlice order
  TypeOf,      \* GetNodeTypeViaName; "unknown" when no type has the prefix
  CPMName,     \* the CPM node that ParseSRVMName asks for, or the name itself
  Ends,        \* Ends[k]: the node names of link k's connectors
  Manifests,   \* Manifests[l]: the specs a user writes for Lab l
  Configs,     \* DefaultNode of the KNLConfigs a user writes
  MaxWrite,    \* bound: the user's requests
  MaxLoad,     \* bound: KNLConfigs loaded
  MaxCrash     \* bound: restarts of the operator

VARIABLES
  lab,         \* stored Labs
  gconf,       \* GCONF.DefaultNode, but for the SysInfo of its cards
  heap,        \* heap[g][t]: SysInfo of the cards in the g-th GCONF's map
  req,         \* req[l]: the request for Lab l that is being admitted
  writes, loads, crashes

vars == <<lab, gconf, heap, req, writes, loads, crashes>>

-----------------------------------------------------------------------------
(* Pointers: Nil, or a reference to a value *)

Nil    == <<>>
Ref(v) == <<v>>

\* SetDefaultGeneric, and FillNilPointers for one field.
Or(p, q) == IF p = Nil THEN q ELSE p

-----------------------------------------------------------------------------
(* Nodes.  req stands for the fields without which Validate refuses a node *)
(* and that have no application default (Image; License of srsim), opt for *)
(* the optional ones (UUID, Command).  info is the SysInfo of each card,   *)
(* and Nil when the Cards map is nil; a derived SysInfo is represented by  *)
(* the chassis model it names.  magc is like vsim here, vm and srl like    *)
(* pod.                                                                    *)

Types   == {"vsim", "vsri", "srsim", "pod"}
SRVMs   == {"vsim", "vsri"}
SRTypes == SRVMs \cup {"srsim"}
Models  == {"SR-7", "SR-12", "VSR-I"}
Slots   == {"A", "1", "2"}
IOMList == <<"1", "2">>

Names == {NameList[i] : i \in 1..Len(NameList)}
Links == DOMAIN Ends
Conns == UNION {{<<k, i>> : i \in 1..Len(Ends[k])} : k \in Links}
NodeAt(c) == Ends[c[1]][c[2]]

Node(t) == [type |-> t, req |-> Nil, opt |-> Nil, model |-> Nil, info |-> Nil,
            mac |-> Nil]
NoSpec  == [nodes |-> <<>>, mac |-> [c \in Conns |-> Nil],
            port |-> [c \in Conns |-> Nil]]
NoObj   == [ph |-> "gone", rv |-> 0, spec |-> NoSpec]
NoReq   == [kind |-> "none", step |-> "none", rv |-> 0, spec |-> NoSpec,
            shared |-> <<>>, nodes |-> {}, todo |-> {}, write |-> {}]

IsIntegratedChassis(model) == model \in {"SR-1", "SR-1s", "SR-1se", "VSR-I"}

\* SetToAppDefVal of each type, as DefKNLConfig puts them together.
DefKNLConfig ==
  [t \in Types |->
     [Node(t) EXCEPT
        !.model = CASE t \in {"vsim", "srsim"} -> Ref("SR-7")
                    [] t = "vsri" -> Ref("VSR-I") [] OTHER -> Nil,
        !.info = CASE t \in {"vsim", "srsim"} -> Ref([s \in {"A", "1"} |-> Nil])
                   [] t = "vsri" -> Ref([s \in {"A"} |-> Nil]) [] OTHER -> Nil]]

Ptr(S) == {Nil} \cup {Ref(v) : v \in S}
Infos  == Ptr(UNION {[S -> Ptr(Models \cup {"user"})] : S \in SUBSET Slots})

NodeRecs(types) ==
  [type : types, req : Ptr({"a", "b"}), opt : Ptr({"a", "b"}),
   model : Ptr(Models), info : Infos, mac : Ptr(0..Len(NameList))]

\* LabSpec.  A node of a manifest may have no type yet.
IsSpec(spec, types) ==
  /\ spec \in [nodes : {spec.nodes}, mac : [Conns -> Ptr(0..Cardinality(Conns))],
               port : [Conns -> Ptr(Slots)]]
  /\ DOMAIN spec.nodes \subseteq Names
  /\ spec.nodes \in [DOMAIN spec.nodes -> NodeRecs(types)]

\* With its types given, once LoadDef is done.
IsRequest(r, gconfs) ==
  /\ r \in [kind : {"none", "create", "update", "finalizer"},
            step : {"none", "default", "fill"}, rv : Nat, spec : {r.spec},
            shared : {r.shared}, nodes : SUBSET Names,
            todo : SUBSET (Names \X Slots), write : SUBSET (Names \X Slots)]
  /\ IsSpec(r.spec, IF r.step = "fill" THEN Types ELSE Types \cup {"nil"})
  /\ r.step = "fill" => r.shared \in [DOMAIN r.spec.nodes -> 0..gconfs]

\* A KNLConfig is itself defaulted from DefKNLConfig, so that its nodes have
\* all that the application's defaults have.
ASSUME AdmissionAssumption ==
  /\ NameList \in Seq(Names)
  /\ \A i, j \in 1..Len(NameList) : NameList[i] = NameList[j] => i = j
  /\ \A n \in Names : TypeOf[n] \in Types \cup {"unknown"} /\ CPMName[n] \in Names
                     /\ CPMName[CPMName[n]] = CPMName[n]
  /\ IsFiniteSet(Links) /\ \A k \in Links : Ends[k] \in Seq(Names)
  /\ \A l \in Labs : \A m \in Manifests[l] : IsSpec(m, Types \cup {"nil"})
  /\ Configs \subseteq [Types -> NodeRecs(Types)]
  /\ \A c \in Configs : \A t \in Types : \A f \in {"req", "opt", "model", "info"} :
       DefKNLConfig[t][f] # Nil => c[t][f] # Nil
  /\ MaxWrite \in Nat /\ MaxLoad \in Nat /\ MaxCrash \in Nat

-----------------------------------------------------------------------------
(* The parts of Default that touch nothing but the request's own object *)

\* Nodes named by links but not listed, CPMs not listed, and the type of a
\* node from its name.
WithNodes(nodes) ==
  LET named == DOMAIN nodes \cup {NodeAt(c) : c \in Conns}
  IN [n \in named \cup {CPMName[x] : x \in named} |->
        IF n \notin DOMAIN nodes THEN Node(TypeOf[n])
        ELSE IF nodes[n].type = "nil" THEN [nodes[n] EXCEPT !.type = TypeOf[n]]
        ELSE nodes[n]]

\* Mutant: the offset starts again with every link.
IsMacOffset_PerLink(off) == \A c \in Conns : off[c] = c[2]

\* macOffset counts the connectors that the loops have come to: link after
\* link in map order, which rank stands for, and those of a link in turn.
IsMacOffset(off) ==
  \E rank \in [Links -> 1..Cardinality(Links)] :
    /\ \A j, k \in Links : rank[j] = rank[k] => j = k
    /\ \A c \in Conns : off[c] = Cardinality({d \in Conns :
         rank[d[1]] < rank[c[1]] \/ (d[1] = c[1] /\ d[2] <= c[2])})

MacOffsets == {off \in [Conns -> 1..Cardinality(Conns)] : IsMacOffset(off)}

\* Mutant: the configuration wins over what the Lab says.
FillNil_Overwrites(node) ==
  LET def == gconf[node.type] IN
  [node EXCEPT !.req = Or(def.req, @), !.opt = Or(def.opt, @), !.model = Or(@, def.model),
               !.info = Or(@, def.info), !.mac = Or(@, def.mac)]

\* LoadDef: the fields of a node that are nil, those of its chassis included,
\* from GCONF's node of its type.
FillNil(node) ==
  LET def == gconf[node.type] IN
  [node EXCEPT !.req = Or(@, def.req), !.opt = Or(@, def.opt), !.model = Or(@, def.model),
               !.info = Or(@, def.info), !.mac = Or(@, def.mac)]

\* SRChassis.Validate.  Model and type are given by now, and a card that is
\* refused counts as missing.
ChassisValid(node) ==
  "A" \in DOMAIN node.info[1]

\* GetDefaultMDASlot: any slot of an integrated chassis (map order), else the
\* lowest IOM, else "n/a".
DefaultMDASlots(node) ==
  LET cards == DOMAIN node.info[1]
      ioms  == {i \in 1..Len(IOMList) : IOMList[i] \in cards}
  IN IF IsIntegratedChassis(node.model[1]) /\ cards # {} THEN cards
     ELSE IF ioms = {} THEN {"n/a"}
     ELSE {IOMList[CHOOSE i \in ioms : \A j \in ioms : i <= j]}

\* The index of a node in the sorted list of all nodes.
NodeIndex(nodes, n) ==
  Cardinality({i \in 1..Len(NameList) :
    /\ NameList[i] \in DOMAIN nodes
    /\ \E j \in 1..Len(NameList) : i < j /\ NameList[j] = n})

\* The node's chassis gets its base MAC.
WithChassisMAC(nodes) ==
  [n \in DOMAIN nodes |->
     IF TypeOf[n] \in SRTypes
       THEN [nodes[n] EXCEPT !.mac = Or(@, Ref(NodeIndex(nodes, n)))] ELSE nodes[n]]

\* A node whose type is not the one its name says makes Default panic.
Panics(nodes) ==
  \E n \in DOMAIN nodes : TypeOf[n] \in SRTypes /\ nodes[n].type # TypeOf[n]

-----------------------------------------------------------------------------
(* LabCustomValidator *)

\* A node's Validate; SRVM.Validate looks at the ports of its connectors too.
NodeValid(spec, n) ==
  LET node == spec.nodes[n] IN
  /\ node.type \in Types /\ node.req # Nil
  /\ node.type \in SRTypes => ChassisValid(node)
  /\ node.type \in SRVMs => \A c \in Conns :
       NodeAt(c) = n /\ spec.port[c] # Nil => spec.port[c][1] \in DOMAIN node.info[1]

\* LabSpec.Validate: every node's Validate, and Link.Validate.
Valid(spec) ==
  /\ DOMAIN spec.nodes # {}
  /\ \A n \in DOMAIN spec.nodes : NodeValid(spec, n)
  /\ \A k \in Links : Len(Ends[k]) >= 2

-----------------------------------------------------------------------------
(* A request: Default, then validation, then it is stored *)

Begin(l, kind, spec) ==
  /\ req[l] = NoReq
  /\ req' = [req EXCEPT ![l] = [NoReq EXCEPT !.kind = kind, !.step = "default",
                                             !.rv = lab[l].rv, !.spec = spec]]

Refuse(l) == req' = [req EXCEPT ![l] = NoReq] /\ UNCHANGED <<lab, heap>>

UserCreate(l, m) ==
  /\ ~Exists(lab[l]) /\ writes < MaxWrite
  /\ Begin(l, "create", m)
  /\ writes' = writes + 1
  /\ UNCHANGED <<lab, gconf, heap, loads, crashes>>

\* The user replaces the Lab by a manifest.
UserUpdate(l, m) ==
  /\ Exists(lab[l]) /\ writes < MaxWrite
  /\ Begin(l, "update", m)
  /\ writes' = writes + 1
  /\ UNCHANGED <<lab, gconf, heap, loads, crashes>>

UserDelete(l) ==
  /\ lab[l].ph \in {"bare", "held"}
  /\ lab' = [lab EXCEPT ![l] =
               [ph |-> Deleted(@).ph, rv |-> @.rv + 1,
                spec |-> IF @.ph = "bare" THEN NoSpec ELSE @.spec]]
  /\ UNCHANGED <<gconf, heap, req, writes, loads, crashes>>

\* Reconcile adds the finalizer, or removes it from a Lab being deleted.
OperatorUpdate(l) ==
  /\ lab[l].ph \in {"bare", "dying"}
  /\ Begin(l, "finalizer", lab[l].spec)
  /\ UNCHANGED <<lab, gconf, heap, writes, loads, crashes>>

\* The request r after LoadDef, with its nodes and the offsets of its MACs.
Defaulted(r, nodes, off) ==
  [r EXCEPT !.step = "fill",
     !.spec = [nodes |-> [n \in DOMAIN nodes |-> FillNil(nodes[n])],
               mac   |-> [c \in Conns |-> Or(r.spec.mac[c], Ref(off[c]))],
               port  |-> r.spec.port],
     !.shared = [n \in DOMAIN nodes |-> IF nodes[n].info = Nil THEN Len(heap) ELSE 0],
     !.nodes = {n \in DOMAIN nodes : nodes[n].type \in SRVMs}]

\* Default up to LoadDef.  A type that cannot be derived is an error.  A node
\* without cards shares those of the present GCONF.
DefaultNodes(l) ==
  /\ req[l].step = "default"
  /\ LET nodes == WithNodes(req[l].spec.nodes) IN
     \/ /\ \E n \in DOMAIN nodes : nodes[n].type = "unknown"
        /\ Refuse(l)
     \/ /\ \A n \in DOMAIN nodes : nodes[n].type # "unknown"
        /\ \E off \in MacOffsets : req' = [req EXCEPT ![l] = Defaulted(@, nodes, off)]
        /\ UNCHANGED <<lab, heap>>
  /\ UNCHANGED <<gconf, writes, loads, crashes>>

\* What the request sees in the SysInfo of a card.
SysInfo(l, n, s) ==
  LET node == req[l].spec.nodes[n] IN
  IF req[l].shared[n] = 0 THEN node.info[1][s]
                          ELSE heap[req[l].shared[n]][node.type][1][s]

\* Mutant: the CPM is left out.
FillNode_NoCPM(l, n) ==
  /\ req[l].step = "fill" /\ req[l].todo = {} /\ req[l].write = {} /\ n \in req[l].nodes
  /\ req' = [req EXCEPT ![l].nodes = @ \ {n},
               ![l].todo = {<<n, s>> : s \in DOMAIN req[l].spec.nodes[n].info[1] \ {"A"}}]
  /\ UNCHANGED <<lab, gconf, heap, writes, loads, crashes>>

\* SRVM.FillDefaultVal of one node, in map order; it leaves a chassis alone
\* that does not validate.
FillNode(l, n) ==
  /\ req[l].step = "fill" /\ req[l].todo = {} /\ req[l].write = {} /\ n \in req[l].nodes
  /\ LET node == req[l].spec.nodes[n] IN
     req' = [req EXCEPT ![l].nodes = @ \ {n},
               ![l].todo = IF ChassisValid(node)
                             THEN {<<n, s>> : s \in DOMAIN node.info[1]} ELSE {}]
  /\ UNCHANGED <<lab, gconf, heap, writes, loads, crashes>>

\* The loop over the cards, in map order: SysInfo is read, and written if it
\* was nil, with no lock held in between.
ReadSysInfo(l, n, s) ==
  /\ <<n, s>> \in req[l].todo /\ req[l].write = {}
  /\ req' = [req EXCEPT ![l].todo = @ \ {<<n, s>>},
               ![l].write = IF SysInfo(l, n, s) = Nil THEN {<<n, s>>} ELSE {}]
  /\ UNCHANGED <<lab, gconf, heap, writes, loads, crashes>>

WriteSysInfo(l, n, s) ==
  /\ <<n, s>> \in req[l].write
  /\ LET node == req[l].spec.nodes[n]
         g    == req[l].shared[n]
     IN IF g = 0
          THEN /\ req' = [req EXCEPT ![l].write = {},
                            ![l].spec.nodes[n].info = Ref([@[1] EXCEPT ![s] = node.model])]
               /\ UNCHANGED heap
          ELSE /\ req' = [req EXCEPT ![l].write = {}]
               /\ heap' = [heap EXCEPT ![g][node.type] = Ref([@[1] EXCEPT ![s] = node.model])]
  /\ UNCHANGED <<lab, gconf, writes, loads, crashes>>

\* The spec that Default returns, serialised: the shared cards are read.
SerialisedNode(l, n) ==
  LET node == req[l].spec.nodes[n] IN
  IF node.info = Nil THEN node
  ELSE [node EXCEPT !.info = Ref([s \in DOMAIN node.info[1] |-> SysInfo(l, n, s)])]

Serialised(l) ==
  [req[l].spec EXCEPT !.nodes =
     WithChassisMAC([n \in DOMAIN req[l].spec.nodes |-> SerialisedNode(l, n)])]

\* A port is chosen for the connectors of SR VMs that have none.
PortChoices(spec) ==
  LET ports == [c \in Conns |->
        IF spec.port[c] # Nil \/ TypeOf[NodeAt(c)] \notin SRVMs THEN {spec.port[c]}
        ELSE {Ref(s) : s \in DefaultMDASlots(spec.nodes[NodeAt(c)])}]
  IN {p \in [Conns -> UNION {ports[c] : c \in Conns}] : \A c \in Conns : p[c] \in ports[c]}

\* Mutant: the spec itself is not validated.
Admissible_NoValidate(l, spec) ==
  req[l].kind # "create" => lab[l].rv = req[l].rv /\ spec = lab[l].spec

\* ValidateCreate and ValidateUpdate; the API server refuses an update of
\* another resourceVersion.
Admissible(l, spec) ==
  /\ Valid(spec)
  /\ req[l].kind # "create" => lab[l].rv = req[l].rv /\ spec = lab[l].spec

\* An update that changes nothing is not a new version.
Stored(l, spec) ==
  LET obj == [lab[l] EXCEPT !.rv = @ + 1, !.spec = spec] IN
  IF req[l].kind = "create" THEN [obj EXCEPT !.ph = "bare"]
  ELSE IF req[l].kind = "update" THEN lab[l]
  ELSE IF lab[l].ph = "dying" THEN [WithoutFinalizer(obj) EXCEPT !.spec = NoSpec]
  ELSE WithFinalizer(obj)

\* The end of Default, validation, and the API server's answer.
Decide(l) ==
  /\ req[l].step = "fill"
  /\ req[l].nodes = {} /\ req[l].todo = {} /\ req[l].write = {}
  /\ LET spec == Serialised(l) IN
     \/ Panics(spec.nodes) /\ Refuse(l)
     \/ /\ ~Panics(spec.nodes)
        /\ \E p \in PortChoices(spec) : LET full == [spec EXCEPT !.port = p] IN
             \/ /\ Admissible(l, full)
                /\ lab' = [lab EXCEPT ![l] = Stored(l, full)]
                /\ req' = [req EXCEPT ![l] = NoReq]
                /\ UNCHANGED heap
             \/ ~Admissible(l, full) /\ Refuse(l)
  /\ UNCHANGED <<gconf, writes, loads, crashes>>

-----------------------------------------------------------------------------
(* GCONF *)

Cards(def) == [t \in Types |-> def[t].info]

\* Config.Set
LoadConfig(c) ==
  /\ loads < MaxLoad /\ c # gconf
  /\ loads' = loads + 1
  /\ gconf' = c /\ heap' = Append(heap, Cards(c))
  /\ UNCHANGED <<lab, req, writes, crashes>>

\* A new process: the requests under way fail, GCONF is newConfig.
Crash ==
  /\ crashes < MaxCrash
  /\ crashes' = crashes + 1
  /\ gconf' = DefKNLConfig /\ heap' = <<Cards(DefKNLConfig)>>
  /\ req' = [l \in Labs |-> NoReq]
  /\ UNCHANGED <<lab, writes, loads>>

Init ==
  /\ lab = [l \in Labs |-> NoObj] /\ req = [l \in Labs |-> NoReq]
  /\ gconf = DefKNLConfig /\ heap = <<Cards(DefKNLConfig)>>
  /\ writes = 0 /\ loads = 0 /\ crashes = 0

Admission(l) ==
  \/ DefaultNodes(l)
  \/ \E n \in Names : FillNode(l, n)
  \/ \E n \in Names, s \in Slots : ReadSysInfo(l, n, s) \/ WriteSysInfo(l, n, s)
  \/ Decide(l)

Next ==
  \/ \E l \in Labs : Admission(l) \/ OperatorUpdate(l) \/ UserDelete(l)
  \/ \E l \in Labs : \E m \in Manifests[l] : UserCreate(l, m) \/ UserUpdate(l, m)
  \/ \E c \in Configs : LoadConfig(c)
  \/ Crash

Spec == Init /\ [][Next]_vars

-----------------------------------------------------------------------------
(* Properties *)

\* Type correctness: in particular a stored Lab has no port that is not a slot,
\* as GetDefaultMDASlot's "n/a" is not, and the cards that a request shares are
\* those of a GCONF that there was.
TypeOK ==
  /\ lab = [l \in Labs |-> lab[l]]
  /\ \A l \in Labs : /\ lab[l] \in [ph : Phase, rv : Nat, spec : {lab[l].spec}]
                     /\ IsSpec(lab[l].spec, Types)
  /\ gconf \in [Types -> NodeRecs(Types)] /\ heap \in Seq([Types -> Infos])
  /\ req = [l \in Labs |-> req[l]]
  /\ \A l \in Labs : IsRequest(req[l], Len(heap))
  /\ writes \in 0..MaxWrite /\ loads \in 0..MaxLoad /\ crashes \in 0..MaxCrash

\* A stored Lab is fit for SRVM.Ensure, which follows its pointers without
\* looking: every SR VM has its image and chassis model, every card its SysInfo
\* and every connector a port that is one of the cards, whatever the
\* configuration was while the request was admitted, with other Labs filling
\* the same cards at the same time.
SRVMFit ==
  \A l \in Labs : \A n \in DOMAIN lab[l].spec.nodes :
    LET node == lab[l].spec.nodes[n] IN
    node.type \in SRVMs =>
      /\ node.req # Nil /\ node.model # Nil /\ node.info # Nil /\ node.mac # Nil
      /\ \A s \in DOMAIN node.info[1] : node.info[1][s] # Nil
      /\ \A c \in Conns : NodeAt(c) = n =>
           /\ lab[l].spec.port[c] # Nil
           /\ lab[l].spec.port[c][1] \in DOMAIN node.info[1]

\* The MACs that users give the connectors and the chassis of a Lab, the
\* latter in a KNLConfig too.
LinkMacsGiven(l) == UNION {{m.mac[c] : c \in Conns} : m \in Manifests[l]}
ChassisMacsGiven(l) ==
  (UNION {{m.nodes[n].mac : n \in DOMAIN m.nodes} : m \in Manifests[l]})
    \cup (UNION {{c[t].mac : t \in Types} : c \in Configs})

\* Two connectors of a Lab, or two of its chassis, have the same MAC only if a
\* user gives that MAC: those that Default derives are all different, whatever
\* the order in which it comes to the links, the other MACs that are given, the
\* nodes that it adds and the configuration that it takes defaults from.
MacsDistinct ==
  \A l \in Labs : Exists(lab[l]) =>
    /\ \A c, d \in Conns : c # d /\ lab[l].spec.mac[c] = lab[l].spec.mac[d] =>
         lab[l].spec.mac[c] \in LinkMacsGiven(l)
    /\ \A m, n \in DOMAIN lab[l].spec.nodes :
         m # n /\ lab[l].spec.nodes[m].mac = lab[l].spec.nodes[n].mac =>
           lab[l].spec.nodes[m].mac \in ChassisMacsGiven(l) \cup {Nil}

\* An update in which the operator changes the finalizers only is not refused:
\* "updates to the spec are not allowed", and this is none.  The spec it sends
\* is defaulted again, under the configuration of the day.
OperatorUpdatesAccepted ==
  [][\A l \in Labs :
       /\ req[l].kind = "finalizer" /\ req'[l] = NoReq
       /\ lab[l].rv = req[l].rv /\ crashes' = crashes
       => lab'[l].ph # lab[l].ph]_vars

\* The SysInfo of a card is the user's, or derived from the chassis the card
\* is in (GetDefaultSysinfoStr).
SysInfoOfOwnChassis ==
  \A l \in Labs : \A n \in DOMAIN lab[l].spec.nodes :
    LET node == lab[l].spec.nodes[n] IN
    node.type \in SRVMs =>
      \A s \in DOMAIN node.info[1] : node.info[1][s] \in {Ref("user"), node.model}

=============================================================================
