----------------------------- MODULE SRVMEnsure -----------------------------
(***************************************************************************)
(* SRVM.Ensure: what a reconcile does for the SR OS virtual machines (vsim,*)
(* magc, vsri) of one Lab.  A chassis has fabric networks                  *)
(* (NetworkAttachmentDefinitions on Linux bridges of allocated indices),   *)
(* files on the SFTP server, a data volume per CPM and a                   *)
(* VirtualMachineInstance per card.  A VMI that has failed is deleted and  *)
(* created again (createIfNotExistsOrFailedOrRemove).                      *)
(*                                                                         *)
(* Reads come from informer caches, as in LabController.  The Lab itself   *)
(* stays as it is here, and all objects are its own.                       *)
(***************************************************************************)
EXTENDS Naturals, Sequences, FiniteSets

CONSTANTS
  Chassis,     \* node names
  KindOf,      \* their types, by name: "vsim", "magc" or "vsri"
  ModelOf,     \* their chassis models
  SlotsOf,     \* the slots of their Cards
  SysInfoOf,   \* SysInfoOf[c][s]: the chassis model that a card's SysInfo names
  Configs,     \* the loader images ("cpm", "iom") that the KNLConfigs give
  MaxIndex,    \* maxBridgeIndex
  MaxLoad,     \* bound: KNLConfigs that a process loads
  MaxFault     \* bound: VMIs that end (guest shut down, node lost), calls that
               \* fail and restarts of the operator, together

CPMs    == {"A", "B"}
Loaders == {"cpm", "iom"}

ASSUME SRVMAssumption ==
  /\ Chassis # {} /\ KindOf \in [Chassis -> {"vsim", "magc", "vsri"}]
  /\ \A c \in Chassis : SlotsOf[c] \cap CPMs # {}
  /\ Configs \subseteq SUBSET Loaders
  /\ MaxIndex \in Nat /\ MaxLoad \in Nat /\ MaxFault \in Nat

VARIABLES
  nad, nadC, nadQ,   \* NADs: stored, cached, watch events under way
  vmi, vmiC, vmiQ,   \* VMIs, likewise
  dv, dvC,           \* CPMs whose data volume is stored, is cached
  files,             \* files on the SFTP server
  secret,            \* the license secret exists
  gconf, loads,      \* GCONF's loader images, KNLConfigs loaded by this process
  queued,            \* the Lab is on the workqueue
  pc,                \* what the reconcile does next, or "idle"
  node, indexes, at, \* the chassis being ensured, its indexList, the NAD in turn
  slot, lic,         \* the card in turn, and whether licFullPath is set
  conf,              \* GCONF as Ensure has read it
  nodes, slots,      \* chassis, and cards of the chassis, not yet visited
  stale,             \* history: indices were picked with a NAD event pending
  faults             \* so far

nadVars    == <<nad, nadC, nadQ>>
vmiVars    == <<vmi, vmiC, vmiQ>>
dvVars     == <<dv, dvC>>
confVars   == <<gconf, loads>>
workerVars == <<pc, node, indexes, at, slot, lic, nodes, slots, conf>>
vars == <<nadVars, vmiVars, dvVars, files, secret, confVars, queued, workerVars, stale, faults>>

-----------------------------------------------------------------------------
(* Objects *)

IsIntegratedChassis(model) == model \in {"SR-1", "SR-1s", "SR-1se", "VSR-I"}

\* Mutant: no data fabric for a MAG-c.
NadsOf_FbOnly(c) ==
  IF IsIntegratedChassis(ModelOf[c]) THEN <<>> ELSE << <<c, "fb">> >>

\* The fabric networks that Ensure creates for a chassis, by its model, in
\* this order.
NadsOf(c) ==
  IF IsIntegratedChassis(ModelOf[c]) THEN <<>>
  ELSE IF KindOf[c] = "magc" THEN << <<c, "fb">>, <<c, "df">> >>
  ELSE << <<c, "fb">> >>

Nads  == UNION {{NadsOf(c)[i] : i \in 1..Len(NadsOf(c))} : c \in Chassis}
Cards == UNION {{<<c, s>> : s \in SlotsOf[c]} : c \in Chassis}

\* A NAD is its bridge index, 0 when it does not exist.
NadObj == 0..MaxIndex

\* A VMI's phase, whether it is being deleted, and whether its FTP path map
\* has the license file.
VmiObj == [ph : {"gone", "Running", "Failed"}, dying : BOOLEAN, lic : BOOLEAN]
NoVmi  == [ph |-> "gone", dying |-> FALSE, lic |-> FALSE]

\* getVMI: the VMI of the card in turn.  It reads GCONF again, and the disk of
\* a line card is SRIOMLoaderImage.
BuildPanics == slot \notin CPMs /\ "iom" \notin gconf
NewVmi == [ph |-> "Running", dying |-> FALSE, lic |-> lic]

\* getVMI: the networks a card's VMI refers to, besides the spokes: the fabric
\* by the card's SysInfo, the data fabric for the line cards of a MAG-c.
Networks(c, s) ==
  {n \in {<<c, "fb">>, <<c, "df">>} :
     IF n[2] = "fb" THEN KindOf[c] # "vsri" /\ ~IsIntegratedChassis(SysInfoOf[c][s])
                    ELSE KindOf[c] = "magc" /\ s \notin CPMs}

PutVmi(x, obj) == /\ vmi' = [vmi EXCEPT ![x] = obj]
                  /\ vmiQ' = [vmiQ EXCEPT ![x] = Append(@, obj)]
                  /\ UNCHANGED vmiC

-----------------------------------------------------------------------------
(* The worker *)

AnyChassis == CHOOSE c \in Chassis : TRUE

\* An error of Ensure ends the reconcile and is only logged.
Return ==
  /\ pc' = "idle" /\ node' = AnyChassis /\ indexes' = <<>> /\ at' = 0
  /\ slot' = "A" /\ lic' = FALSE /\ nodes' = {} /\ slots' = {} /\ conf' = {}

\* A panic is an error of the reconcile: the Lab is queued again.
Panic == Return /\ queued' = TRUE

Goto(step) == pc' = step /\ UNCHANGED <<node, indexes, at, slot, lic, nodes, slots, conf>>

Reconcile ==
  /\ pc = "idle" /\ queued
  /\ queued' = FALSE
  /\ pc' = "node" /\ nodes' = Chassis
  /\ UNCHANGED <<node, indexes, at, slot, lic, slots, conf>>
  /\ UNCHANGED <<nadVars, vmiVars, dvVars, files, secret, confVars, stale, faults>>

\* Ensure of the next node, in map order; after the last the reconcile ends.
Ensure(c) ==
  /\ pc = "node" /\ c \in nodes
  /\ pc' = "index" /\ node' = c /\ nodes' = nodes \ {c} /\ conf' = gconf
  /\ UNCHANGED <<indexes, at, slot, lic, slots>>
  /\ UNCHANGED <<nadVars, vmiVars, dvVars, files, secret, confVars, queued, stale, faults>>

EndReconcile ==
  /\ pc = "node" /\ nodes = {}
  /\ Return
  /\ UNCHANGED <<nadVars, vmiVars, dvVars, files, secret, confVars, queued, stale, faults>>

UsedIndexes == {nadC[n] : n \in Nads} \ {0}

\* Mutant: one index for every kind of chassis.
GetAvailableBrIndex_One ==
  /\ pc = "index"
  /\ stale' = (stale \/ nadQ # <<>>)
  /\ \E v \in (1..MaxIndex - 1) \ UsedIndexes :
       /\ \A w \in 1..v - 1 : w \in UsedIndexes
       /\ indexes' = <<v>> /\ at' = 1 /\ pc' = "nad"
       /\ UNCHANGED <<node, slot, lic, nodes, slots, conf>>
  /\ UNCHANGED <<nadVars, vmiVars, dvVars, files, secret, confVars, queued, faults>>

\* GetAvailableBrIndex: the lowest free, two of them for a magc, whether or
\* not the NADs exist.
GetAvailableBrIndex ==
  /\ pc = "index"
  /\ stale' = (stale \/ nadQ # <<>>)
  /\ LET free   == (1..MaxIndex - 1) \ UsedIndexes
         number == IF KindOf[node] = "magc" THEN 2 ELSE 1
     IN \/ /\ Cardinality(free) >= number
           /\ indexes' = [i \in 1..number |->
                CHOOSE v \in free : Cardinality({w \in free : w < v}) = i - 1]
           /\ at' = 1 /\ pc' = "nad" /\ UNCHANGED <<node, slot, lic, nodes, slots, conf>>
        \/ Cardinality(free) < number /\ Return
  /\ UNCHANGED <<nadVars, vmiVars, dvVars, files, secret, confVars, queued, faults>>

\* Mutant: all NADs of a chassis on the first index.
EnsureNad_SameIndex ==
  /\ pc = "nad" /\ at <= Len(NadsOf(node))
  /\ LET n == NadsOf(node)[at] IN
     \/ /\ nadC[n] # 0 \/ nad[n] = 0
        /\ nad' = IF nad[n] = 0 THEN [nad EXCEPT ![n] = indexes[1]] ELSE nad
        /\ nadQ' = IF nad[n] = 0 THEN Append(nadQ, [name |-> n, obj |-> indexes[1]])
                                 ELSE nadQ
        /\ at' = at + 1 /\ UNCHANGED <<nadC, pc, node, indexes, slot, lic, nodes, slots, conf>>
     \/ nadC[n] = 0 /\ nad[n] # 0 /\ Return /\ UNCHANGED nadVars
  /\ UNCHANGED <<vmiVars, dvVars, files, secret, confVars, queued, stale, faults>>

\* createIfNotExistsOrRemove of a fabric NAD.  Create fails if it exists and
\* the cache did not know.
EnsureNad ==
  /\ pc = "nad" /\ at <= Len(NadsOf(node))
  /\ LET n == NadsOf(node)[at] IN
     \/ /\ nadC[n] # 0
        /\ at' = at + 1 /\ UNCHANGED <<nadVars, pc, node, indexes, slot, lic, nodes, slots, conf>>
     \/ /\ nadC[n] = 0 /\ nad[n] = 0
        /\ nad' = [nad EXCEPT ![n] = indexes[at]]
        /\ nadQ' = Append(nadQ, [name |-> n, obj |-> indexes[at]])
        /\ at' = at + 1 /\ UNCHANGED <<nadC, pc, node, indexes, slot, lic, nodes, slots, conf>>
     \/ nadC[n] = 0 /\ nad[n] # 0 /\ Return /\ UNCHANGED nadVars
  /\ UNCHANGED <<vmiVars, dvVars, files, secret, confVars, queued, stale, faults>>

\* The link to the image folder (the image is one on the SFTP server) and the
\* configuration folder; licFullPath is declared anew.
PrepareFiles ==
  /\ pc = "nad" /\ at > Len(NadsOf(node))
  /\ files' = files \cup {<<node, "img">>, <<node, "cfg">>}
  /\ pc' = "card" /\ slots' = SlotsOf[node] /\ lic' = FALSE
  /\ indexes' = <<>> /\ at' = 0
  /\ UNCHANGED <<node, slot, nodes, conf>>
  /\ UNCHANGED <<nadVars, vmiVars, dvVars, secret, confVars, queued, stale, faults>>

\* The loop over the cards, in map order.
VisitCard(s) ==
  /\ pc = "card" /\ s \in slots
  /\ slot' = s /\ slots' = slots \ {s}
  /\ pc' = IF s \in CPMs THEN "license" ELSE "vmi"
  /\ UNCHANGED <<node, indexes, at, lic, nodes, conf>>
  /\ UNCHANGED <<nadVars, vmiVars, dvVars, files, secret, confVars, queued, stale, faults>>

CardsDone ==
  /\ pc = "card" /\ slots = {}
  /\ pc' = "node" /\ slot' = "A" /\ lic' = FALSE /\ conf' = {}
  /\ UNCHANGED <<node, indexes, at, nodes, slots>>
  /\ UNCHANGED <<nadVars, vmiVars, dvVars, files, secret, confVars, queued, stale, faults>>

\* A CPM: the license goes from the secret to the SFTP server.
CopyLicense ==
  /\ pc = "license"
  /\ \/ /\ secret
        /\ files' = files \cup {<<node, "lic">>}
        /\ lic' = TRUE /\ pc' = "dv"
        /\ UNCHANGED <<node, indexes, at, slot, nodes, slots, conf>>
     \/ ~secret /\ Return /\ UNCHANGED files
  /\ UNCHANGED <<nadVars, vmiVars, dvVars, secret, confVars, queued, stale, faults>>

\* A CPM: its data volume, which has no owner.  SRCPMLoaderImage is
\* dereferenced first, as the image is one on the SFTP server.
EnsureDv ==
  /\ pc = "dv"
  /\ LET x == <<node, slot>> IN
     \/ "cpm" \notin conf /\ Panic /\ UNCHANGED dv
     \/ /\ "cpm" \in conf
        /\ \/ x \in dvC /\ Goto("vmi") /\ UNCHANGED dv
           \/ x \notin dvC /\ x \notin dv /\ dv' = dv \cup {x} /\ Goto("vmi")
           \/ x \notin dvC /\ x \in dv /\ Return /\ UNCHANGED dv
        /\ UNCHANGED queued
  /\ UNCHANGED <<nadVars, vmiVars, dvC, files, secret, confVars, stale, faults>>

\* Mutant: a VMI that exists will do.
CreateOrReplace_AnyPhase(x) ==
  \/ /\ vmiC[x].ph = "gone" /\ vmi[x].ph = "gone"
     /\ PutVmi(x, NewVmi) /\ Goto("card")
  \/ /\ vmiC[x].ph = "gone" /\ vmi[x].ph # "gone"
     /\ Return /\ UNCHANGED vmiVars
  \/ /\ vmiC[x].ph # "gone"
     /\ Goto("card") /\ UNCHANGED vmiVars

\* createIfNotExistsOrFailedOrRemove of a VMI, up to the Delete of one that has
\* failed.  Delete goes by name.
CreateOrReplace(x) ==
  \/ /\ vmiC[x].ph = "gone" /\ vmi[x].ph = "gone"
     /\ PutVmi(x, NewVmi) /\ Goto("card")
  \/ /\ vmiC[x].ph = "gone" /\ vmi[x].ph # "gone"
     /\ Return /\ UNCHANGED vmiVars
  \/ /\ vmiC[x].ph = "Running"
     /\ Goto("card") /\ UNCHANGED vmiVars
  \/ /\ vmiC[x].ph = "Failed" /\ vmi[x].ph # "gone"
     /\ IF vmi[x].dying THEN UNCHANGED vmiVars
                        ELSE PutVmi(x, [vmi[x] EXCEPT !.dying = TRUE])
     /\ Goto("recreate")
  \/ /\ vmiC[x].ph = "Failed" /\ vmi[x].ph = "gone"
     /\ Return /\ UNCHANGED vmiVars

\* The card's VMI.  The SFTP credentials, read just before, are part of the
\* installation; reading them may fail (ApiError).
EnsureVmi ==
  /\ pc = "vmi"
  /\ \/ BuildPanics /\ Panic /\ UNCHANGED vmiVars
     \/ ~BuildPanics /\ CreateOrReplace(<<node, slot>>) /\ UNCHANGED queued
  /\ UNCHANGED <<nadVars, dvVars, files, secret, confVars, stale, faults>>

\* Mutant: the object is created afresh, without a resourceVersion.
Recreate_Fresh ==
  /\ pc = "recreate"
  /\ IF vmi[<<node, slot>>].ph = "gone"
       THEN PutVmi(<<node, slot>>, NewVmi) /\ Goto("card")
       ELSE Return /\ UNCHANGED vmiVars
  /\ UNCHANGED <<nadVars, dvVars, files, secret, confVars, queued, stale, faults>>

\* The Create after that Delete.  WaitForObjGone cancels its own context and
\* does not wait; the object still has the resourceVersion that Get put in, so
\* that Create is refused whether or not the old one is gone.
Recreate ==
  /\ pc = "recreate"
  /\ Return
  /\ UNCHANGED <<nadVars, vmiVars, dvVars, files, secret, confVars, queued, stale, faults>>

\* A call fails.
ApiError ==
  /\ pc \in {"index", "nad", "license", "dv", "vmi"} /\ faults < MaxFault
  /\ faults' = faults + 1
  /\ Return
  /\ UNCHANGED <<nadVars, vmiVars, dvVars, files, secret, confVars, queued, stale>>

-----------------------------------------------------------------------------
(* Informers: events of the objects that the Lab owns queue it. *)

DeliverNad ==
  /\ nadQ # <<>>
  /\ nadC' = [nadC EXCEPT ![Head(nadQ).name] = Head(nadQ).obj]
  /\ nadQ' = Tail(nadQ) /\ queued' = TRUE
  /\ UNCHANGED <<nad, vmiVars, dvVars, files, secret, confVars, workerVars, stale, faults>>

DeliverVmi(x) ==
  /\ vmiQ[x] # <<>>
  /\ vmiC' = [vmiC EXCEPT ![x] = Head(vmiQ[x])]
  /\ vmiQ' = [vmiQ EXCEPT ![x] = Tail(@)] /\ queued' = TRUE
  /\ UNCHANGED <<nadVars, vmi, dvVars, files, secret, confVars, workerVars, stale, faults>>

DeliverDv ==
  /\ dvC # dv
  /\ dvC' = dv
  /\ UNCHANGED <<nadVars, vmiVars, dv, files, secret, confVars, queued, workerVars, stale, faults>>

-----------------------------------------------------------------------------
(* The environment *)

\* A running VMI ends; KubeVirt reports it as failed or succeeded.
VmiEnds(x) ==
  /\ vmi[x].ph = "Running" /\ faults < MaxFault
  /\ faults' = faults + 1
  /\ PutVmi(x, [vmi[x] EXCEPT !.ph = "Failed"])
  /\ UNCHANGED <<nadVars, dvVars, files, secret, confVars, queued, workerVars, stale>>

\* KubeVirt has cleaned up after a VMI that is being deleted.
VmiGone(x) ==
  /\ vmi[x].dying
  /\ PutVmi(x, NoVmi)
  /\ UNCHANGED <<nadVars, dvVars, files, secret, confVars, queued, workerVars, stale, faults>>

UserCreatesSecret ==
  /\ ~secret /\ secret' = TRUE
  /\ UNCHANGED <<nadVars, vmiVars, dvVars, files, confVars, queued, workerVars, stale, faults>>

\* The KNLConfig reconciler puts a configuration in GCONF.
LoadConfig(c) ==
  /\ c # gconf /\ loads < MaxLoad
  /\ gconf' = c /\ loads' = loads + 1
  /\ UNCHANGED <<nadVars, vmiVars, dvVars, files, secret, queued, workerVars, stale, faults>>

\* The periodic resync of the Lab informer.  (One in the middle of a reconcile
\* comes to the same as one after it.)
Resync ==
  /\ pc = "idle" /\ ~queued /\ queued' = TRUE
  /\ UNCHANGED <<nadVars, vmiVars, dvVars, files, secret, confVars, workerVars, stale, faults>>

Crash ==
  /\ faults < MaxFault
  /\ faults' = faults + 1
  /\ nadC' = nad /\ nadQ' = <<>> /\ dvC' = dv
  /\ vmiC' = vmi /\ vmiQ' = [x \in Cards |-> <<>>]
  /\ queued' = TRUE /\ gconf' = {} /\ loads' = 0
  /\ Return
  /\ UNCHANGED <<nad, vmi, dv, files, secret, stale>>

-----------------------------------------------------------------------------
Init ==
  /\ nad = [n \in Nads |-> 0] /\ nadC = nad /\ nadQ = <<>>
  /\ vmi = [x \in Cards |-> NoVmi] /\ vmiC = vmi /\ vmiQ = [x \in Cards |-> <<>>]
  /\ dv = {} /\ dvC = {} /\ files = {} /\ secret = FALSE /\ queued = TRUE
  /\ pc = "idle" /\ node = AnyChassis /\ indexes = <<>> /\ at = 0
  /\ slot = "A" /\ lic = FALSE /\ nodes = {} /\ slots = {} /\ conf = {}
  /\ gconf = {} /\ loads = 0
  /\ stale = FALSE /\ faults = 0

Worker ==
  \/ Reconcile \/ (\E c \in Chassis : Ensure(c)) \/ EndReconcile
  \/ GetAvailableBrIndex \/ EnsureNad \/ PrepareFiles
  \/ (\E s \in UNION {SlotsOf[c] : c \in Chassis} : VisitCard(s)) \/ CardsDone
  \/ CopyLicense \/ EnsureDv \/ EnsureVmi \/ Recreate

Next ==
  \/ Worker
  \/ DeliverNad \/ DeliverDv \/ \E x \in Cards : DeliverVmi(x)
  \/ \E x \in Cards : VmiEnds(x) \/ VmiGone(x)
  \/ \E c \in Configs : LoadConfig(c)
  \/ UserCreatesSecret \/ Resync \/ ApiError \/ Crash

Spec == Init /\ [][Next]_vars

\* The worker goes on, watch events arrive, KubeVirt cleans up, and the Lab
\* informer resyncs (every ten hours).
Fairness ==
  /\ WF_vars(Worker) /\ WF_vars(Resync) /\ WF_vars(DeliverNad) /\ WF_vars(DeliverDv)
  /\ WF_vars(\E x \in Cards : DeliverVmi(x)) /\ WF_vars(\E x \in Cards : VmiGone(x))

FairSpec == Spec /\ Fairness

-----------------------------------------------------------------------------
(* Properties *)

\* Type correctness; indexList is never indexed beyond its length.
TypeOK ==
  /\ nad \in [Nads -> NadObj] /\ nadC \in [Nads -> NadObj]
  /\ nadQ \in Seq([name : Nads, obj : NadObj])
  /\ vmi \in [Cards -> VmiObj] /\ vmiC \in [Cards -> VmiObj]
  /\ vmiQ \in [Cards -> Seq(VmiObj)]
  /\ dvC \subseteq dv /\ dv \subseteq {x \in Cards : x[2] \in CPMs}
  /\ files \subseteq Chassis \X {"img", "cfg", "lic"}
  /\ gconf \subseteq Loaders /\ conf \subseteq Loaders /\ loads \in 0..MaxLoad
  /\ secret \in BOOLEAN /\ queued \in BOOLEAN /\ lic \in BOOLEAN
  /\ node \in Chassis /\ nodes \subseteq Chassis /\ slots \subseteq SlotsOf[node]
  /\ pc = "nad" => at \in 1..Len(NadsOf(node)) + 1 /\ Len(indexes) >= Len(NadsOf(node))
  /\ pc \in {"license", "dv", "vmi", "recreate"} => slot \in SlotsOf[node]

\* The SysInfo of a card is of its own chassis, and a MAG-c is no integrated
\* chassis.
OwnSysInfo(c, s) ==
  /\ SysInfoOf[c][s] = ModelOf[c]
  /\ KindOf[c] = "magc" => ~IsIntegratedChassis(ModelOf[c])

\* A VMI can boot: the files of its chassis are there, a CPM has its data
\* volume and its license, and the NADs of its networks exist, which are made
\* by the chassis model and referred to by the card's SysInfo: with that of
\* another chassis a VMI may refer to one that nobody makes.  (A line card
\* that the loop over the cards visits before the CPM has no license path.)
Bootable ==
  \A c \in Chassis : \A s \in SlotsOf[c] : vmi[<<c, s>>].ph # "gone" =>
    /\ OwnSysInfo(c, s) => \A n \in Networks(c, s) : n \in Nads /\ nad[n] # 0
    /\ {<<c, "img">>, <<c, "cfg">>} \subseteq files
    /\ s \in CPMs => /\ <<c, s>> \in dv /\ <<c, "lic">> \in files
                     /\ vmi[<<c, s>>].lic

\* No two fabric networks have the same bridge index: on one host they would
\* be one bridge, and the cards of two chassis would meet on it.  This needs a
\* NAD list that is current whenever GetAvailableBrIndex reads it.
BridgeIndexUnique ==
  ~stale => \A m, n \in Nads : nad[m] # 0 /\ nad[m] = nad[n] => m = n

\* Once there is a license and GCONF has both loader images for good (without
\* one, Ensure panics at every attempt), every card comes up and, when VMIs stop
\* ending, stays up: a VMI that has failed is replaced ("target failed,
\* recreate").  Errors of Ensure, that of the refused Create included, are
\* dropped, and neither the license secret, nor a data volume, nor a KNLConfig
\* queues the Lab.
CardsComeUp ==
  <>[](secret /\ gconf = Loaders) =>
    <>[](\A x \in Cards : vmi[x].ph = "Running" /\ ~vmi[x].dying)

-----------------------------------------------------------------------------
(* The VMIs implement VmiLife; the Lab stays. *)

VmiState(o) ==
  CASE o.ph = "gone"                   -> "off"
    [] o.ph # "gone" /\ o.dying        -> "ending"
    [] o.ph = "Failed" /\ ~o.dying     -> "ended"
    [] o.ph = "Running" /\ ~o.dying    -> "on"

States == [x \in Cards |-> VmiState(vmi[x])]

Life == INSTANCE VmiLife WITH VMs <- Cards, st <- States, kept <- Cards

\* Only a VMI that has ended is deleted, and another one starts only when it
\* is gone.  The operator decides by a cached VMI and deletes by name, so that
\* a VMI which has replaced the failed one is at stake.
LifeOfVmis == Life!Spec

=============================================================================
