----------------------------- MODULE KnlConfig -----------------------------
(***************************************************************************)
(* The operator's configuration: the KNLConfig objects a user writes, the  *)
(* admission webhooks that fill in and validate them, and                  *)
(* KNLConfigReconciler.Reconcile, which copies the one of the target name  *)
(* into the global variable GCONF and reports it in the object's status.   *)
(*                                                                         *)
(* Lab reconciles and Lab webhooks read GCONF at any time, so what it      *)
(* holds between two steps matters.                                        *)
(***************************************************************************)
EXTENDS Naturals, Sequences

CONSTANTS
  Names,      \* namespaced names of KNLConfig objects
  Target,     \* "knlcfg" in the operator's own namespace
  UserSpecs,  \* the specs a user writes
  MaxWrite,   \* bound: a user's writes of the object of one name
  MaxCreate,  \* bound: how often the object of one name is created
  MaxFail,    \* bound: status updates that fail for no reason of the operator's
  MaxCrash    \* bound: restarts of the operator

\* The optional fields of KNLConfigSpec, but for the node defaults (which are
\* LabAdmission's).
Fields == {"SFTPSever", "VXLANGrpAddr", "VXLANDefaultDev", "VxDevMap",
           "PVCStorageClass", "SRCPMLoaderImage", "SRIOMLoaderImage", "SideCarHookImg"}

\* "nil": not given; "blank": given, empty; "bad": not of the field's format;
\* "def": the application's default; "a", "b": good values.
Values == {"nil", "blank", "bad", "def", "a", "b"}
Specs  == [Fields -> Values]

ASSUME ConfigAssumption ==
  /\ Target \in Names
  /\ UserSpecs \subseteq Specs
  /\ MaxWrite \in Nat /\ MaxCreate \in Nat /\ MaxFail \in Nat /\ MaxCrash \in Nat

VARIABLES
  cfg,      \* cfg[n]: the object stored under that name
  cfgC,     \* the informer's cache
  cfgQ,     \* watch events under way
  gconf,    \* GCONF: the spec and the generation it came from
  queue,    \* the workqueue
  copy,     \* the object that a reconcile holds, before its status update
  writes, creates, fails, crashes

boundVars == <<writes, creates, fails, crashes>>
vars      == <<cfg, cfgC, cfgQ, gconf, queue, copy, boundVars>>

-----------------------------------------------------------------------------
(* Objects: rv is the resourceVersion, 0 when none of the name was ever    *)
(* stored; obs is status.observedGeneration, 0 when nil.                   *)

NoSpec == [f \in Fields |-> "nil"]
Object == [stored : BOOLEAN, rv : Nat, gen : 0..MaxWrite, obs : 0..MaxWrite,
           spec : Specs]
NoObj  == [stored |-> FALSE, rv |-> 0, gen |-> 0, obs |-> 0, spec |-> NoSpec]

\* The API server stores an object and sends a watch event.
Put(n, obj) == /\ cfg' = [cfg EXCEPT ![n] = [obj EXCEPT !.rv = cfg[n].rv + 1]]
               /\ cfgQ' = [cfgQ EXCEPT ![n] = Append(@, cfg'[n])]

\* DefKNLConfig, the application's defaults.
DefKNLConfig ==
  [f \in Fields |-> IF f \in {"SFTPSever", "VXLANGrpAddr", "SideCarHookImg"}
                      THEN "def" ELSE "nil"]

\* FillNilPointers(spec, DefKNLConfig()): only what is not given is filled.
Default(s) == [f \in Fields |-> IF s[f] = "nil" THEN DefKNLConfig[f] ELSE s[f]]

Given(s, f) == s[f] \notin {"nil", "blank"}

\* KNLConfig.Validate, run on create and on update.  An empty address, image
\* or host:port does not parse; an empty map has no entry; a group address
\* that is not given is a panic, and the request is refused.  The loader images
\* need not be given, but must parse if they are.
Validate(s) ==
  /\ s["VXLANGrpAddr"] \notin {"nil", "blank", "bad"}
  /\ Given(s, "PVCStorageClass")
  /\ Given(s, "VXLANDefaultDev") \/ Given(s, "VxDevMap")
  /\ \A f \in {"SRCPMLoaderImage", "SRIOMLoaderImage"} : s[f] \notin {"blank", "bad"}
  /\ Given(s, "SideCarHookImg") /\ s["SideCarHookImg"] # "bad"
  /\ s["SFTPSever"] \notin {"nil", "blank", "bad"}

-----------------------------------------------------------------------------
(* The user, whose writes pass the webhooks *)

Write(n, obj) == /\ writes[n] < MaxWrite
                 /\ writes' = [writes EXCEPT ![n] = @ + 1]
                 /\ Put(n, obj)

\* The object is created, in generation 1 and without a status.
UserCreate(n, s) ==
  /\ ~cfg[n].stored /\ creates[n] < MaxCreate
  /\ Validate(Default(s))
  /\ Write(n, [stored |-> TRUE, rv |-> 0, gen |-> 1, obs |-> 0, spec |-> Default(s)])
  /\ creates' = [creates EXCEPT ![n] = @ + 1]
  /\ UNCHANGED <<cfgC, gconf, queue, copy, fails, crashes>>

\* A changed spec is a new generation.
UserUpdate(n, s) ==
  /\ cfg[n].stored
  /\ Validate(Default(s)) /\ Default(s) # cfg[n].spec
  /\ Write(n, [cfg[n] EXCEPT !.gen = @ + 1, !.spec = Default(s)])
  /\ UNCHANGED <<cfgC, gconf, queue, copy, creates, fails, crashes>>

\* A label or an annotation changes: a new resourceVersion, not a generation.
UserAnnotate(n) ==
  /\ cfg[n].stored
  /\ Write(n, cfg[n])
  /\ UNCHANGED <<cfgC, gconf, queue, copy, creates, fails, crashes>>

UserDelete(n) ==
  /\ cfg[n].stored
  /\ Write(n, NoObj)
  /\ UNCHANGED <<cfgC, gconf, queue, copy, creates, fails, crashes>>

-----------------------------------------------------------------------------
(* The controller *)

Deliver(n) ==
  /\ cfgQ[n] # <<>>
  /\ cfgC' = [cfgC EXCEPT ![n] = Head(cfgQ[n])]
  /\ cfgQ' = [cfgQ EXCEPT ![n] = Tail(@)]
  /\ queue' = queue \cup {n}
  /\ UNCHANGED <<cfg, gconf, copy, boundVars>>

\* The periodic resync of the informer.
Resync ==
  /\ queue' = queue \cup {n \in Names : cfgC[n].stored}
  /\ UNCHANGED <<cfg, cfgC, cfgQ, gconf, copy, boundVars>>

\* Config.Set: TRUE if it changed, which is if the generation is another one.
Set(new, gen) ==
  /\ gconf.gen # gen
  /\ gconf' = [spec |-> new, gen |-> gen]

\* Mutant: the status is updated although Set changed nothing.
Reconcile_AlwaysReports(n) ==
  /\ ~copy.stored /\ n \in queue
  /\ queue' = queue \ {n}
  /\ IF n = Target /\ cfgC[n].stored
       THEN /\ gconf' = IF gconf.gen # cfgC[n].gen
                          THEN [spec |-> cfgC[n].spec, gen |-> cfgC[n].gen] ELSE gconf
            /\ copy' = cfgC[n]
       ELSE UNCHANGED <<gconf, copy>>
  /\ UNCHANGED <<cfg, cfgC, cfgQ, boundVars>>

\* Mutant: a generation that the status reports as observed is not loaded.
Reconcile_TrustsStatus(n) ==
  /\ ~copy.stored /\ n \in queue
  /\ queue' = queue \ {n}
  /\ IF n = Target /\ cfgC[n].stored /\ cfgC[n].obs # cfgC[n].gen
       THEN gconf' = [spec |-> cfgC[n].spec, gen |-> cfgC[n].gen] /\ copy' = cfgC[n]
       ELSE UNCHANGED <<gconf, copy>>
  /\ UNCHANGED <<cfg, cfgC, cfgQ, boundVars>>

\* Reconcile up to Set.  An object of another name is ignored, one that is
\* not found (any more) as well.
Reconcile(n) ==
  /\ ~copy.stored /\ n \in queue
  /\ queue' = queue \ {n}
  /\ IF n = Target /\ cfgC[n].stored /\ gconf.gen # cfgC[n].gen
       THEN Set(cfgC[n].spec, cfgC[n].gen) /\ copy' = cfgC[n]
       ELSE UNCHANGED <<gconf, copy>>
  /\ UNCHANGED <<cfg, cfgC, cfgQ, boundVars>>

\* Mutant: the status reports the generation to come.
UpdateStatus_NextGen ==
  /\ copy.stored
  /\ IF cfg[Target].stored /\ cfg[Target].rv = copy.rv /\ copy.obs # gconf.gen + 1
       THEN Put(Target, [cfg[Target] EXCEPT !.obs = gconf.gen + 1])
       ELSE UNCHANGED <<cfg, cfgQ>>
  /\ copy' = NoObj
  /\ UNCHANGED <<cfgC, gconf, queue, boundVars>>

\* Status().Update of the object that Get returned: refused when its
\* resourceVersion is old, and no new version when the status is the same.
\* The error is not looked at.
UpdateStatus ==
  /\ copy.stored
  /\ LET accepted == cfg[Target].stored /\ cfg[Target].rv = copy.rv
                       /\ copy.obs # gconf.gen
     IN \/ accepted
           /\ Put(Target, [cfg[Target] EXCEPT !.obs = gconf.gen])
        \/ ~accepted /\ UNCHANGED <<cfg, cfgQ>>
  /\ copy' = NoObj
  /\ UNCHANGED <<cfgC, gconf, queue, boundVars>>

UpdateStatusFails ==
  /\ copy.stored /\ fails < MaxFail
  /\ fails' = fails + 1
  /\ copy' = NoObj
  /\ UNCHANGED <<cfg, cfgC, cfgQ, gconf, queue, writes, creates, crashes>>

\* Mutant: the application's defaults are left to the webhook.
NewConfig_Empty == [spec |-> NoSpec, gen |-> 0]

\* newConfig: the application's defaults, of no generation (-1 in the code).
NewConfig == [spec |-> DefKNLConfig, gen |-> 0]

\* A new process: GCONF is newConfig again and the informer lists afresh.
Crash ==
  /\ crashes < MaxCrash
  /\ crashes' = crashes + 1
  /\ cfgC' = cfg /\ cfgQ' = [n \in Names |-> <<>>]
  /\ gconf' = NewConfig /\ copy' = NoObj
  /\ queue' = {n \in Names : cfg[n].stored}
  /\ UNCHANGED <<cfg, writes, creates, fails>>

-----------------------------------------------------------------------------
Init ==
  /\ cfg = [n \in Names |-> NoObj] /\ cfgC = cfg
  /\ cfgQ = [n \in Names |-> <<>>]
  /\ gconf = NewConfig /\ queue = {} /\ copy = NoObj
  /\ writes = [n \in Names |-> 0] /\ creates = writes /\ fails = 0 /\ crashes = 0

User(n) ==
  \/ \E s \in UserSpecs : UserCreate(n, s) \/ UserUpdate(n, s)
  \/ UserAnnotate(n)
  \/ UserDelete(n)

Next ==
  \/ \E n \in Names : User(n) \/ Deliver(n) \/ Reconcile(n)
  \/ UpdateStatus \/ UpdateStatusFails
  \/ Resync \/ Crash

Spec == Init /\ [][Next]_vars

\* Watch events arrive and the controller's worker does not stop; neither the
\* user nor a resync, a crash or a failure is assumed to happen.
Fairness ==
  /\ \A n \in Names : WF_vars(Deliver(n)) /\ WF_vars(Reconcile(n))
  /\ WF_vars(UpdateStatus \/ UpdateStatusFails)

FairSpec == Spec /\ Fairness

-----------------------------------------------------------------------------
(* Properties *)

\* Type correctness of the whole state.
TypeOK ==
  /\ cfg \in [Names -> Object] /\ cfgC \in [Names -> Object]
  /\ cfgQ \in [Names -> Seq(Object)]
  /\ gconf \in [spec : Specs, gen : 0..MaxWrite]
  /\ queue \in SUBSET Names /\ copy \in Object
  /\ writes \in [Names -> 0..MaxWrite] /\ creates \in [Names -> 0..MaxCreate]
  /\ fails \in 0..MaxFail /\ crashes \in 0..MaxCrash

\* The status does not lie: when the stored object says that its current
\* generation has been observed, and this process has loaded any
\* configuration, then GCONF holds exactly the stored spec.  At stake are
\* the Set of an old cached object, a status update that lands on a newer
\* one, a restart, and generations that start again with a new object.
StatusTruthful ==
  cfg[Target].stored /\ cfg[Target].obs = cfg[Target].gen /\ gconf.gen # 0
    => gconf.spec = cfg[Target].spec

\* The pointers of GCONF that a reconcile follows without looking, and those of
\* them that have no default and need not be given: nothing keeps the program
\* from following these when they are nil (link.go:242, srvm_ensure.go:122, 287).
Followed == {"SFTPSever", "SideCarHookImg", "PVCStorageClass", "VXLANDefaultDev",
             "SRCPMLoaderImage", "SRIOMLoaderImage"}
MayBeNil == {"VXLANDefaultDev", "SRCPMLoaderImage", "SRIOMLoaderImage"}

\* The addresses and images that Validate parses.
Parsed   == {"SFTPSever", "VXLANGrpAddr", "SideCarHookImg", "SRCPMLoaderImage",
             "SRIOMLoaderImage"}

\* What a reconcile may rely on in GCONF.  At any time, before a KNLConfig is
\* loaded and after a restart too, the pointers that have an application
\* default are set.  Once a KNLConfig is loaded the storage class is set as
\* well, so that of the pointers followed without looking only the three of
\* MayBeNil may be nil, and every address or image that is set is well-formed.
PointersSet ==
  /\ \A f \in {"SFTPSever", "VXLANGrpAddr", "SideCarHookImg"} : gconf.spec[f] # "nil"
  /\ gconf.gen # 0 => /\ \A f \in Followed \ MayBeNil : gconf.spec[f] # "nil"
                      /\ \A f \in Parsed : gconf.spec[f] \notin {"blank", "bad"}

\* Every update of the target KNLConfig reaches GCONF: once the user leaves
\* the object alone, GCONF ends up with its spec, for good, over stale events,
\* lost status updates and restarts.  Generations are all that Set compares,
\* and they start again when the object is deleted and created anew: then the
\* new spec may be ignored, so the promise is for an object created once.
ConfigApplied ==
  \A s \in UserSpecs :
    <>[](cfg[Target].stored /\ cfg[Target].spec = Default(s) /\ creates[Target] <= 1)
      => <>[](gconf.spec = Default(s))

=============================================================================
