# KNL in TLA+

A verification project for the KNL operator (`src/`): a Kubernetes operator
that turns a `Lab` custom resource (nodes and links) into k8slan `LAN`
objects, Pods and KubeVirt VMIs, configured by a `KNLConfig` resource.

## 1. The system

### Components

| Component | Source | State | Operations |
|---|---|---|---|
| Lab controller | `internal/controller/lab_controller.go`, `api/v1beta1/parsed_lab.go` | the Lab object (finalizer, deletionTimestamp, UID), the workqueue | `Reconcile`, `deleteExternalResources`, the watches of `SetupWithManager` |
| Links | `api/v1beta1/link.go`, `k8s.go` | LAN objects (owner, VNI, finalizer), `SpokeMap` | `EnsureLinks`, `GetAvailableVNIs`, `GetAvailableBrIndex`, `createIfNotExistsOrRemove`, `IsOwnedbyLab` |
| Node types | `generalpod.go`, `srl.go`, `srsim.go`, `vmpc.go`, `srvm*.go` | Pods, VMIs, PVCs, data volumes, NADs, config maps | `Ensure`, `FillDefaultVal`, `Validate` |
| Lab webhooks | `internal/webhook/v1beta1/lab_webhook.go` | none; reads `GCONF` | `Default`, `ValidateCreate`, `ValidateUpdate` |
| Operator configuration | `cfg.go`, `knlconfig_types.go`, `knlconfig_controller.go`, `knlconfig_webhook.go` | KNLConfig objects and their status, `GCONF` | `Config.Set`, `Config.Get`, `Reconcile`, the webhooks |
| KubeVirt sidecar | `kvirtsidecar/main.go` | none | rewrite of a domain XML |
| Start-up | `cmd/main.go` | the manager | flags and wiring |

### How they interact

The two controllers and the webhooks share one process and one global,
`GCONF`. A controller reads objects through the manager's informer cache and
writes them to the API server; the cache learns of a write, the operator's own
included, when its watch event arrives. Events of a Lab, and of the LANs, Pods
and VMIs it owns, put the Lab's *name* on the workqueue. Each controller has
one worker (`MaxConcurrentReconciles` is left at 1, and `link.go:163` relies on
it). The API server refuses an update whose resourceVersion is old and keeps
an object that is being deleted until its finalizers are gone; the garbage
collector deletes objects whose owner (by UID) no longer exists.

### What is hard

* reads are stale, and one reconcile reads the same object more than once;
* a Lab may be deleted, and created again under the same name, between any
  two calls of a reconcile;
* errors of `EnsureLinks` and `Ensure` are logged and dropped, those of the
  deletion path are returned and retried;
* the process may be restarted anywhere; `GCONF` then holds the application's
  defaults until the KNLConfig has been reconciled;
* LAN names are made by joining names with `-`;
* pointers of `GCONF` that have no default and are not required are followed
  without a check, and a reconcile that panics is retried for ever;
* configurations are told apart by `metadata.generation` alone;
* `GCONF.Get` returns a copy of the top of the structure only, and defaulting
  copies maps: concurrent admission requests write into the same cards;
* every update of a Lab, the operator's own included, is defaulted again under
  the configuration of the day and compared with what is stored;
* nodes, links and cards are visited in the random order of Go maps;
* claims and data volumes have no owner and outlive the Lab, and neither they
  nor ConfigMaps nor secrets start a reconcile when they change;
* a failed VMI is judged by a cached copy and deleted by name.

`PROJECT.json` lists these as hazards at their lines, with the properties that
would catch each going wrong.

## 2. Modules

| Module | What it is |
|---|---|
| `KubeObject` | the life of an API object with one finalizer (external) |
| `LabController` | the Lab controller, its links and its workloads |
| `LabControllerInv` | inductive invariants of `LabController` |
| `MCLabController` | small instances |
| `LabController_proofs` | type correctness |
| `LabControllerOrphan_proofs` | `OrphanInv`, `NoOrphanLan`, `StripOnlyOwnLan` |
| `LabControllerVNI_proofs` | `VNIInv`, `VNIUniqueIfListed`, `SpokesOnOwnLan` |
| `IndexAllocator`, `MCIndexAllocator`, `IndexAllocator_proofs` | the loop that picks VNIs and bridge indices |
| `KnlConfig`, `MCKnlConfig` | KNLConfig objects, webhooks, controller and `GCONF` |
| `LabAdmission`, `MCLabAdmission` | the Lab webhooks and what they share with `GCONF` |
| `SRVMEnsure`, `MCSRVMEnsure` | `Ensure` of the SR OS virtual machines of a Lab |
| `NodeNetwork` | what a node of the other types is built from: volumes, networks, addresses |
| `NodeEnsure`, `MCNodeEnsure` | `Ensure` of the other node types, over deletions and re-creations of the Lab |
| `VmiLife` | abstract: what is promised of a VMI; `SRVMEnsure` and `NodeEnsure` implement it |
| `SRVMEnsure_proofs` | `SRVMEnsure` implements `VmiLife`; types, `BridgeIndexUnique`, `Bootable` |
| `NodeEnsure_proofs` | `NodeEnsure` implements `VmiLife`; types, `Mountable`, `WiredAsSpecified` |
| `KnlConfig_proofs` | types, `PointersSet`, `StatusTruthful` |
| `LabAdmission_proofs` | types, `SRVMFit`, `MacsDistinct`, `OperatorUpdatesAccepted` |

### LabController

`lab`, `lan` and `wl` are what the API server stores; `labC`, `lanC`, `wlC` the
informer caches; `labQ`, `lanQ`, `wlQ` the watch events under way. LAN events
come in one order for all LANs, because `GetAvailableVNIs` lists them together.
An object's phase says whether it exists, has the finalizer and is being
deleted. A UID is a Lab's name and a counter.

The worker is a program counter `pc`, one value per API call of a reconcile:

| `pc` | code | action |
|---|---|---|
| `idle` | `Reconcile`: `Get` of the Lab | `StartReconcile` |
| `addFinalizer` | `AddFinalizer`, `Update` | `AddFinalizer` |
| `list` | `EnsureLinks`: `Config.Get`, `GetAvailableVNIs` | `GetAvailableVNIs` |
| `get` | `EnsureLinks`: `Get` of the LAN, or a new one with `vniList[i]` | `GetLan` |
| `create`, `check` | `createIfNotExistsOrRemove` of the new, or the found, LAN | `CreateLan`, `CheckLan` |
| `node` | `Ensure` of the nodes, in map order | `EnsureNode`, `EndReconcile` |
| `strip` | `deleteExternalResources`, then `RemoveFinalizer` and `Update` | `StripLan`, `RemoveFinalizer` |

`Return(err)` is the end of a reconcile; `err` says whether the Lab is put back
on the queue, as in the code's `return ctrl.Result{}, err` against a logged
error. A nil `VXLANDefaultDev` is dereferenced when a LAN has to be built; the
panic is recovered by controller-runtime and becomes an error. `vxdev` stands
for "`GCONF` has that device", which is read once per `EnsureLinks` into `dev`.

Names are sequences of parts and joining is concatenation, so that Lab `a` with
link `b-c` and Lab `a-b` with link `c` have one LAN name, as in the code.
`Unshared(n)` says that `n` is the LAN name of one link only.

`unlisted` is a history variable that no action reads: `GetAvailableVNIs` adds
to it every LAN that is stored but that some view of the informer (cache or
event under way) does not show with its VNI, so that a list may have been
without it. A LAN that is created anew leaves the set.

Abstractions. A node is one object (Pod or VMI) which has a connector on every
link of its Lab; what `Ensure` does before it comes to that object (a claim at
`generalpod.go:84`, ConfigMaps, data volumes) is an unconditional choice to fail
here, at any attempt and for any number of attempts, and is modelled in
`NodeEnsure`, so that nothing is claimed here of workloads coming up; all Labs are in one namespace; a Lab's spec does not change
(`ValidateUpdate` refuses a changed one); `EnsureNode` is one step, so that
nothing happens between the `Get` and the `Create` of a workload; a configuration that
has a default device does not lose it except by a restart; k8slan's own
handling of LANs is not modelled; an API call that fails has had no effect.

### IndexAllocator

One action per turn of the loop over a bitset. `used` is any set of indices
carried by listed objects, also at and beyond the limit, which makes the bitset
longer. Both callers have this loop, with different constants and lists.
`LabController` states its result (`FirstFree`) without the loop and without
indices at or beyond the limit.

### KnlConfig

The stored KNLConfig objects with resourceVersion, generation and
`observedGeneration`; cache, events and queue as above; `gconf` is `GCONF`.
`Default` and `Validate` are the webhooks. A spec maps every field but the node
defaults to not given, empty, malformed, the default, or one of two good
values. `Reconcile` is the code up to `Set`;
`UpdateStatus` is the status update, whose error the code ignores.

### LabAdmission

`lab` are the stored Labs (phase, resourceVersion, spec), `req[l]` the request
for Lab `l` that is being admitted; requests of different Labs interleave. A
request goes through

| step | code | action |
|---|---|---|
| missing nodes, types, MACs; `LoadDef` | `Default`, lines 63 to 120 | `DefaultNodes` |
| `FillDefaultVal` of a node, card by card | `srvm.go:145` | `FillNode`, `ReadSysInfo`, `WriteSysInfo` |
| ports, chassis MACs, validation, storage | `Default` to the end, `ValidateCreate`, `ValidateUpdate` | `Decide` |

A pointer is `Nil` or `Ref(v)`. `heap[g]` holds the SysInfo of the cards of the
`g`-th configuration loaded; `shared[n]` of a request says that node `n` has
that very map and not one of its own. The read and the write of a SysInfo are
two steps, because no lock is held. Map order is a nondeterministic choice;
`IsMacOffset` is the value that the counter `macOffset` has at each connector
for one such order. `FillNil` goes down into the chassis, as `FillNilPointers`
does, and copies a `ChassisMAC` of the KNLConfig's default node too.

Abstractions. One request per Lab at a time; a spec keeps the fields that
differ in how they are defaulted and validated (one that is required, one that
is optional, the chassis model, the cards' SysInfo, the MACs, the ports); a
derived SysInfo is the model it names; a user's update that changes nothing is
stored as no new version, also of a Lab being deleted; `magc` behaves like
`vsim`, `vm` and `srl` like `pod`; the memory, CPU and ports that
`SRCard.FillDefaultVal` sets are left out.

### SRVMEnsure

One Lab, its chassis and their cards. `nad`, `vmi`, `dv` are stored objects,
`nadC`, `vmiC`, `dvC` the caches, `files` what is on the SFTP server. A NAD is
its bridge index; a VMI is its phase, whether it is being deleted, and whether
its FTP path map has a license. `pc` goes through `Ensure` call by call:
`index` (`GetAvailableBrIndex`), `nad`, `card` (the loop over the cards),
`license`, `dv`, `vmi`, `recreate`. An error ends the reconcile and is dropped,
as in `Reconcile`.

The NADs of a chassis are made by its model (`NadsOf`, `srvm_ensure.go:53`), and
a VMI is attached to them by the SysInfo of its card (`Networks`,
`srvm_ensure.go:336`). Nothing in the model makes the two agree: `ModelOf` and
`SysInfoOf` are separate constants.

`gconf` has the loader images that `GCONF` has: none before a KNLConfig is
loaded, and any of the sets in `Configs` afterwards. `Ensure` reads it once
(`conf`) and follows `SRCPMLoaderImage` before the data volume of a CPM; `getVMI`
reads it again and follows `SRIOMLoaderImage` for a line card. When the pointer
is nil the reconcile panics (`Panic`), which controller-runtime turns into an
error and a retry.

`Recreate` is the `Create` after the `Delete` of a failed VMI.
`WaitForObjGone` starts a goroutine and cancels its context on return, so it
does not wait; and `target` still carries the resourceVersion that `Get` put
in, with which the API server refuses every `Create`. So the action only ends
the reconcile, and what replaces the VMI is a later one.

`stale` is a history variable: indices have been picked while a NAD event was
under way. `faults` counts the VMIs that end, the calls that fail and the
restarts together.

Abstractions. The Lab is not deleted or changed (`LabController` and
`NodeEnsure` do that); all objects are its own; images come from the SFTP
server, which is the case in which the loader images are needed; integrated
chassis models are the four that `IsIntegratedChassis` names, without those that
it knows by prefix; a step that prepares files does not fail half-way.

### NodeNetwork

Operators, no state: from the spec of a Lab to the volumes and networks of the
Pod of a `pod`, `srl` or `srsim` node, and to the interfaces and the network
configuration of a `vm` (`getVMI`). The `k`-th connector of the `l`-th link has
the spoke `<<l, k>>`, and links are numbered in the order of their names, which
is how the code visits them. `Number` is the counter `i` of those loops. An
address, a MAC and a port are numbers, with 0 for "not given"; the MAC 0 is
`VMBaseMAC`. `IgnitionPanics` is `vmpc.go:371`, where `MustParseAddr` is given
the prefixes that `Link.Validate` insists on.

Abstractions. Names of objects are tuples, so that they do not collide; images,
sizes, resources, credentials, routes, environment variables and license
secrets are left out; a spoke name is its link and connector and not the VNI
(`LabController` has that).

### NodeEnsure

`lab`, `labC`, `labQ` are the UID of the Lab that is stored, cached, and under
way as events, and `specOf` gives the spec of each UID: users delete the Lab
and create it again with another spec. `obj`, `objC`, `objQ` are the other
objects, by name, with the UID of the Lab each was made for.

| step | code | action |
|---|---|---|
| `Get` of the Lab, the loop over the nodes | `lab_controller.go:73`, `:122` | `Reconcile`, `EnsureNode`, `EndReconcile` |
| claim, ConfigMap, NAD, data volume or Pod | `createIfNotExistsOrRemove` | `EnsureObj` |
| VMI | `getVMI`, `createIfNotExistsOrFailedOrRemove` | `EnsureVmi`, `BuildPanics`, `Recreate` |

`todo` is the set of objects left of the node in turn. `Stage` is the order that
the code fixes between its calls, and `InTurn` says which objects may come next:
those of the lowest stage left, where map order leaves the choice open. A `Get`
and the `Create` or `Delete` that follows are one step; the `Get` sees the
cache, and the write the store. `Owned` is `needOwner`, `Queues` are the kinds
that are owned and watched.

Abstractions. The finalizer of the Lab, the LANs and `EnsureLinks` are
`LabController`'s: here a Lab that is deleted is gone at once. Users do not
delete or change the operator's objects, other than by evicting a Pod. A Pod
does not end up in phase Failed, which the code does not look at. What the
shell scripts of an `srl` Pod do to its volumes is left out.

### VmiLife

A VMI is off, on, ended or ending. It may be taken away when it has ended or
when its Lab is no more (`kept`), and another starts when it is gone.
`SRVMEnsure` implements this with `kept` being all the VMIs, `NodeEnsure` with
those whose UID is the present Lab's. It is what the caller of
`createIfNotExistsOrFailedOrRemove` relies on, and not what its code says: that
judges by one copy of a VMI and deletes whatever now has the name.

## 3. Runs

| Run | Shows | Bounds |
|---|---|---|
| `lab_one` | `TypeOK`, `NoOrphanLan`, `OrphanInv`, `SpokesOnOwnLan`, `StripOnlyOwnLan` | 1 Lab created twice, 2 links, 1 restart |
| `lab_two` | `VNIUniqueIfListed`, `VNIInv`, `NoOrphanLan`, `StripOnlyOwnLan` | 2 Labs, of 2 links and 1, which share one of 2 LAN names; 3 VNIs in all, 1 lost LAN, 1 failed call; no nodes |
| `lab_links` | `LinksComeUp` under fairness, without resync | 1 Lab created twice, 1 link, 1 restart, 1 loss, no failed call |
| `vni_stale_list` | `VNIUnique` is **violated** | 2 Labs |
| `lab_deletion` | `LabDeletionCompletes` is **violated** | 1 Lab, 1 link |
| `knl_config` | `TypeOK`, `StatusTruthful`, `PointersSet`, and `ConfigApplied` under fairness | 5 writes, 2 creations, 1 failure, 1 restart, 11 specs |
| `index_allocator` | `LowestFree`, `ErrorOnlyWhenExhausted` | limit 4, indices in use on both sides of it, up to 4 wanted |
| `lab_admission` | `TypeOK`, `SRVMFit`, `MacsDistinct`, `OperatorUpdatesAccepted` | 2 Labs, up to 4 nodes, 2 links, 10 manifests, 2 requests, 1 load, 1 restart |
| `lab_admission_new_default` | `OperatorUpdatesAccepted` is **violated** by a new default | 1 Lab, 2 configurations |
| `lab_admission_sysinfo` | `SysInfoOfOwnChassis` is **violated** | 2 Labs |
| `srvm` | `TypeOK`, `Bootable`, `BridgeIndexUnique`, and `LifeOfVmis`, `CardsComeUp` under fairness | a MAG-c of 2 cards and a vSIM of one, 5 indices, 1 KNLConfig loaded per process, 1 fault (a VMI ends, a call fails or a restart) |
| `node_ensure` | `TypeOK`, `Mountable`, `WiredAsSpecified`, and `LifeOfVmis`, `NodesComeUp`, `NothingLeft` under fairness | 6 histories of 2 Labs each, 1 or 2 nodes, up to 3 links, 1 CPM, 2 faults, 4 events of an object under way |

Why the bounds are enough to be interesting: two creations of a name give stale
copies, foreign owners and objects left over; two links give a deletion with
one LAN visited and one not; two Labs give a VNI taken by one reconcile from a
list that lacks the other's; one restart (`lab_one`) or one failed call
(`lab_two`) may fall between any two steps. Two further Labs or links add interleavings of the same kinds,
and the theorems cover any number. The Labs of `lab_two` are `a`, with links `a`
and `b-c`, and `a-b`, with link `c`, so that one LAN name is shared and one is
not: each Lab finds the other's LAN, refuses to use it and, when it is deleted,
strips its finalizer. Without `Unshared`, `StripOnlyOwnLan` fails in this run; in
`lab_one`, `SpokesOnOwnLan` fails without its condition on `unlisted`. `MaxVNI`
leaves one VNI over when both LANs exist in `lab_two`, so that the allocator
refuses Lab `a`, which asks for two. Both loader-image panics happen in `srvm`,
before the KNLConfig is loaded and after a restart, between any two steps of
`Ensure`. One KNLConfig of `lab_admission` gives a chassis MAC, and one manifest
gives a connector's. Two admission requests suffice for one to
see the other's cards; the MAG-c has all the kinds of networks and cards; five
bridge indices are two more than the three NADs need, because a MAG-c asks for
two even when its NADs exist. In `node_ensure` four events under way
(`MaxLag`) are a whole life of a VMI: it is up, has failed, is being deleted, is
gone, and the operator has seen none of it when the next Lab's VMI is created.
Two faults are a VMI that ends together with the restart or failed call that
leaves its replacement half-way. The six histories have every node type, an
`srl` with both ends of a link, a `vm` whose second link has no address, a Lab
with a node more than the former, and Labs that cannot be built before and
after ones that can.

Deadlock is checked everywhere but in `index_allocator`, where the function
returns, and in the runs of `LabAdmission`, where nothing is left to do once
the user's requests are used up.

### What the violations say

* `vni_stale_list`: Lab `a` gets its LAN, and Lab `b` is reconciled before the
  LAN informer has seen it. `GetAvailableVNIs` lists from the cache and gives
  the same VNI. One worker does not prevent this, contrary to the comment at
  `link.go:163`. `lab_two` and `VNIUniqueIfListedTheorem` show that this is the
  only way to it: two LANs have one VNI only if a list was without one of them.
* `lab_deletion`: in `deleteExternalResources` the branch for a LAN that is
  not found only has the comment "already gone" and falls through to an
  `Update` of an empty object. A Lab deleted before its LANs were created is
  retried for ever. `lab_one` with the mutant `StripLan_SkipMissing` shows that
  simply skipping such a LAN would be wrong too: the cache may not have seen a
  LAN that exists, which would then be orphaned.
* `lab_admission_new_default`: a Lab is stored with an optional field nil, a
  KNLConfig gives that field a default, and the operator's next update of the
  Lab's finalizers arrives at `ValidateUpdate` with the field filled in and is
  refused. Such a Lab gets no finalizer, or cannot be deleted any more.
* `lab_admission_sysinfo`: Lab `a` has an SR-12 without cards, gets those of
  `GCONF` and writes "chassis=SR-12" into them. Lab `b`, an SR-7, finds it set.
  What this may lead to is the condition of `Bootable` below.

### What the passing runs depend on

Some properties hold only under a condition that is written into the model,
and the code does not ensure the condition:

* `BridgeIndexUnique` is for a run in which the NAD list was always current
  (`~stale`). Without that it fails: the NAD of the first chassis of a reconcile
  is not in the cache when indices are picked for the second, and both get one
  bridge.
* `ConfigApplied` is for an object created once. A KNLConfig that is deleted
  and created again is generation 1 as the first was, and `Set` ignores it,
  although `design doc/design.md` says that every update is copied.
* `VNIUniqueIfListed` says nothing of LANs that a list was without; such lists
  are in the run, and `vni_stale_list` shows what they do. Likewise
  `SpokesOnOwnLan` promises the right VNI only for LANs that every list has had,
  although it promises the LAN itself for all: a workload that was built on a VNI
  from a list without the LAN stays on spokes that do not exist.
* `StripOnlyOwnLan` and `SpokesOnOwnLan` are for LANs whose name is that of one
  link (`Unshared`). `deleteExternalResources` does not look at the owner of a
  LAN: of two Labs that mean one LAN name, either takes the other's finalizer
  off when it is deleted (`lab_controller.go:196`). `lab_two` has two such Labs.
* `LinksComeUp` is checked without failing API calls and without the informer's
  resync, and is about the finalizer and the LANs. With `MaxFail = 1`, an error of
  `EnsureLinks` that is logged and dropped leaves the Lab as it is until some
  other event, or the resync, hours later. Of workloads nothing of the kind is
  true without a resync (see Fairness): they are `NodesComeUp`'s and
  `CardsComeUp`'s.
* `CardsComeUp` and `NodesComeUp` rest on that resync, see Fairness.
* `CardsComeUp` is for a `GCONF` that has both loader images from some time on.
  `DefKNLConfig` has neither, `Validate` accepts a KNLConfig without them
  (`knlconfig_types.go:197`), and for images on the SFTP server Ensure follows
  `SRCPMLoaderImage` for every CPM (`srvm_ensure.go:122`) and `getVMI`
  `SRIOMLoaderImage` for every line card (`:287`). Without them the cards never
  come up: every reconcile of the Lab panics and is retried, with back-off. The
  run has both panics, as long as the KNLConfig is not loaded.
* The networks in `Bootable` are for cards with the SysInfo of their own chassis
  (`OwnSysInfo`). Under that of another chassis, which `lab_admission_sysinfo`
  shows a card can get, the property fails without this condition: an integrated
  chassis whose card has the SysInfo of a distributed one refers to a fabric NAD
  that nobody makes. A MAG-c of an integrated model, whose line cards refer to the
  data fabric (`srvm_ensure.go:357`), is excluded for the same reason.
* `NodesComeUp` is for Labs that can be built (`Buildable`). A VM with
  addresses and ignition makes `getVMI` panic on every attempt; a Pod with
  addresses in another namespace than the operator's has its NAD refused by
  `SetControllerReference`. Either also keeps the nodes that map order puts
  behind it from being created. Both are in the run.
* `WiredAsSpecified` speaks of port names only where no connector of the node
  has a `PortId` (a given one may be equal to a default one), and of addresses
  of a VM that is on no link twice: `getLinkandConnector` returns the first
  connector for both ends, whose addresses are then configured twice, and the
  second's not at all. `vmpc.go` matches by MAC, which the webhook has set.
* `SRVMFit` needs SR VMs to be named after their type. The webhook chooses ports
  and chassis MACs by the name of a node, `Ensure` works by its type: a node with
  an explicit `vsim` and a name of another kind is admitted without a port, and
  `srvm_ensure.go:385` follows the nil pointer. No manifest of the run has one.
* `MacsDistinct` is for MACs that nobody gives. `Default` does not compare what
  it derives with what the user has given, and a `ChassisMAC` in the KNLConfig's
  default node is copied to every chassis without one of its own
  (`common.go:183`, `sr.go:112`), so that they all have it. The run has both.
* `NothingLeft` is about objects with an owner. Claims and data volumes remain,
  as `k8s.go:18` intends; a Lab created again under the name with another image
  finds the old disk and boots it.
* `Bootable` asks for a license path of CPMs only: a line card that the loop
  over the cards meets before the CPM gets an empty one (`srvm_ensure.go:98`).
* `PointersSet` excepts three of the pointers that are followed without a check
  (`MayBeNil`), also when a KNLConfig is loaded: `VXLANDefaultDev`, because
  `Validate` accepts a device map without a default device
  (`knlconfig_types.go:191`) and `EnsureLinks` follows the default device in any
  case (`link.go:242`); and `SRCPMLoaderImage` and `SRIOMLoaderImage`, see
  `CardsComeUp`. Before a KNLConfig is loaded the storage class is nil, too.

### Fairness

`LinksComeUp`, `LabDeletionCompletes` and `ConfigApplied` assume: the worker
goroutine goes on (weak fairness of `Worker`, `Reconcile`, `UpdateStatus`);
watch events arrive; the garbage collector collects; the KNLConfig is loaded;
and a Lab on the workqueue is reconciled although other Labs are put back
again and again (strong fairness of `StartReconcile(l)`: client-go's workqueue
is first-in first-out and one reconcile always ends). Nothing is assumed
there of users, crashes, failures, or of the periodic resync, which is allowed
but would otherwise hide every lost retry. For the LANs this is enough because
each cause of a dropped error has an event of its own: LANs are watched by the
name of their owner, and the panic on a nil `VXLANDefaultDev` is an error that
is retried.

`CardsComeUp`, `NodesComeUp` and `NothingLeft` assume in addition that KubeVirt
and the kubelet finish what is being deleted, and that the Lab informer
resyncs: `cmd/main.go` leaves controller-runtime's `SyncPeriod` at its default
of ten hours. Without this assumption they fail even if nothing else does: a
reconcile that comes before the claim of an earlier one is in the cache has its
`Create` refused, drops the error, and the claim's event queues nothing. So
these properties say "within ten hours", and that the operator keeps no state
in which even the resync would not help.

## 4. Proofs

All are for every value of the constants that satisfies the module's assumption:
`ConstantsAssumption` (a Lab's links are distinct; the bounds are natural
numbers), `AllocatorAssumption` (a positive limit), `SRVMAssumption` (there is a
chassis, each has a type and a CPM), `NodeAssumption` (every node of a spec has
one of the four types, and links have connectors), `ConfigAssumption` (there is
a KNLConfig of the name that the operator heeds; user specs give each field one
of its values) or `AdmissionAssumption` (node names differ; manifests and
configurations are well typed; a CPM is its own CPM; a KNLConfig has what the
application's defaults have, because its own webhook fills that in). The bounds
are not used otherwise, so the theorems hold for any number of Labs, links,
nodes, creations, requests, failures and restarts. Each inductive invariant was
an invariant of a TLC run before it was proved.

Some theorems have hypotheses besides, which the code does not establish:

* `NoNewDefault` (`OperatorUpdatesAccepted`): no KNLConfig has a default for a
  field that has none in the application, the chassis MAC included, unless
  `Validate` insists on the field. The run `lab_admission_new_default` shows what
  happens without it. (The run `lab_admission` goes a little further: one of its
  configurations gives a chassis MAC, which a stored vSIM has by then.)
* `NamedAfterType` (`SRVMFit`): a node that a manifest declares to be an SR VM
  has a name of that type. "What the passing runs depend on" says what happens
  without it.
* `VmMacsDistinct` (`WiredAsSpecified`): the connectors of a VM have different
  MACs. `MacsDistinct` is this promise, made by the webhook.

The instances of `lab_admission` and `node_ensure` satisfy those that concern
them, but for the chassis MAC just mentioned. The theorems on the Lab controller
and on `MacsDistinct` have none: what the code does not ensure (a current list,
LAN names that differ, MACs that nobody gives) is a condition in the property, on
the very LAN or MAC it speaks of, and holds of the others in the same state.

### The Lab controller

* `TypeCorrect`: `Spec => []TypeOK`, including that `EnsureLinks` indexes
  `vniList` within its length.
* `OrphanInvariant`, `NoOrphanLanTheorem`: `Spec => []NoOrphanLan`. The property
  itself is not inductive: that a LAN is created for a Lab which has its finalizer
  depends on what a stale copy still guarantees. `OrphanInv` adds
  - `ViewsArePast`: a cached or coming view is not ahead of the API server;
  - `HeldViewsCurrent`: a view with the finalizer and no deletionTimestamp is
    of the present Lab, whose finalizer is still there, because only the
    worker removes it and only from a Lab it has seen dying;
  - `DyingViewsFinal`: after a view in which a Lab is dying comes none in which
    the same Lab is alive;
  - `CreatingForHeldLab`, `StrippingDyingLab`: what the worker knows in the two
    halves of `Reconcile`; while it deletes, the finalizers left are on LANs
    it has yet to visit;
  - `LanNamedAfterOwner`: so that visiting the Lab's links visits its LANs.
* `StripOnlyOwnLanTheorem`: `Spec => StripOnlyOwnLan`, an action property. `OrphanInv` does not exclude that the worker strips for a
  former Lab while the present one has LANs under the same names. `StripInv`
  does: the informer shows the Labs of a name in the order of their UIDs
  (`SeenInOrder`); whoever gave the present Lab its finalizer had seen it, so
  no former one is to come (`FinalizerSeen`); hence a worker that strips, while
  the Lab of the name has its finalizer, strips for that Lab (`WorkerUpToDate`).
* `VNIInvariant`, `VNIUniqueIfListedTheorem`: `Spec => []VNIUniqueIfListed`.
  `VNIInv` adds that cache and events replay to what is stored, and that the VNIs
  in hand from `idx` on are in use by no LAN outside `unlisted`: nobody else
  creates LANs, and one that the worker creates itself takes its VNI from those in
  hand.
* `SpokesOnOwnLanTheorem`: `Spec => []SpokesOnOwnLan`.
  `EnsureLinks` takes the VNI from one `Get` of the LAN, and
  `createIfNotExistsOrRemove` decides by another. `SpokeInv` says why they agree:
  - `FinalizerFirst`: a Lab without finalizer has neither LANs nor workloads;
  - `LanStays`: a LAN that any view shows for a Lab in service is still stored,
    with the VNI shown, because it has the finalizer;
  - `Ahead`: the LANs that the loop has yet to get have not been replaced since
    the list, so that all views of one outside `unlisted` agree on the VNI;
  - `AtLink`: what the first `Get` said is true at the second;
  - `Behind`, `Attached`: as long as the Lab is not deleted, `SpokeMap` is right
    for the links done, and so are the workloads built from it.

### The index allocator

* `LowestFreeTheorem`, `ErrorOnlyWhenExhaustedTheorem`: the loop invariant
  `SearchedUpToNext`; that the search finds an index if there is one is the
  well-ordering of the naturals.

### The configuration

* `TypeCorrect`, with `GenWritten`: each generation comes of a write.
* `PointersSetTheorem`: all that is stored, cached, under way or in the hands of
  a reconcile passed `Validate` (`AllChecked`), so what `Set` puts into `GCONF`
  did; and `newConfig` has those with a default by itself.
* `StatusTruthfulTheorem`: the status update is of an old copy, and generations
  start again with a new object. `StatusInv`:
  - `Versions`: cache and events lead to the stored object with growing
    resourceVersions;
  - `CopyInForce`: between `Set` and the status update `GCONF` is what the
    reconcile holds, which is the cached object unless a newer one has come;
  - `Observed`: once the stored object says that its generation is observed, no
    other generation or spec is cached or under way, so no later `Set` can put
    an older one in force. The step that establishes it is `UpdateStatus`: the
    API server accepts it only for the stored resourceVersion, which with the two
    above means that copy, cache and store are one;
  - `ObsBounded`: no later generation has been observed, so that a new
    generation is not observed when it is written.

### The Lab webhooks

* `TypeCorrect`, from `AdmissionInv`: whatever is loaded and whichever requests
  interleave,
  - `GconfInv`: the newest `heap` entry has the slots that `GCONF`'s cards have;
  - `FillInv`: a request past `LoadDef` has all nodes that its links and CPMs
    ask for (`Closed`), each SR node with a chassis; the cards it shares have
    the slots it believes them to have (`SameCards`); each card of an SR VM has
    its SysInfo, or is still to be visited (`Pending`, `Filled`). A card that is
    set stays set: another request may overwrite it, but not with nil, and a
    configuration that is loaded comes with cards of its own (`Grows`);
  - `Settled`: a stored spec is one that `Default` leaves as it is, but for new
    defaults, and that `Validate` accepts.
* `SRVMFitTheorem`: `Settled` says of a node's *name* that ports and chassis MAC
  are there, `SRVMFit` says it of its *type*. `Named` relates the two; it holds
  of what a user sends by `NamedAfterType`, and of the nodes that `Default` adds
  because it derives their type from the name.
* `MacsDistinctTheorem`: `macOffset` counts connectors, so that whatever the map
  order it grows strictly along the loops and gives no two connectors one value
  (`MacOffsetInjective`). `MacInv`: until `LoadDef` a Lab being created has only
  MACs that a manifest gives, and the chassis MACs in `GCONF` are those of some
  KNLConfig. The chassis MAC that `Default` derives is the index in the sorted list
  of nodes, and that index, a count, is injective (`NodeIndexInjective`).
* `OperatorUpdatesAcceptedTheorem`, an action property: a finalizer update whose
  Lab has not changed carries the stored spec through every step of `Default`
  (`OperatorInv`): no node, type, field, MAC, SysInfo or port is missing in a
  settled spec, and it shares no cards with `GCONF`. So the spec that
  `ValidateUpdate` compares is the stored one. The same lemmas
  (`SettledNodes`, `SettledLoaded`, `SettledSerialised`, `SettledPorts`) say that
  `Default` is idempotent.

The effect of a step on one Lab and its request is stated once (`RequestEffect`,
`LabEffect`) and used by all four.

### SR OS virtual machines

* `LifeOfVmisTheorem`: `Spec => LifeOfVmis`, the refinement of `VmiLife` by
  `SRVMEnsure`. All of its steps are easy but one: a `Delete` must not hit a
  VMI that has not ended. The operator deletes what it has seen failed, and
  what it has seen may be old. `LifeInv` says why the present VMI is still that
  one. Read a VMI's cached copy, the events under way and the stored object as
  one history; then
  - `UpToDate`: its last entry is what is stored;
  - `GoneIsLast`: only the last entry can be "gone", after one that is not,
    because a new VMI is created only when the cache has seen the old one go
    (this is where the refused `Create` matters: the mutant `Recreate_Fresh`
    breaks it);
  - `FailedForGood`: until then, an entry that has failed is followed by failed
    ones;
  - `DyingWasSeen`: a VMI that is being deleted has failed.
  So a failed copy in the cache means that the stored VMI has failed or is gone.
* `BridgeIndexUniqueTheorem`: `Spec => []BridgeIndexUnique`. The property speaks
  of runs in which the NAD lists were current (`~stale`), so there is no
  hypothesis. `NadInv`: a NAD is written once and its informer shows that
  (`NadSeen`); the indices in hand suffice for the chassis (`InHand`), differ, and
  from `at` on are in use by no NAD (`Unused`). That `GetAvailableBrIndex` returns
  two different, lowest indices rests on finite sets and the well-ordering of
  the naturals (lemma `LowestTwo`).
* `TypeCorrect`: `TypeOK` says that `indexList[at]` is there whenever a NAD is
  created, so it needs `InHand`.
* `BootableTheorem`: a reconcile checks or creates what a VMI boots from call by
  call. That the networks a card refers to by its SysInfo are among those made by
  the chassis model is lemma `OwnNetworks`. `BootInv`: in the loop over the cards the networks and folders of the
  chassis are there (`Prepared`), and at a CPM's VMI also the license and the data
  volume (`CpmPrepared`); none of these is ever taken away from a Lab that stays.

### The other node types

* `TypeCorrect`, from `NodeInv`: UIDs are seen in order by the informer and the
  worker (`UidInv`), the last event of an object is the object, and all objects
  were made for Labs known to have existed (`History`).
* `LifeOfVmisTheorem`: `Spec => LifeOfVmis`. The history of a VMI now has several
  Labs' objects in it, some of which the operator has not seen come or go, so
  that "gone" may be anywhere in it. `LifeInv`, for every VMI:
  - `Ascending`: its objects are made for Labs in the order of their UIDs;
  - `FailedGoes`: between a failed one and one that is up, it is gone;
  - `AgainIsPast`: if one Lab's VMI is gone and there again within the history,
    the Lab is no more;
  - `UnseenIsPast`, `DyingIsPast`: one that came unseen and is gone, or is about
    to go, was the garbage collector's.
  A VMI that the cache shows failed and of the Lab reconciled is therefore still
  that one, or one of a Lab that no longer exists, which `VmiLife` permits to
  take away. That `IsOwnedbyLab` compares UIDs is what the step needs.
* `MountableTheorem`: `Spec => []Mountable`. `MountInv`: an object without owner
  that any view shows is still there, and so is an owned one that a view shows for
  the present Lab (`MountHistory`); all that is no longer in `todo` of the node in
  turn has been found or created (`Mounted`), so that the workload, which comes
  last, finds it.
* `WiredAsSpecifiedTheorem`: with `VmMacsDistinct`, `Spec => []WiredAsSpecified`.
  `Number` counts the connectors of a node up to a given one; it grows strictly
  in the order in which they are visited, so it is injective (`NumberInjective`),
  and there are as many port names as connectors (`PortsDiffer`). For VMs, the
  interface of a MAC is that of the connector with the MAC (`AddressesPlaced`).

### Only model-checked

* Liveness, out of the prover's reach: `LinksComeUp`, `ConfigApplied`,
  `CardsComeUp`, `NodesComeUp`, `NothingLeft`.

All invariants and action properties that the passing runs check are proved.
`SysInfoOfOwnChassis` and `LabDeletionCompletes` are refuted by their runs.

## 5. Not modelled, and the plan

Left out for good:

* the KubeVirt sidecar: it is called once with a domain XML and prints another,
  without state, calls or retries; all that could be wrong is the wording;
* command-line parsing and wiring (`cmd/main.go`), of which the number of
  workers, the cached client and the resync are part of the models;
* generated deep copies, and the client commands `Shell` and `Console`;
* the contents of volumes: `PreStop` of an `srl` Pod empties its claim before it
  copies `/etc` back (`srl.go:286`), which a kill in between turns into a loss,
  but this is a shell script inside the Pod;
* sizes, resources and credentials of Pods and VMIs.

Next, in this order:

1. `LabController` composed with `LabAdmission`: a Lab whose finalizer update
   is refused, and what becomes of its LANs.
2. `SRVMFit` with ports and chassis MACs by type, should the webhook be changed
   to go by it: `NamedAfterType` is then no longer needed.
