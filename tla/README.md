# Verification of the Talos bootstrap provider

TLA+ models of the Cluster API bootstrap provider for Talos (CABPT), the TLC runs that check
them on small instances, and proofs, checked by TLAPS, of what holds for every instance. Paths
below are relative to the repository root. `PROJECT.json` lists the runs, the lines every
definition models, the hazards and the properties that answer to them, and the theorems.

    tlc -config WorkerUpdate.cfg MCUpdateMachine     # any run: its module and its cfg
    tlapm UpdateMachineProofs.tla                    # the proofs; so the other *Proofs.tla

## 1. The system

CABPT has two jobs. It renders, for every Machine or MachinePool that points at a TalosConfig, a
machine configuration, and keeps it in a secret the machine boots from. And it serves the runtime
hooks with which Cluster API updates a machine in place: a hook decides whether a change can be
made in place, and another brings the node to it. One process does both (one replica, leader
election, ten workers; `config/manager/manager.yaml`, `src/main.go`).

| Component | Source | State | Operations | What makes it correct |
|---|---|---|---|---|
| UpdateMachine hook | `internal/inplace/updatemachine.go`, `apiserver.go` | `applyTracker`: when and what was applied to a control plane machine, and its kube-apiserver before | one call: check the secret, read the version, apply, upgrade or wait for the API server, report | reports completion only for a node that has the configuration, runs the version, and serves; sooner or later does |
| Lifecycle upgrades | `upgrades.go`, `lifecycle.go`, `cancelOnDeletion` | `upgradeTracker`: one entry per machine, of a goroutine in flight or finished | start, get, cancel, forget; connect, pull, install, reboot; watch for deletion | at most one upgrade of a node, no needless reboot, none of a machine being deleted |
| Node client | `internal/inplace/talos.go` | none | version, apply, legacy upgrade, state of the API server | – |
| Bootstrap data | `controllers/talosconfig_controller.go`, `secrets.go`, `api/v1beta1/inplace.go` | the data secret with the hash of its inputs; TalosConfig status | reconcile: read, render, write the secret, patch the status | the data is created, never changes behind a Machine's back, and follows an update |
| Image resolution | `controllers/image_factory.go`, `installer_image.go` | `status.imageFactory` | reuse or resolve the installer image, pin a bare minor | pinned once, the image moves only with its inputs |
| Image Factory client | `internal/imagefactory` | lists for ten minutes, schematic ids for ever | fetch, cache, fall back to a stale list | an answer is of the version asked for, and recent unless a newer one cannot be had; an id on record is registered |
| Cluster secrets | `controllers/secrets.go` | secrets bundle, CA secret | create once, load | every machine of a cluster renders from the same bundle |
| Client config | `reconcileClientConfig` | talosconfig secret | create or update with the control plane's addresses | ends with the addresses of the last machine |
| MachinePools | `controllers/machinepool_inplace.go` | applied-hash annotation of every member, a condition | re-render, apply to the members one by one | stops at the first failure, ends with every member on the configuration |
| CanUpdate hooks | `canupdate.go`, `patch.go`, `policy.go` | none | admit a change, answer with merge patches | patches reproduce exactly the admitted part of the desired object |
| Extension server, registrar | `server.go`, `register.go` | the ExtensionConfig object | serve, create or update the registration | – |
| Config owner | `internal/configowner` | none | read Machine or MachinePool | – |
| Webhooks, conversion, types | `api/` | none | default, validate, convert | what is validated is what is rendered; a round trip loses nothing |

How they interact. The reconcilers talk to the hooks only through objects: the data secret and
its hash, `status.imageFactory`, the update-in-progress annotation. TalosConfigs and Machines are
read through the manager's cache, secrets never are (`src/main.go`), and the owner is read live.
Cluster API polls UpdateMachine until it reports completion; the hook hands an upgrade over to a
goroutine and finds its outcome in the tracker at a later call. The node runs on beside all of
this: it reboots, re-renders its static pods and has the kubelet replace them.

What is hard: a hook call is a dozen RPCs to a node that may go down in between; calls overlap
when Cluster API gives up on one and calls again; goroutines outlive the calls that started them
and the entries that point at them; both trackers are lost with the process; "the API server has
absorbed the configuration" is inferred from a file's render count, a container's start time and
a clock; a reconcile reads a lagging cache and writes two objects, one after the other; a hash is
computed on both sides from values read at different times. `hazards` in `PROJECT.json` has the
list, each at its line.

## 2. The modules

### TalosNode
The node, external to the repository, as far as `NodeClient` sees or changes it: installer image
running and installed, configuration, static pod and container of kube-apiserver. It may reboot
on any new configuration (AUTO mode), fall back to the image before when the new one does not
come up, and comes up with fresh pods. Render and replacement of the pod are steps of the node
with upper bounds `TalosLag` and `KubeletLag`, the ones `apiServerSettled` relies on
(`apiserver.go:61-66`). A configuration is a model value; `ImageOf` and `PodOf` say what the node
makes of it, and `Broken` has the pods whose server never becomes ready. On a worker the pod parts
stay empty. `NodeClient.APIServer` reads the static pod and then, in another call, the status of what runs, so the
module has the answer as a function of the version read first (`APIServer(v)`), taken in the state of the second read.

### UpgradeTracker
`upgradeTracker` with its goroutines. `tracker` is the entry of the machine and `seq` the
goroutines; an entry is dropped (`CancelUpgrade`) while its goroutine runs on under a cancelled
context until its next call fails. `start`, `get` and `cancel` each hold the mutex and are one step
each. `Expire` is `upgradeTimeout`, which ends the context of a running sequence and makes the
entry of a finished one "overdue".

### UpdateMachine
`DoUpdateMachine` and `continueUpgrade`, one action for every stretch between two RPCs or uses of
a tracker, with the local variables of the call in `call[c]`:

| Code | Action |
|---|---|
| `desiredConfig`, the stale-secret return | `CallHook` (a call that finds a stale secret changes nothing and is not a step) |
| `node.Version` | `ReadVersion` |
| `applies.get`, `node.APIServer` before the apply (two reads) | `LookupRecord`, `ObserveBefore`, `ObserveStatus` |
| `node.ApplyConfig`, `applies.record` | `ApplyConfig`, `RecordApply` |
| `LegacyUpgrade`; `upgrades.get`, then start, forget or wait | `LegacyUpgrade`; `LookAtUpgrade`, `ContinueUpgrade` |
| `node.APIServer` (two reads), `apiServerSettled` | `Settle`, `SettleStatus` |
| forget both trackers, report completion | `Finish` |
| any error or "retry later" return | `Return`, within the step; `FailRPC`, `BreakRPC` for a failing RPC |

Around it: the owner (`StartUpdate`), CABPT's re-render (`Render`), deletion and its watcher
(`Delete`, `WatchDeletion`), a clock (`Tick`), and the faults: restart, a call given up
(`Abandon`), an RPC that fails or whose answer is lost (`BreakRPC`), the same for a sequence, and
a hang until the timeout (`SequenceFault`), a node that falls back (`NodeFault`), and a record dropped for its age by
the apply of another machine (`EvictRecord`).

Decisions worth knowing:

* One machine. Both trackers are maps keyed by the machine, and entries influence each other in one way only:
  `applyTracker.record` drops the records of all machines that are older than `applyRecordTTL`, two hours.
  `EvictRecord` is that, on behalf of another machine.
* A call ends, for Cluster API, within `CallTimeout` (`spent` counts the time, `Tick` respects it); the code
  behind it may stall for longer. Nodes take longer to boot than that, so a node that was read before it went down is
  not read again by the same call after it has come up (`BootIsLong`).
* `KeepsRecord` says of a step that it loses no record of an apply: it is no restart within an update, and no lost
  answer of an apply that changed the configuration. `KeepingSpec` is `FairSpec` with such steps alone, and no restart. Without it,
  completion is wrong (`restart_loses_record`) or fails to come (see "Divergences" below).
* A call given up by Cluster API has a done request context. Its RPCs to the node then fail
  (`Attended`), its steps on the trackers do not: `upgrades.start` gives the goroutine a context
  of its own. The next update starts when earlier calls are over.
* A failure response is called again by Cluster API like any other.
* The machine has addresses; without, a call changes nothing and is repeated.
* On a worker completion follows directly on the apply, also when the node reboots on it: that is
  what the code does, and what "serves" means for a worker in the contract below.
* `Seqs` bounds the goroutines alive at once. A call that would start one more waits.

### UpdateContract and UpdateRefinement
The abstract specification: an owner asks, the node's configuration and image change only towards
what was asked for and only while it is asked, and completion means configuration, version and
service all at once. `UpdateRefinement` maps the hook onto it; `ImplementsContract` is checked as a
property.

### BootstrapData
The TalosConfig of one Machine from creation to in-place updates: `ReadConfig` (from the cache),
`ReadOwner` (live), `ResolveImage`, `WriteSecret`, `PatchStatus` are one reconcile, which may fail
or die between any two of them; `StampUpdate`, `WriteConfigSpec`, `WriteMachine` are the owner's
writes, one object after the other; `HookReadsSecret` and `HookChecks` are the two reads behind
`desiredConfig`. The deferred patch sends the difference to what was read, so a status written
meanwhile is kept (`Patched`). A rendered configuration is named by what it is rendered from (spec,
version, image), and `InPlaceConfigHash` is taken to be injective: it is SHA-256 over the canonical
JSON of the same three inputs. A spec is edited by others than
the owner of an update (`EditSpec`) as far as `ValidateUpdate` admits it (`Admits`): when a topology owns
the object. Left out: pausing, a deleted TalosConfig, MachinePools. How an image is resolved is one
step here and has a module of its own, ImageFactory; its cache makes a release be seen later, which is
one more order of the same steps.

`calm` is a history variable for the properties about the installer image. It becomes false with every
fault, restart and move, with a patch published while a reconcile is under way or its result not in the
cache, with an edit before the cache shows the data as created, and with the start of an update of a
Machine whose spec was edited since its data was rendered. What happens then is under "Divergences"
below; the properties without `calm` are checked with all of it.

### ImageFactory
`resolveInstallerImage` and `resolveImageFactory`, run by several reconciles at once over one
`imagefactory.Cached` and the Image Factory behind it, which is external. `BeginWithout`, `BeginReuse`
and `Begin` are the early ends and the start of a resolution. Each method of the cache is a step that
takes the mutex and finds a fresh entry or does not (`LockVersions`, `LockExtensions`), and a step for
the answer, with the mutex still held (`AnswerVersions`, `AnswerExtensions`), its refusal
(`RefuseExtensions`: no list for a version that is not served) or its failure (`FailVersions`,
`FailExtensions`), on which the stale entry is served. `CreateSchematic` lets go of the mutex in between:
`LookUpSchematic`, `Post`, `FailPost` (which may have registered it), `StoreSchematic`. Schematics are
content-addressed, so the set of extensions is its own id; a version is a number, `Bare` and `Malformed`
are the other two things `spec.talosVersion` may be. Around it: edits, restarts, versions and extensions
that appear one by one, and the clock. The reconciles here are the resolution alone; that a reconcile goes on
to render and write is BootstrapData.

### ClusterSecrets
The secrets all machines of a cluster share, with one reconcile per machine and any number of them
at once: `LoadBundle` and `CreateBundle` are `getSecretsBundle`, `LookForCA` and `CreateCA` are
`writeK8sCASecret`, `WriteData` the machine's own secret, and `ListMachines`, `LoadBundleAgain`,
`GetClient`, `CreateClient`, `UpdateClient` are `reconcileClientConfig`, with the resource version
that a concurrent write spoils and the conflict that is then ignored. Every write carries a client certificate
made for it (`genTalosConfigFile`), so it spoils that version even with the same endpoints (`PutClient`). `FailStep` fails any call,
whether it took effect or not, and `Restart` any number of reconciles between two of them. All
secrets are read live, so no cache is modelled but for what `addressed` and `ready` show. Left out:
the CA of user-supplied configuration and the older format of the bundle.

### MachinePool
`reconcileMachinePool` and what it acts on. `Render` is the gate on the secret, `List` the Machines
from the cache, `Pass`, `Apply` and `Record` the walk over the members in the order of their names,
`Finish` and `FailMember` its ends, and `PatchStatus` the deferred patch with the condition and the
requeue. A configuration stands for itself and its hash, since the secret carries both. Members
are created from the secret as it is, register, report an address and are removed at any time; the
cache follows when it likes. `FailApply` fails a call the node may have taken, `FailRecord` a patch
the API server may have; `Restart` also covers a crash between the two, and turns the flag.
`Edits` are the changes of the spec: `Onward` never returns to a configuration, `Back` does.

### CanUpdate
The decision whether an edit can be made in place. An object is a function from paths (sequences of
field `Names`) to values, so `MergePatchForPaths`, the RFC 7396 merge and the reference definitions
`Confined` and `DropsWhole` need no recursion; one that is not there is the function without paths. `TypeOK` says more
than types: both versions of an object are documents (`IsDocument`), that is, with a path they hold all
that leads to it, and what leads to a listed path is an object, as the schemas of the APIs have it. It is an invariant
of the proofs (`TypeCorrect`) and of no run, as only edits and decisions change the objects.
`DoCanUpdateMachine` and `DoCanUpdateMachineSet` answer with patches, `Suffices` is what Cluster API
makes of them (external: it applies them and compares), and the owner then updates in place or
replaces. A kind is a sequence of words: Cluster API makes machines from a template by dropping the word
`Template` (`Stamped`), and the hook for MachineSets derives the kind it looks the policy up by from that of the
template (`templatedGroupKind`), which may name none. The three objects of a Machine are there, of a provider the policy knows
and of one it does not, the latter without a bootstrap object, and two odd kinds: no template at all, and a
template of templates. Left out: objects that cannot be decoded, which
fail the call.

### MCUpdateMachine, MCBootstrapData, MCImageFactory, MCClusterSecrets, MCMachinePool, MCCanUpdate
The instances: three Talos versions (one before the lifecycle service), an image without a
version, two schematics of one version, three kube-apiserver pods, one of them broken; four
TalosConfig specs, two of which share a schematic and a bare minor; a minor of three versions, one a prerelease, and two TalosConfigs that ask for the minor, a patch, or nonsense, with an extension or without; two control plane machines and
a worker; the edits of a pool; and of each object of a Machine a listed value, a listed object with
two fields, a listed field of an object that is not listed, and fields nobody lists. `Mix` picks
the configurations of a run.

### UpdateMachineProofs, OneCallProofs, ControlPlaneProofs, BootstrapDataProofs, ImageFactoryProofs, ClusterSecretsProofs, MachinePoolProofs, CanUpdateProofs
The theorems; see section 5.

## 3. The runs

| Run | What it asks |
|---|---|
| `worker_update` | Two updates of a worker between versions, tagless images included, with a fault, a restart and a deletion at any point: the contract, `DoneMeansUpgraded`, `NoNeedlessReboot`, and that updates complete. |
| `worker_overlap` | Two calls and two goroutines, on a node that may hang for ever and a clock that may stop: one live sequence and it is tracked, only the desired configuration is applied, a deletion stops upgrades for good, and, between versions with the lifecycle service, the contract. |
| `control_plane_update` | One update of a control plane machine between any two of four configurations, of version, pod, both, or to a pod that cannot start, with the window and the lags of the code, one fault that does not lose the record, and a node that moves between the two reads of a call: the contract, done means absorbed, and done comes. |
| `data_update` | One update with stale caches, a release, and a fault, restart, move or edit of the spec at any time: what completes is what was asked for, data is created, updates complete; where it is calm the image stays pinned, the data frozen, and status agrees with the secret. |
| `image_factory` | Two TalosConfigs over one cache, a version published and extensions offered while they resolve, and a failing call, an edit or a restart at any time: an image on record can be pulled and has extensions of its version, no answer is older than the TTL unless a newer one could not be had, what the cache knows survives an outage, and every TalosConfig that can be resolved comes to be. |
| `cluster_secrets` | Three machines of a new cluster at once, with one failing or unanswered call or a restart: `OneBundle`, no data before the CA, everyone provided for once the queue is empty, and the talosconfig comes to list the whole control plane. |
| `machine_pool` | A pool with a member that joins, a spec that moves on through a configuration every node refuses, and two faults: a recorded hash is what the node runs, a report of UpToDate is true, the walk is in order and stops at a failure, nothing waits unseen, and the pool converges. |
| `can_update` | Every sequence of up to two edits between decisions, for each kind of template: an update is in place only if nothing but listed fields is edited, and is if they are set, changed or cleared whole; MachineSets are answered as their Machines; what no update can move (role, provider id, boot mode) is never moved in place. |

Completion of an update is `UpdateCompletes` in both modules of in-place updates, refined by the two conditions the
code cannot help: an API server that can start, and a machine that is not deleted.

Four further runs each show one disagreement between the code and what a comment
or documentation says (`findings` in `PROJECT.json` quotes both):

| Run | Finding |
|---|---|
| `restart_loses_record` | After a restart the settle window (15 s) is shorter than the kubelet's lag (20 s): completion with the old kube-apiserver running. |
| `default_version` | Renderer and hook disagree on the version of a Machine without one, so the update never completes. |
| `pool_reverted` | A member takes a configuration, the record of it is lost, and the spec is edited back: the older record matches again and the pool is reported up to date with the member on the configuration in between. |
| `dropped_field` | A listed object loses a field (`imageFactory.overlay`): the merge patch carries no null for it, so the patch does not move the path to its desired value (`patch.go:25-26`) and the machine is replaced, where `docs/in-place-updates.md:18` says `imageFactory` is updated in place. |

### Divergences without a run
Met while modelling, and either narrower than the above or stated otherwise elsewhere in the docs:

* A new schematic at the same Talos version is applied and never installed, since `needsUpgrade`
  (`updatemachine.go:430`) looks at the tag alone. `docs/in-place-updates.md:239-241` says a change
  to the extension set upgrades the node; the table of the same document says what the code does.
* The entry of a finished sequence of a deleted Machine stays for ever, as only a hook call drops
  it (`upgrades.go:17-18` says `upgradeTimeout` bounds how long one is remembered).
* `clusterctl move` drops the status and with it the pinned image (`image_factory.go:155`); the next
  update pins anew, where `README.md:133` says a bare minor is resolved once.
* A status patch lost after the secret was created, with a release in between: status names an image
  that was not rendered (`talosconfig_controller.go:343`; `talosconfig_types.go:90` says it is the
  image in use).
* An edit of a topology-owned spec while the first reconcile has not reached the cache: the next
  reconcile reads the new spec with the data not yet created, finds the secret, leaves it, and records the
  image of the new spec in status, which then is not the one rendered (`talosconfig_types.go:90`).
* An edit of a topology-owned spec later on is a no-op until an update is stamped, as
  `talosconfig_webhook.go:63-67` says; a reconcile between the stamp and the owner's write then renders
  the edited spec, which nobody asked the update for, and if it writes it late, the secret holds it after
  the update is complete. Completion itself is still right (`CompletionMatchesRequest`).
* Nothing limits a call to the Image Factory (`main.go:196` gives the client no timeout of its own, and
  `http.DefaultClient` has none), and the lists are fetched with the mutex of the cache held
  (`cache.go:38`): a connection that hangs stops every TalosConfig with `spec.imageFactory`.
  `GetsItsImage` counts on an answer or a failure.
* `NodeClient.APIServer` is two reads (`talos.go:151-183`). When an apply is recorded anew, after a restart or a lost answer
  or by an overlapping call, the pod may be replaced between them, and the baseline then is the old render with the start
  time of the new pod. `apiServerSettled` finds the pod re-rendered and waits for a later start that never comes; the
  update hangs. `apiserver.go:25-28` and `:140-141` say that recording again costs one more settle window. TLC finds
  it as soon as the runs of a control plane machine allow a restart; it is the same restart as in
  `restart_loses_record`, which already refutes the comment, with another outcome.
* The talosconfig may miss an address from an ignored conflict (`secrets.go:325`): the reconcile that won may have
  listed the addresses earlier. The comment there says "probably". It stays so until the next event of a control
  plane machine or the ten-hour resync, and it is the resync that `EndpointsConverge` rests on, not the handling of conflicts.

### Bounds
For workers two updates are enough for a record, an entry or an apply of the one to meet the other; one fault
and one restart, at every point, for each recovery path (two restarts and two faults were also
run for a worker between two versions, with nothing new). Two calls make every pair of overlapping steps; a
third adds no writer the mutexes do not already order. Two goroutines are one cancelled and its
successor. In the runs of workers nothing is measured in time, and all lags and windows are 0.

On a control plane machine time is in units of five seconds: `KubeletLag` 4 for the twenty seconds of
`apiserver.go:61-66`, `SettleWindow` 3 for fifteen (`:22`), `CallTimeout` 2 for the ten seconds of a hook call (Cluster
API's default), and `TalosLag` 0, that is, Talos renders before the next tick of the clock ("within seconds").
`RecordTTL` 5 stands for two hours: ages are counted only to the bound they are compared with, and five units are longer than Talos and
the kubelet ever take. One update has every pair of configurations before and after it; completion forgets what was recorded, and
the theorems of section 5 are for any number of updates. The run has one call at a time: of two that overlap the second may record a baseline observed
after the first one's apply, which is the loss of a record in another guise.

One release is what pinning can be wrong about, and one update after it what can move the image. Faults, moves and edits
share the bound `MaxUpsets` of one. `FirstVersions` has one of the two versions, which are interchangeable as long as none is
the default or unset; `default_version` has all three. `rendered` and `started` grow with every
reboot and are bounded by the updates and faults.

Three machines in ClusterSecrets are two writers of the talosconfig and one machine that only takes
part in the race for the bundle; three bundles let each generate its own. Two members of a pool,
one of which joins, are one before and one after in the walk; three members, two of them there from
the start, were also run with one fault. Two faults are what it takes to lose a call and then its
retry. The passing run of the pool is restricted to specs that move on (`Edits <- Onward`), and
`pool_reverted` is the reason. Two edits between decisions reach every pair of a listed and an
unlisted path, and objects that exist on one side only.

In `image_factory` the TTL is one tick: an entry is fresh or it is not, and `servedFor` and `offeredFor`
count to the same bound. Two reconciles are one that fills the cache and one that finds it, waits for it
or overtakes it; `Created` leaves out the half of the initial states in which they change places. One
version is published, on top of one or two that are there; with a second one nothing
new can happen to an entry, which is replaced as a whole. One upset is one failing call, edit or restart
at any step.

Deadlock is checked in the last three passing runs of the table, where something is always possible.
It is not in the runs of UpdateMachine, BootstrapData and ImageFactory: with no further update, or with every
image resolved and every age at its bound, the system is at rest.

### Fairness
`FairSpec` of UpdateMachine: Cluster API requeues the Machine until the hook completes
(`RetryAfterSeconds`), goroutines and calls are scheduled, the watcher polls on a ticker, the clock
runs, a node that goes down comes back and starts its pods. The owner, a deletion and every fault
are free not to happen. `KeepingSpec` has the same fairness. `HangingSpec` leaves all of the node and the clock out: calls return,
a cancelled sequence ends, the watcher polls, and no more; deletion is checked under it. `FairSpec` of
BootstrapData: the work queue is served and rate-limited retries come, caches catch up, the
infrastructure is provisioned and Cluster API goes on with what it started. `FairSpec` of ImageFactory: workers serve the queue, the Image
Factory answers, time passes, and a mutex that is free again and again is had in the end (strong fairness;
a Go mutex hands itself over to whoever has waited for a millisecond); failures are not promised, and need not be.
`FairSpec` of
ClusterSecrets: the ten workers serve every TalosConfig, control plane machines report an address,
and the cache is resynced, which controller-runtime does every ten hours when it is not told
otherwise (`src/main.go` does not). `FairSpec` of MachinePool: a worker serves the queue, RequeueAfter
timers run out, the resync, and members that exist register, report an address and show in the
cache. Edits, removals, faults and the flag are never promised.

## 4. What a property would catch

Every property of a passing run has a mutant, a variant of one mapped definition beside it in the
module ("Variant:"), under which TLC finds the property violated: starting without the look under the
mutex, a finished sequence taken for a finished update, a failed one never forgotten, a re-render
taken for a restart, waiting for a restart that never comes, a hash without the version, a patch
of the hash alone, a watch that is not mapped, the loser of the race for the bundle going on with its own,
a member recorded before it has accepted, a walk that goes on past a failure, a null missing from
a patch, an entry of another version, one that is served a tick too long or not at all, and so on.

Three things were found to hold only under the stated conditions; the first and the last are kept as
hazards:

* `NoNeedlessReboot` and `DoneMeansUpgraded` hold for one call at a time. With two, a call that was
  given up and stalls between its look at the tracker and `start` for the whole of another sequence and
  its reboot starts a second one; if by then the owner wants a version that node reaches by upgrading
  itself, that stale sequence may bring the old one back between the last call's read of the
  version and its end.
* `DoneMeansAbsorbed` on a control plane machine holds for versions with the lifecycle service. Before it
  (`updatemachine.go:234-244`), a call that stalls between asking the node for its version and asking
  it to upgrade, for as long as the node needs to install and reboot, asks the upgraded node once
  more. It then reboots for nothing, possibly between the last call's look at kube-apiserver and
  the end of that call. Cluster API's own timeout makes so long a stall remote; nothing in the
  code rules it out, so the theorems do (`LifecycleOnly`).
* `DataIsFrozen` holds with releases between reconciles. A reconcile that read the annotation
  before it was removed, and resolves a minor whose pin has not reached its cache, may write the
  patch published since.

## 5. The proofs

### UpdateMachineProofs
`UpdateMachineProofs` proves, for every set of configurations, images, calls and sequences, every
window and lag and every bound:

* `TypeCorrect`: the type invariant.
* `LiveSequenceTracked`: a live sequence is the one the tracker holds.
* `OnlyDesired`: the node's configuration changes only to the desired one.
* `DoneIsDelivered`: completion is reported only when the node has the desired configuration.

Assumptions are `NodeAssumption`, `SeqAssumption` and `HookAssumption`: `None` is not an identity,
the functions on configurations are total, and lags and bounds are naturals.

The inductive invariant is `Inv`. Types alone are not inductive: `ContinueUpgrade` starts a sequence
for `ImageOf[call[c].cfg]` and a sequence installs `seq[i].image`, either of which might be `None`.
So `CallsInv` says that a call under way carries the *desired* configuration, which holds because
`CallHook` takes a secret only if it is fresh and no update starts while a call runs; and that past
its apply the node has it, which holds because other calls can only apply the same. This gives
`OnlyDesired` and `DoneIsDelivered` too. `SequencesCarryImages` does the same for sequences, and
`LiveSequenceIsTracked` is kept by `start` because an empty tracker means there is no live sequence,
which is the invariant itself.

The proof has a lemma for each action, built from three frame lemmas (`QuietStep`: a call moves and
touches neither node nor tracker; `HookStep`; `OtherStep`: everything but calls and owner).
Boolean and numeric variables of the node are typed in separate conjuncts, since no prover
available handles both in one obligation.

### OneCallProofs
For the same system, and as long as hook calls do not overlap (`Sequential`):

* `DoneIsUpgraded`: `DoneMeansUpgraded`.
* `RebootsAreNeeded`: `NoNeedlessReboot`.
* `WorkerImplementsContract`: on a worker, the refinement of `UpdateContract`.

What reboots the node was decided by a call that knew an earlier version, so three things have to be
known together (`OneInv`). `PendingExpected`: an image that may come up, installed or being installed by
the node itself, is the one that runs, or the one of the update in progress. `SequencesGood`: while a sequence is
live, the update it stands for is the current one, the node needs it, and is not on its way into it. `CallsKnow`: the
version a call has read is wrong only when the node has come up on the desired image meanwhile, and
then the tracker still has the entry of the sequence that took it there. The last is why `start`
under the mutex is safe after a stale look: an empty tracker means that nothing has overtaken the call.
It is also what a second call breaks, see section 4. The watcher may empty the tracker under a
call, but only while a sequence is live, and then the call is not overtaken.

### ControlPlaneProofs
On a control plane machine, under `AbsAssumption`: calls do not overlap (`Sequential`), every configuration names an image
with the lifecycle service (`LifecycleOnly`), a call that reads the pod before Talos renders it ends within the
settle window (`TalosLag + CallTimeout < SettleWindow`), and a record outlives what it is for
(`TalosLag + KubeletLag < RecordTTL`). For behaviours that lose no record of an apply (`NothingLost`, that is, `KeepsRecord` of
every step: no restart within an update, and the answer of the call that changed the configuration arrives):

* `DoneIsAbsorbed`: `DoneMeansAbsorbed`.
* `ControlPlaneImplementsContract`: the refinement of `UpdateContract`.

The kubelet's lag may be longer than the window, as it is in the code; what is assumed of the times is true of it: Talos reacts
"within seconds" and a call lasts ten, in a window of fifteen (`apiserver.go:20-23`), and the kubelet takes twenty where a record is
kept for two hours (`:29`, `:61-66`). Nothing is claimed when a record is lost, where the code is wrong
(`restart_loses_record`). Why the lifecycle service cannot be dropped is in section 4: a late request to a node that
upgrades itself. `RecordAssumption`, that `None` is no record, is used here only.

The invariant (`AbsInv`) follows an update through its phases. `Unasked`: nothing was applied, kube-apiserver
is at rest (`Calm`) and no sequence runs, so what a call observes before its apply is true until the
apply, in however many reads. `Recording`: applied and about to be recorded. `Recorded`: the record is of the desired configuration.
In both the node is `UnderWay` to the desired configuration, and `Absorbing` adds what has to hold of it with
respect to what was observed. `Unchanged`: a pod that is still the old one has the old resource version, an old
container was not started since. `InTime`: the render is due within the age of the record, and the replacement of a
container within the kubelet's lag of it. So a container younger than the observation, under a new resource version,
runs the new pod; and an unchanged one after the window has nothing to change (`SettledIsCalm`). The second read of a call may come
after the node has moved on from what the first one saw. `ReadInTime` is what makes that harmless: a call that found the old pod,
with the old container still there, found it in the time Talos takes to render, so it ends before the window does and
its look is not decided on the window. `Forgotten`: the record was dropped for its age, and by then nothing is left of
what was there before (`Replaced`); what is observed and recorded anew is the desired pod.
`Lost`: the watcher dropped record and sequence of a machine being deleted; the last call then finds the node in need of the upgrade it did not get, and does not complete.

### ClusterSecretsProofs
For any number of machines and bundles and any bound on faults:

* `SecretsTypeCorrect`: the type invariant.
* `AllFromOneBundle`: every machine's data, the CA and the talosconfig come from the bundle of the
  cluster.
* `CABeforeData`: no machine has data before the CA is there.
* `NothingIsForgotten`: with the queue empty and nothing running, every machine has been provided for,
  and the talosconfig is there if there is a control plane.

The assumptions are `SecretsAssumption` and `NoneAssumption`. `OneBundle` is not inductive: a reconcile writes from the
bundle it has *read*, at a step long past. The invariant `Inv` adds `AllGood`, that a reconcile past
the creation of the bundle (`Holding`) has the cluster's; it is kept because the bundle never
changes once it is there and because the loser of the race comes back to load the winner's. `CAFirst`
says the same of the CA for the step that writes the data, and `RolesKept` that only control plane
machines see to the talosconfig. Types and `Shared`, the rest, are shown for each step separately,
and `FailStep`, which is a step with its effect or without, on its own. For `NothingIsForgotten` two more
invariants are added, of which `NobodyForgotten` says in every state what the property says at rest:
whoever is not provided for waits in the queue or has a reconcile under way.

### MachinePoolProofs
For pools of any size, any edits and any number of faults, from `PoolAssumption` and
`NoVerdictAssumption`:

* `PoolTypeCorrect`: the type invariant.
* `VerdictsDoNotLinger`: `QuietVerdict`.

And if no edits lead from a configuration back to it (`NoWayBack`):

* `RecordsAreTrue`: a member recorded on the configuration of the secret runs it.
* `UpToDateIsSo`: a report of UpToDate is true of every member the walk has seen.
* `OneByOne`: a member is given a configuration only when those before it run it.

`Before` is what edits can reach, the smallest transitive relation that holds them, and no order or rank
has to be assumed of configurations. The invariant (`Aged`) is one of age: the record of a member, in the
API server, in the cache or on a list a walk has read, is at most as young as what the node runs, the node at most as young as
the secret, and the secret as the spec. A record that agrees with the secret then squeezes the node
between them. `WalkTrue` says that whom the walk has passed is on the secret, which a walk does not
change. Without `NoWayBack` age means nothing, and `pool_reverted` is the counterexample.

### BootstrapDataProofs
For any specs, versions, images and bounds, from `DataAssumption`:

* `TypeCorrect`: the type invariant.
* `CompletionIsRight`: an update completes only with bytes rendered for the spec and the version asked
  for, under every fault, move and edit the model has.

* `StatusIsRendered`: `StatusImageIsRendered`.
* `FrozenData`: `DataIsFrozen`.
* `PinnedImage`: `ImageIsPinned`.

The hook compares a hash read at one time with an image read at another, and what it hands on are
bytes. `Consistent` is what makes that right: the bytes and the hash of the secret, and of the copy the
hook holds, are of the same inputs, since `PutSecret` writes them in one patch. A match of the hash is
then a match of spec and version, and no configuration is rendered for the empty version, so a
Machine without a version never completes on a wrong one (it never completes, see `default_version`).

The last three are about a calm environment, and rest on `CalmInv`, which follows the data through
three phases. `Unrendered`: nothing is there, and a reconcile has read what is. `Unrecorded`: the
secret is written, and the reconcile that wrote it is about to say so in status; only then are
the image and the created flag in the TalosConfig. `Recorded`: from then on, and the phase with the work
in it, since every copy of the TalosConfig that is still about may be older than the update it is used
in: the cache, what a reconcile has read, what it is about to patch. `IsRight` is what can be said
of any copy, whatever its age. One from before the data was recorded renders the image of the data.
One with the annotation of an update is of the old spec, with the old image or with none to keep, and
resolves to the image of the data, or it is of the new spec, still has the image of the data on record,
and the update is being written. So a reconcile late in an update has nothing to write but what is
there (`WriteFollowsUpdate`), and one that resolves anew does so for inputs that have changed, while its
update is under way. Status is then the image of the data but for one moment, `Pinning`: the reconcile that
rendered for the new spec has written the secret, and its status patch is still to come. The hook does not
complete in that moment, because the hash it computes is of the image in status; and a copy of the secret it
holds with the spec and version asked for is the secret as it is (`HookIsCurrent`). So the annotation
goes only when status and secret agree.

### ImageFactoryProofs
For any TalosConfigs, requests, versions, extensions, TTL and bounds, from `FactoryAssumption`:

* `TypeCorrect`: the type invariant.
* `ImageCanBePulled`: `ImageIsAvailable`.
* `ExtensionsFit`: `ExtensionsMatchVersion`.
* `OutageIsSurvived`: `KnownSurvivesOutage`.
* `AnswersAreUpToDate`: `AnswersAreRecent`.

The Image Factory takes nothing back (`FactoryGrows`), so an entry of the cache that was true stays
true however old it gets (`CacheIsTrue`): that is why serving a stale list is safe. `Sound` says of a
reconcile what it has established by the step it is at: from where on its version is one that is
served, its extensions are offered for it, its schematic registered. Each step is shown to keep this of
its own reconcile, and every growing of the Factory and of the cache to keep it of all others. For
`OutageIsSurvived`, `Sound` also says that one that began with everything it may need in the cache still finds
it there, as only a restart empties the cache, and a restart ends all reconciles. `AnswersAreUpToDate` adds
`Recent`: a list younger than the TTL holds all that has been there for longer than the list, since
both age alike and what is new is younger than any list. An extension is refused only for a version whose list
was fetched, so one that the Factory does not serve fails as unavailable and not as lacking it.

### CanUpdateProofs
For any field names, objects, values and edits, from `CanUpdateAssumption` (objects are documents at
first, and no value of an edit takes the place of an object that leads to a listed path):

* `InPlaceIsExact`: `OnlyListedInPlace` and `SetOrClearedInPlace`, the two directions of when an update is in place.
* `TemplatesAreAnsweredAlike`: `TemplatesAgree`, for any kind of template.
* `FixedStays`: `FixedIsKept`, for fixed paths that neither lie below a listed one nor lead to one
  (`FixedIsUnlisted`).
* `RoleStays`: the role of a machine does not change in place; no assumption on the lists is needed,
  as this is about the lists of the policy.

The invariant they rest on is `TypeCorrect`, that all objects stay documents; beyond it, what has to be shown is what the patches do to objects of any shape. Two facts
carry it. Objects are closed under what leads to a path, so a path that is set has all its parents in the
object it is merged into. And listed paths are `Apart`, none leads to another (`ListedIsApart`, for the
lists as they are in `policy.go`), so whatever lies below one is set or removed by the patch of that one
alone. `PatchedIs` then says what a patched object holds at every path. `ConfinedIsReached` and
`ReachedIsConfined` are the two directions of `InPlaceIsExact`: a confined edit is reproduced path by path, and
where the patched object agrees with the desired one, a path outside the lists is untouched or is a new
object that leads to a listed one. For templates, `Under` puts a path below `spec.template`; it is injective and
keeps which path leads to which, so documents, listed paths and confinement carry over
(`TemplateIsDocument`, `TemplateIsConfined`), and what is reached by a patch, used twice (`PatchReaches`), gives the
answer for one kind. `TemplateListed` adds that the kind derived from that of the template is the kind of the machines it stamps out, or no kind; then
nothing of the infrastructure is listed, and only an unchanged one is reached (`NothingListed`).

### Only model-checked
Liveness (out of TLAPS's reach): `UpdateCompletes`, `DeletionStopsUpgrades`, `DataIsCreated`,
`GetsItsImage`, `EndpointsConverge`, `PoolConverges`. Of the safety properties, what the proofs of
UpdateMachine leave open: overlapping calls. `worker_overlap` has the contract with two of them, for a worker
between versions with the lifecycle service; with an older one section 4 says how two calls break it. On a control plane
machine nothing is checked of overlapping calls.

## 6. What is left

The plan of the first version of this project had the bundle, the pool, the decision, and then the Image
Factory with its cache; all of these are there, and every safety property a passing run checks is also
a theorem, some under the conditions section 5 names. What could follow is the contract with overlapping calls, up to the stalled
call of section 4: for a worker first, then for a control plane machine.

### Not modelled
* The rendering itself (`genConfigs`, `userConfigs`, the patches, strategic merge): transformations of
  data done by the Talos machinery library, taken as a function of their inputs.
* The registration of the extension (`register.go`) and its server: one writer on the leader, one object,
  no state but the object, repeated at every tick. There is nothing it could race with or forget.
* The conversion from v1alpha3: a copy of fields, with an annotation for what does not fit. It takes
  part in no protocol; that no field is missed is a question for a test with generated objects.
* Validation of single fields by the webhooks; which writes of a spec they admit is in BootstrapData.
* Deletion and pausing of a TalosConfig: the first takes off a finalizer that older versions set, the second does
  nothing (`talosconfig_controller.go:204-242`).
* Generated code, type declarations, flags and wiring.
