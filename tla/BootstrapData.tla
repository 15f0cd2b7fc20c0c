---------------------------- MODULE BootstrapData ----------------------------
(***************************************************************************)
(* How the bootstrap data of one Machine is rendered, kept and handed on:  *)
(* Reconcile, reconcileGenerate and writeBootstrapData                     *)
(* (controllers/talosconfig_controller.go, controllers/secrets.go), the    *)
(* resolution of the installer image (controllers/image_factory.go), the   *)
(* hash that ties the secret to its inputs (api/v1beta1/inplace.go), and   *)
(* the look the UpdateMachine hook takes at it (desiredConfig and          *)
(* desiredConfigHash, internal/inplace/updatemachine.go).                  *)
(*                                                                         *)
(* The TalosConfig is read from the manager's cache, which lags behind the *)
(* API server; the Machine that owns it, and the secret, are read live.  A *)
(* reconcile writes the secret first and its status last, so it can stop   *)
(* in between.  What the cluster's secrets bundle adds to the rendered     *)
(* bytes never changes and is left out.                                    *)
(***************************************************************************)
EXTENDS Naturals

CONSTANTS
  Specs,        \* TalosConfig specs
  InputsOf,     \* what a spec asks of the Image Factory, or None without spec.imageFactory
  BareMinors,   \* the inputs whose talosVersion is a minor, to be pinned to a patch
  Versions,     \* what Machine.spec.version may be
  FirstVersions,\* what it may be when the Machine is created
  Unset,        \* no version
  Default,      \* constants.DefaultKubernetesVersion
  None,
  MaxReleases,  \* bound on patches the Image Factory publishes
  MaxUpdates,   \* bound on in-place updates
  MaxUpsets     \* bound on clusterctl moves, edits by others than the owner, restarts, failing calls
                \* and lost status patches together

Inputs == {InputsOf[s] : s \in Specs} \ {None}

VARIABLES
  config,      \* the TalosConfig in the API server
  cached,      \* the TalosConfig in the manager's cache
  version,     \* Machine.spec.version
  refSet,      \* is Machine.spec.bootstrap.dataSecretName set
  infraReady,  \* is the cluster's infrastructure provisioned
  secret,      \* the bootstrap data secret, or None
  newest,      \* the newest patch the Image Factory serves of every minor
  queued,      \* is the TalosConfig in the work queue
  rec,         \* the reconcile: where it is, and what it has read
  update,      \* the in-place update: where it is, and what it is to reach
  hook,        \* the hook call: where it is, and the secret it has read
  applied,     \* the bootstrap data the node runs, or None
  calm,        \* history: nothing failed or was moved, patches came between reconciles only, and no
               \* edit raced with a render
  updates, upsets

vars == <<config, cached, version, refSet, infraReady, secret, newest, queued, rec, update, hook,
          applied, calm, updates, upsets>>

counters == <<calm, updates, upsets>>

\* An installer image: of which inputs, and of which patch of the minor (0: as the spec says).
ImageRecords == [inputs : Inputs, patch : 0 .. MaxReleases]

\* status.imageFactory, reduced to observedInputs and the image, is such a record or None.
ConfigRecords == [spec : Specs, owned : BOOLEAN, inPlace : BOOLEAN, created : BOOLEAN,
                  pin : ImageRecords \cup {None}]

\* What configuration is rendered from; its hash covers the same and stands for it.
HashInputs == [spec : Specs, version : Versions, image : ImageRecords \cup {None}]

\* A secret holds the bytes rendered from some inputs, and the hash stamped on them.
Secrets == [data : HashInputs, hash : HashInputs]

ASSUME DataAssumption ==
  /\ BareMinors \subseteq Inputs
  /\ Default \in Versions \ {Unset}
  /\ FirstVersions \subseteq Versions
  /\ None \notin ImageRecords
  /\ None \notin Secrets
  /\ MaxReleases \in Nat
  /\ MaxUpdates \in Nat
  /\ MaxUpsets \in Nat

\* Every variable has its type.
TypeOK ==
  /\ config \in ConfigRecords
  /\ cached \in ConfigRecords
  /\ version \in Versions
  /\ refSet \in BOOLEAN
  /\ infraReady \in BOOLEAN
  /\ secret \in Secrets \cup {None}
  /\ newest \in 0 .. MaxReleases
  /\ queued \in BOOLEAN
  /\ rec \in [at : {"idle", "owner", "resolve", "write", "patch"}, read : ConfigRecords \cup {None},
              version : Versions, pin : ImageRecords \cup {None}, created : BOOLEAN,
              retry : BOOLEAN]
  /\ update \in [at : {"none", "stamped", "written", "pending"}, spec : Specs, version : Versions]
  /\ hook \in [at : {"idle", "check"}, secret : Secrets \cup {None}]
  /\ applied \in HashInputs \cup {None}
  /\ calm \in BOOLEAN
  /\ updates \in 0 .. MaxUpdates
  /\ upsets \in 0 .. MaxUpsets

NoReconcile == [at |-> "idle", read |-> None, version |-> Default, pin |-> None,
                created |-> FALSE, retry |-> FALSE]
NoHook == [at |-> "idle", secret |-> None]

\* A TalosConfig has been created for a new Machine.
Init ==
  /\ \E s \in Specs, o \in BOOLEAN :
       config = [spec |-> s, owned |-> o, inPlace |-> FALSE, created |-> FALSE, pin |-> None]
  /\ cached = config
  /\ version \in FirstVersions
  /\ refSet = FALSE
  /\ infraReady = FALSE
  /\ secret = None
  /\ newest = 0
  /\ queued = TRUE
  /\ rec = NoReconcile
  /\ update = [at |-> "none", spec |-> config.spec, version |-> version]
  /\ hook = NoHook
  /\ applied = None
  /\ calm = TRUE
  /\ updates = 0
  /\ upsets = 0

----------------------------------------------------------------------------
(* Pure parts. *)

\* kubernetesVersion: what the configuration is rendered for.
KubernetesVersion(v) == IF v = Unset THEN Default ELSE v

\* reconcileGenerate: the bytes, named by what they are rendered from.
Rendered(s, v, img) == [spec |-> s, version |-> v, image |-> img]

\* Variant: the hash leaves the version out.
HashWithoutVersion(s, v, img) == [spec |-> s, version |-> Default, image |-> img]

\* InPlaceConfigHash is injective in the inputs it covers, so the inputs stand for the hash.
InPlaceConfigHash(s, v, img) == [spec |-> s, version |-> v, image |-> img]

\* The hook's desiredConfigHash takes the version of the Machine as it is.
DesiredConfigHash(s, v, img) == InPlaceConfigHash(s, v, img)

\* What the Image Factory makes of the inputs.
ImageFor(in) == [inputs |-> in, patch |-> IF in \in BareMinors THEN newest ELSE 0]

\* Variants: a recorded image is never reused; the inputs are not looked at.
ResolveAnew(s, current) == IF InputsOf[s] = None THEN None ELSE ImageFor(InputsOf[s])
ResolveUnasked(s, current) ==
  IF current # None /\ current.inputs = InputsOf[s] THEN current ELSE ImageFor(InputsOf[s])

\* resolveImageFactory: the recorded image while its inputs match, a resolution otherwise.
Resolve(s, current) ==
  LET in == InputsOf[s] IN
  CASE in = None -> None
    [] in # None /\ current # None /\ current.inputs = in -> current
    [] OTHER -> ImageFor(in)

\* rewritesBootstrapData: of a Machine, only during an in-place update.
RewritesBootstrapData(c) == c.inPlace

----------------------------------------------------------------------------
(* The reconcile of the TalosConfig: one at a time for each object. *)

Upset == upsets < MaxUpsets /\ upsets' = upsets + 1 /\ UNCHANGED updates

Fault == Upset /\ calm' = FALSE

environment == <<cached, version, refSet, infraReady, newest, update, hook, applied>>

ReadConfig ==
  /\ queued
  /\ rec.at = "idle"
  /\ queued' = FALSE
  /\ rec' = [NoReconcile EXCEPT !.at = "owner", !.read = cached]
  /\ UNCHANGED <<config, secret, environment, counters>>

\* The owner is read live, and decides, with what the config says, how the reconcile goes on:
\* ready already, waiting for infrastructure, a status to restore after a move, or a render.
ReadOwner ==
  LET c == rec.read IN
  /\ rec.at = "owner"
  /\ rec' = CASE (c.created /\ ~c.inPlace) \/ ~infraReady -> NoReconcile
              [] infraReady /\ refSet /\ ~c.created -> [rec EXCEPT !.at = "patch", !.pin = c.pin,
                                                                   !.created = TRUE]
              [] OTHER -> [rec EXCEPT !.at = "resolve", !.version = version]
  /\ UNCHANGED <<config, secret, queued, environment, counters>>

ResolveImage ==
  /\ rec.at = "resolve"
  /\ rec' = [rec EXCEPT !.pin = Resolve(rec.read.spec, rec.read.pin), !.at = "write"]
  /\ UNCHANGED <<config, secret, queued, environment, counters>>

\* What a reconcile under way renders, and the hash of it.
RecRendered == Rendered(rec.read.spec, KubernetesVersion(rec.version), rec.pin)
RecHash == InPlaceConfigHash(rec.read.spec, KubernetesVersion(rec.version), rec.pin)

\* Variant: the patch of an existing secret carries the hash alone.
PutSecretHashOnly ==
  secret' = CASE secret = None -> [data |-> RecRendered, hash |-> RecHash]
              [] secret # None /\ RewritesBootstrapData(rec.read) -> [secret EXCEPT !.hash = RecHash]
              [] OTHER -> secret

\* writeBootstrapData: create, leave alone, or replace data and hash in one patch.
PutSecret ==
  secret' = IF secret = None \/ (RewritesBootstrapData(rec.read) /\ secret.hash # RecHash)
              THEN [data |-> RecRendered, hash |-> RecHash]
              ELSE secret

WriteSecret ==
  /\ rec.at = "write"
  /\ PutSecret
  /\ rec' = [rec EXCEPT !.at = "patch", !.created = TRUE]
  /\ UNCHANGED <<config, queued, environment, counters>>

\* The deferred patch sends what differs from the object that was read.
Patched(c) ==
  [c EXCEPT !.created = IF rec.created # rec.read.created THEN rec.created ELSE @,
            !.pin = IF rec.pin # rec.read.pin THEN rec.pin ELSE @]

PatchStatus ==
  /\ rec.at = "patch"
  /\ config' = Patched(config)
  /\ rec' = NoReconcile
  /\ queued' = (queued \/ rec.retry)
  /\ UNCHANGED <<secret, environment, counters>>

\* The reconcile fails: what it has set in status so far is patched, and it is retried.
FailToPatch(pin) ==
  rec' = [rec EXCEPT !.pin = pin, !.created = rec.read.created, !.at = "patch", !.retry = TRUE]

\* The Image Factory cannot be reached: what was recorded is kept.
FailResolve ==
  /\ Fault
  /\ rec.at = "resolve"
  /\ FailToPatch(rec.read.pin)
  /\ UNCHANGED <<config, secret, queued, environment>>

\* The write of the secret fails, or takes effect and its answer is lost.
FailWrite ==
  /\ Fault
  /\ rec.at = "write"
  /\ PutSecret \/ UNCHANGED secret
  /\ FailToPatch(rec.pin)
  /\ UNCHANGED <<config, queued, environment>>

\* The owner cannot be read, or the status patch is lost: the reconcile is retried.
Retry ==
  /\ Fault
  /\ rec.at \in {"owner", "patch"}
  /\ rec' = NoReconcile
  /\ queued' = TRUE
  /\ UNCHANGED <<config, secret, environment>>

\* The controller restarts, and reads everything anew.
Restart ==
  /\ Fault
  /\ rec' = NoReconcile
  /\ hook' = NoHook
  /\ cached' = config
  /\ queued' = TRUE
  /\ UNCHANGED <<config, version, refSet, infraReady, secret, newest, update, applied>>

----------------------------------------------------------------------------
(* What the reconcile watches. *)

\* A change of the TalosConfig reaches the cache, and with it an event.
SyncCache ==
  /\ cached # config
  /\ cached' = config
  /\ queued' = TRUE
  /\ UNCHANGED <<config, version, refSet, infraReady, secret, newest, rec, update, hook, applied,
                 counters>>

\* Variant: a change of the Cluster reaches no TalosConfig.
ProvisionUnseen ==
  /\ ~infraReady
  /\ infraReady' = TRUE
  /\ UNCHANGED <<config, cached, version, refSet, secret, newest, queued, rec, update, hook,
                 applied, counters>>

\* ClusterToTalosConfigs: the TalosConfigs of the cluster are enqueued.
ProvisionInfrastructure ==
  /\ ~infraReady
  /\ infraReady' = TRUE
  /\ queued' = TRUE
  /\ UNCHANGED <<config, cached, version, refSet, secret, newest, rec, update, hook, applied,
                 counters>>

\* Cluster API sets the reference once the status says so, and the node boots on the secret; the
\* change of the Machine enqueues its TalosConfig.
SetReference ==
  /\ config.created
  /\ secret # None
  /\ ~refSet
  /\ refSet' = TRUE
  /\ applied' = secret.data
  /\ queued' = TRUE
  /\ UNCHANGED <<config, cached, version, infraReady, secret, newest, rec, update, hook, counters>>

\* The Image Factory publishes a newer patch.
Release ==
  /\ newest < MaxReleases
  /\ newest' = newest + 1
  /\ calm' = (calm /\ rec.at = "idle" /\ cached = config)
  /\ UNCHANGED <<config, cached, version, refSet, infraReady, secret, queued, rec, update, hook,
                 applied, updates, upsets>>

\* clusterctl move, which works on paused objects, recreates them without their status.
Move ==
  /\ Fault
  /\ rec.at = "idle"
  /\ hook.at = "idle"
  /\ refSet
  /\ config' = [config EXCEPT !.created = FALSE, !.pin = None]
  /\ cached' = config'
  /\ queued' = TRUE
  /\ UNCHANGED <<version, refSet, infraReady, secret, newest, rec, update, hook, applied>>

----------------------------------------------------------------------------
(* An in-place update: the owner writes, Cluster API polls the hook. *)

ownerUnchanged == <<cached, refSet, infraReady, secret, newest, rec, hook, applied>>

\* Variant: the annotation makes no difference.
AdmitsOwnedOnly(old, new) == new.owned \/ new.spec = old.spec

\* ValidateUpdate: a spec changes during an in-place update, or when the topology owns the object.
Admits(old, new) == new.inPlace \/ new.owned \/ new.spec = old.spec

\* Someone else than the owner of an update tries to change the spec; while one is under way its
\* owner is taken to be the only writer.  An edit that races with the first render is not calm.
EditSpec ==
  /\ Upset
  /\ update.at = "none"
  /\ \E s \in Specs \ {config.spec} : config' = [config EXCEPT !.spec = s]
  /\ Admits(config, config')
  /\ calm' = (calm /\ cached.created)
  /\ UNCHANGED <<queued, version, update, ownerUnchanged>>

\* The owner stamps update-in-progress, for a new spec, a new version or both.  It is not calm to
\* update a Machine whose spec somebody has edited since it was rendered.
StampUpdate ==
  /\ update.at = "none"
  /\ updates < MaxUpdates
  /\ refSet
  /\ \E s \in Specs, v \in Versions :
       /\ s # config.spec \/ v # version
       /\ update' = [at |-> "stamped", spec |-> s, version |-> v]
  /\ config' = [config EXCEPT !.inPlace = TRUE]
  /\ updates' = updates + 1
  /\ calm' = (calm /\ secret.data.spec = config.spec)
  /\ UNCHANGED <<version, queued, upsets, ownerUnchanged>>

WriteConfigSpec ==
  /\ update.at = "stamped"
  /\ config' = [config EXCEPT !.spec = update.spec]
  /\ Admits(config, config')
  /\ update' = [update EXCEPT !.at = "written"]
  /\ UNCHANGED <<version, queued, counters, ownerUnchanged>>

\* Variant: a change of the Machine enqueues nothing.
WriteMachineUnseen ==
  /\ update.at = "written"
  /\ version' = update.version
  /\ update' = [update EXCEPT !.at = "pending"]
  /\ UNCHANGED <<config, queued, counters, ownerUnchanged>>

\* The Machine is written last, with the hook marked pending; the change enqueues its TalosConfig
\* (MachineToBootstrapMapFunc).
WriteMachine ==
  /\ update.at = "written"
  /\ version' = update.version
  /\ update' = [update EXCEPT !.at = "pending"]
  /\ queued' = TRUE
  /\ UNCHANGED <<config, counters, ownerUnchanged>>

\* desiredConfig, first half: the secret.
HookReadsSecret ==
  /\ update.at = "pending"
  /\ hook.at = "idle"
  /\ secret # None
  /\ hook' = [at |-> "check", secret |-> secret]
  /\ UNCHANGED <<config, cached, version, refSet, infraReady, secret, newest, queued, rec, update,
                 applied, counters>>

\* Variant: the hook takes whatever secret it finds.
HookTakesAny == TRUE

\* installerImage: the image recorded on the TalosConfig, which the hook finds in the cache.
HookInstallerImage == cached.pin

HookFindsFresh ==
  hook.secret.hash = DesiredConfigHash(update.spec, update.version, HookInstallerImage)

\* desiredConfig, second half: a fresh secret is applied and the update completes; its
\* annotation is removed.  The call returns without effect while the secret is stale.
HookChecks ==
  /\ hook.at = "check"
  /\ hook' = NoHook
  /\ IF HookFindsFresh
       THEN /\ applied' = hook.secret.data
            /\ update' = [update EXCEPT !.at = "none"]
            /\ config' = [config EXCEPT !.inPlace = FALSE]
       ELSE UNCHANGED <<applied, update, config>>
  /\ UNCHANGED <<cached, version, refSet, infraReady, secret, newest, queued, rec, counters>>

----------------------------------------------------------------------------

Reconcile == ReadConfig \/ ReadOwner \/ ResolveImage \/ WriteSecret \/ PatchStatus

Next ==
  \/ Reconcile
  \/ FailResolve
  \/ FailWrite
  \/ Retry
  \/ Restart
  \/ SyncCache
  \/ ProvisionInfrastructure
  \/ SetReference
  \/ Release
  \/ Move
  \/ EditSpec
  \/ StampUpdate
  \/ WriteConfigSpec
  \/ WriteMachine
  \/ HookReadsSecret
  \/ HookChecks

Spec == Init /\ [][Next]_vars

\* The work queue is served, caches catch up, infrastructure is provisioned, Cluster API sets the
\* reference, finishes the writes of an update it started, and polls the hook.
FairSpec ==
  /\ Spec
  /\ WF_vars(Reconcile)
  /\ WF_vars(SyncCache)
  /\ WF_vars(ProvisionInfrastructure)
  /\ WF_vars(SetReference)
  /\ WF_vars(WriteConfigSpec)
  /\ WF_vars(WriteMachine)
  /\ WF_vars(HookReadsSecret \/ HookChecks)

----------------------------------------------------------------------------
(* Properties. *)

\* When an update completes, the node has a configuration rendered from the spec and for the
\* version the owner asked for, though the owner writes them one after the other, reconciles read
\* them from different places, and the hook reads the secret and the image at different times
\* (desiredConfig, InPlaceConfigHash).
CompletionMatchesRequest ==
  [][update.at = "pending" /\ update'.at = "none" =>
       /\ applied'.spec = update.spec
       /\ applied'.version = KubernetesVersion(update.version)]_vars

\* A Machine that is not being updated keeps the bootstrap data it was created with, however stale
\* what a reconcile has read (rewritesBootstrapData, writeBootstrapData).  It holds in a calm
\* environment: a reconcile that read the annotation before it was removed may otherwise write what
\* it resolves to a patch published since.
DataIsFrozen == [][calm /\ secret # None /\ secret' # secret => config.inPlace]_vars

\* In a calm environment the installer image of a Machine changes only with its spec.talosVersion
\* or its schematic: a patch the Image Factory publishes later does not move it
\* (resolveImageFactory; the decision on versions in
\* docs/design/2026-09-12-image-factory-schematic.md).
ImageIsPinned ==
  [][calm /\ secret # None /\ secret' # secret
       /\ secret.data.image # None /\ secret'.data.image # None
       /\ secret.data.image.inputs = secret'.data.image.inputs
     => secret'.data.image = secret.data.image]_vars

\* In a calm environment, with nothing under way, the image recorded in status is the one rendered
\* into the bootstrap data (ImageFactoryStatus, reconcileGenerate).
StatusImageIsRendered ==
  (calm /\ rec.at = "idle" /\ ~config.inPlace /\ config.created /\ config.pin # None) =>
    config.pin = secret.data.image

\* A Machine gets its bootstrap data (Reconcile).
DataIsCreated == <>(refSet /\ secret # None)

\* An in-place update gets a secret the hook takes for fresh, and completes: no reconcile is
\* missed, and renderer and hook agree on the hash (renderedConfigHash, desiredConfigHash).
UpdateCompletes == (update.at # "none") ~> (update.at = "none")
=============================================================================
