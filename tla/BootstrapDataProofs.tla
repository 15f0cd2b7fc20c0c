------------------------ MODULE BootstrapDataProofs ------------------------
(***************************************************************************)
(* Whatever specs there are, however the Image Factory names its images,   *)
(* and however many updates and upsets there are: an in-place update       *)
(* completes on what its owner asked for; and in a calm environment status *)
(* names the image that was rendered, data changes during an update only,  *)
(* and the image moves only with what it is resolved from.                 *)
(*                                                                         *)
(* The hook compares hashes and hands on bytes, at different times and     *)
(* against what it finds in two places.  That it may do so rests on the    *)
(* secret: its bytes and its hash always belong together, because they are *)
(* written in one patch, and so do those of the copy the hook has read.    *)
(*                                                                         *)
(* The calm part follows the data through three phases (Calmly): nothing   *)
(* is rendered, the first data is rendered and not yet recorded, and it is *)
(* recorded.  From then on status is the image of the data, but for one    *)
(* reconcile that has rendered for an update and is about to record it     *)
(* (Pinning).                                                              *)
(***************************************************************************)
EXTENDS BootstrapData, TLAPS

\* The bytes of a secret are those its hash is of, and no configuration is for no version.
Consistent(s) == s # None => s.data = s.hash /\ s.hash.version # Unset

\* The inductive invariant.
Inv ==
  /\ TypeOK
  /\ Consistent(secret)
  /\ Consistent(hook.secret)
  /\ hook.at = "check" => hook.secret # None
  /\ rec.at # "idle" => rec.read \in ConfigRecords

----------------------------------------------------------------------------

LEMMA ResolveType ==
  ASSUME TypeOK, NEW s \in Specs, NEW current \in ImageRecords \cup {None}
  PROVE  Resolve(s, current) \in ImageRecords \cup {None}
<1>1. CASE InputsOf[s] = None
  BY <1>1 DEF Resolve
<1>2. CASE InputsOf[s] # None
  <2>1. InputsOf[s] \in Inputs
    BY <1>2 DEF Inputs
  <2>2. newest \in 0 .. MaxReleases /\ 0 \in 0 .. MaxReleases
    BY DataAssumption DEF TypeOK
  <2>3. ImageFor(InputsOf[s]) \in ImageRecords
    BY <2>1, <2>2 DEF ImageFor, ImageRecords
  <2> QED BY <1>2, <2>3 DEF Resolve
<1> QED BY <1>1, <1>2

LEMMA VersionType ==
  ASSUME NEW v \in Versions
  PROVE  KubernetesVersion(v) \in Versions \ {Unset}
BY DataAssumption DEF KubernetesVersion

\* What a reconcile that has read its config renders is a configuration, for some version.
LEMMA RenderedType ==
  ASSUME TypeOK, rec.read \in ConfigRecords
  PROVE  /\ RecRendered \in HashInputs
         /\ RecHash = RecRendered
         /\ RecHash.version # Unset
<1>1. rec.read.spec \in Specs /\ rec.version \in Versions /\ rec.pin \in ImageRecords \cup {None}
  BY DEF TypeOK, ConfigRecords
<1> QED BY <1>1, VersionType DEF RecRendered, RecHash, Rendered, InPlaceConfigHash, HashInputs

LEMMA WriteIsConsistent ==
  ASSUME Inv, rec.at = "write", PutSecret
  PROVE  secret' \in Secrets \cup {None} /\ Consistent(secret)'
<1>1. TypeOK /\ Consistent(secret) /\ rec.read \in ConfigRecords
  BY DEF Inv
<1>2. CASE secret' = secret
  BY <1>1, <1>2 DEF TypeOK, Consistent
<1>3. CASE secret' = [data |-> RecRendered, hash |-> RecHash]
  BY <1>1, <1>3, RenderedType DEF Consistent, Secrets
<1> QED BY <1>2, <1>3 DEF PutSecret

LEMMA InitInv == Init => Inv
<1> SUFFICES ASSUME Init PROVE Inv
  OBVIOUS
<1>1. Default \in Versions /\ 0 \in 0 .. MaxReleases /\ 0 \in 0 .. MaxUpdates /\ 0 \in 0 .. MaxUpsets
  BY DataAssumption
<1>2. config \in ConfigRecords /\ config.spec \in Specs /\ version \in Versions
  BY DataAssumption DEF Init, ConfigRecords
<1>3. TypeOK
  BY <1>1, <1>2 DEF Init, TypeOK, NoReconcile, NoHook
<1> QED BY <1>3 DEF Init, Inv, Consistent, NoReconcile, NoHook

\* One step of the reconcile.
LEMMA ReconcileKeepsInv ==
  ASSUME Inv, Reconcile
  PROVE  Inv'
<1>1. TypeOK /\ (rec.at # "idle" => rec.read \in ConfigRecords)
  BY DEF Inv
<1>2. Default \in Versions
  BY DataAssumption
<1>3. CASE ReadConfig
  BY ZenonT(60), <1>1, <1>2, <1>3 DEF ReadConfig, Inv, TypeOK, NoReconcile, environment, counters, Consistent
<1>4. CASE ReadOwner
  <2>1. rec.read \in ConfigRecords /\ rec.read.pin \in ImageRecords \cup {None} /\ version \in Versions
    BY <1>1, <1>4 DEF ReadOwner, ConfigRecords, TypeOK
  <2>2. \/ rec' = NoReconcile
        \/ rec' = [rec EXCEPT !.at = "patch", !.pin = rec.read.pin, !.created = TRUE]
        \/ rec' = [rec EXCEPT !.at = "resolve", !.version = version]
    BY <1>4, Zenon DEF ReadOwner
  <2>3. UNCHANGED <<config, secret, queued, environment, counters>>
    BY <1>4, Zenon DEF ReadOwner
  <2>4. CASE rec' = NoReconcile
    BY <1>1, <1>2, <2>3, <2>4 DEF Inv, TypeOK, NoReconcile, environment, counters, Consistent
  <2>5. CASE rec' = [rec EXCEPT !.at = "patch", !.pin = rec.read.pin, !.created = TRUE]
    BY ZenonT(60), <1>1, <2>1, <2>3, <2>5 DEF Inv, TypeOK, environment, counters, Consistent
  <2>6. CASE rec' = [rec EXCEPT !.at = "resolve", !.version = version]
    BY ZenonT(60), <1>1, <2>1, <2>3, <2>6 DEF Inv, TypeOK, environment, counters, Consistent
  <2> QED BY <2>2, <2>4, <2>5, <2>6
<1>5. CASE ResolveImage
  <2>1. rec.read.spec \in Specs /\ rec.read.pin \in ImageRecords \cup {None}
    BY <1>1, <1>5 DEF ResolveImage, ConfigRecords
  <2> DEFINE pin == Resolve(rec.read.spec, rec.read.pin)
  <2>2. pin \in ImageRecords \cup {None}
    BY <1>1, <2>1, ResolveType
  <2>3. /\ rec' = [rec EXCEPT !.pin = pin, !.at = "write"]
        /\ rec.read \in ConfigRecords
        /\ UNCHANGED <<config, secret, queued, environment, counters>>
    BY <1>1, <1>5 DEF ResolveImage
  <2> HIDE DEF pin
  <2>4. TypeOK'
    <3>1. rec' \in [at : {"idle", "owner", "resolve", "write", "patch"},
                    read : ConfigRecords \cup {None}, version : Versions,
                    pin : ImageRecords \cup {None}, created : BOOLEAN, retry : BOOLEAN]
      BY <1>1, <2>2, <2>3 DEF TypeOK
    <3> QED BY <1>1, <2>3, <3>1 DEF TypeOK, environment, counters
  <2>5. rec'.read = rec.read
    BY <1>1, <2>3 DEF TypeOK
  <2> QED BY <2>3, <2>4, <2>5 DEF Inv, environment, Consistent
<1>6. CASE WriteSecret
  <2>1. secret' \in Secrets \cup {None} /\ Consistent(secret)'
    BY <1>6, WriteIsConsistent DEF WriteSecret
  <2> QED
    BY ZenonT(60), <1>1, <1>6, <2>1 DEF WriteSecret, Inv, TypeOK, environment, counters, Consistent
<1>7. CASE PatchStatus
  <2>1. Patched(config) \in ConfigRecords
    BY <1>1 DEF Patched, TypeOK, ConfigRecords
  <2> QED
    BY <1>1, <1>2, <1>7, <2>1
    DEF PatchStatus, Inv, TypeOK, NoReconcile, environment, counters, Consistent
<1> QED BY <1>3, <1>4, <1>5, <1>6, <1>7 DEF Reconcile

\* What goes wrong: failing calls, lost patches, restarts and moves.
LEMMA FaultKeepsInv ==
  ASSUME Inv, FailResolve \/ FailWrite \/ Retry \/ Restart \/ Move
  PROVE  Inv'
<1>1. TypeOK /\ (rec.at # "idle" => rec.read \in ConfigRecords)
  BY DEF Inv
<1>2. Default \in Versions
  BY DataAssumption
<1>3. upsets' \in 0 .. MaxUpsets /\ calm' \in BOOLEAN /\ updates' = updates
  <2>1. Fault
    BY DEF FailResolve, FailWrite, Retry, Restart, Move
  <2>2. upsets \in 0 .. MaxUpsets /\ MaxUpsets \in Nat
    BY <1>1, DataAssumption DEF TypeOK
  <2>3. upsets' = upsets + 1 /\ upsets < MaxUpsets /\ updates' = updates /\ calm' = FALSE
    BY <2>1 DEF Fault, Upset
  <2>4. upsets' \in 0 .. MaxUpsets
    BY <2>2, <2>3
  <2>5. calm' \in BOOLEAN
    BY <2>3, Zenon
  <2> QED BY <2>3, <2>4, <2>5
<1>4. CASE FailResolve
  <2>1. rec.read.pin \in ImageRecords \cup {None} /\ rec.read.created \in BOOLEAN
    BY <1>1, <1>4 DEF FailResolve, ConfigRecords
  <2> QED
    BY ZenonT(60), <1>1, <1>3, <1>4, <2>1 DEF FailResolve, FailToPatch, Inv, TypeOK, environment, Consistent
<1>5. CASE FailWrite
  <2>1. secret' \in Secrets \cup {None} /\ Consistent(secret)'
    BY <1>1, <1>5, WriteIsConsistent DEF FailWrite, Inv, TypeOK, Consistent
  <2>2. rec.read.created \in BOOLEAN /\ rec.pin \in ImageRecords \cup {None}
    BY <1>1, <1>5 DEF FailWrite, ConfigRecords, TypeOK
  <2> QED
    BY <1>1, <1>3, <1>5, <2>1, <2>2
    DEF FailWrite, FailToPatch, Inv, TypeOK, environment, Consistent
<1>6. CASE Retry
  BY <1>1, <1>2, <1>3, <1>6 DEF Retry, Inv, TypeOK, NoReconcile, environment, Consistent
<1>7. CASE Restart
  BY <1>1, <1>2, <1>3, <1>7 DEF Restart, Inv, TypeOK, NoReconcile, NoHook, Consistent
<1>8. CASE Move
  <2>1. config' \in ConfigRecords
    BY <1>1, <1>8 DEF Move, TypeOK, ConfigRecords
  <2> QED
    BY <1>1, <1>3, <1>8, <2>1 DEF Move, Inv, TypeOK, Consistent
<1> QED BY <1>4, <1>5, <1>6, <1>7, <1>8

\* What the owner, the hook and the rest of the world do.
LEMMA EnvironmentKeepsInv ==
  ASSUME Inv,
         \/ SyncCache \/ ProvisionInfrastructure \/ SetReference \/ Release \/ EditSpec
         \/ StampUpdate \/ WriteConfigSpec \/ WriteMachine \/ HookReadsSecret \/ HookChecks
  PROVE  Inv'
<1>1. TypeOK
  BY DEF Inv
<1>2. CASE SyncCache
  BY <1>1, <1>2 DEF SyncCache, Inv, TypeOK, counters, Consistent
<1>3. CASE ProvisionInfrastructure
  BY <1>1, <1>3 DEF ProvisionInfrastructure, Inv, TypeOK, counters, Consistent
<1>4. CASE SetReference
  BY <1>1, <1>4 DEF SetReference, Inv, TypeOK, Secrets, counters, Consistent
<1>5. CASE Release
  BY <1>1, <1>5, DataAssumption DEF Release, Inv, TypeOK, Consistent
<1>6. CASE EditSpec
  <2>1. config' \in ConfigRecords
    BY <1>1, <1>6 DEF EditSpec, TypeOK, ConfigRecords
  <2>2. upsets' \in 0 .. MaxUpsets /\ calm' \in BOOLEAN
    BY <1>1, <1>6, DataAssumption DEF EditSpec, Upset, TypeOK
  <2> QED
    BY <1>1, <1>6, <2>1, <2>2 DEF EditSpec, Upset, Inv, TypeOK, ownerUnchanged, Consistent
<1>7. CASE StampUpdate
  <2>1. config' \in ConfigRecords
    BY <1>1, <1>7 DEF StampUpdate, TypeOK, ConfigRecords
  <2>2. updates' \in 0 .. MaxUpdates /\ calm' \in BOOLEAN
    BY <1>1, <1>7, DataAssumption DEF StampUpdate, TypeOK
  <2> QED
    BY <1>1, <1>7, <2>1, <2>2 DEF StampUpdate, Inv, TypeOK, ownerUnchanged, Consistent
<1>8. CASE WriteConfigSpec
  <2>1. config' \in ConfigRecords
    BY <1>1, <1>8 DEF WriteConfigSpec, TypeOK, ConfigRecords
  <2> QED
    BY <1>1, <1>8, <2>1 DEF WriteConfigSpec, Inv, TypeOK, ownerUnchanged, counters, Consistent
<1>9. CASE WriteMachine
  BY <1>1, <1>9 DEF WriteMachine, Inv, TypeOK, ownerUnchanged, counters, Consistent
<1>10. CASE HookReadsSecret
  BY <1>1, <1>10 DEF HookReadsSecret, Inv, TypeOK, counters, Consistent
<1>11. CASE HookChecks
  <2>1. hook.secret # None
    BY <1>11 DEF HookChecks, Inv
  <2>2. hook.secret.data \in HashInputs
    BY <1>1, <2>1 DEF TypeOK, Secrets
  <2>3. applied' \in HashInputs \cup {None} /\ config' \in ConfigRecords
    BY ZenonT(60), <1>1, <1>11, <2>2 DEF HookChecks, TypeOK, ConfigRecords
  <2> QED
    BY <1>1, <1>11, <2>3 DEF HookChecks, Inv, TypeOK, NoHook, counters, Consistent
<1> QED BY <1>2, <1>3, <1>4, <1>5, <1>6, <1>7, <1>8, <1>9, <1>10, <1>11

LEMMA Invariance == Spec => []Inv
<1>1. Inv /\ [Next]_vars => Inv'
  <2> SUFFICES ASSUME Inv, [Next]_vars PROVE Inv'
    OBVIOUS
  <2>1. CASE UNCHANGED vars
    BY <2>1 DEF vars, Inv, TypeOK, Consistent
  <2>2. CASE Next
    BY <2>2, ReconcileKeepsInv, FaultKeepsInv, EnvironmentKeepsInv DEF Next
  <2> QED BY <2>1, <2>2
<1> QED BY <1>1, InitInv, PTL DEF Spec

\* Every variable keeps its type.
THEOREM TypeCorrect == Spec => []TypeOK
<1>1. Inv => TypeOK
  BY DEF Inv
<1> QED BY <1>1, Invariance, PTL

\* An in-place update completes on a configuration of the spec and for the version it asked for,
\* whatever came between the hook's two looks and the writes of owner and reconciles.
THEOREM CompletionIsRight == Spec => CompletionMatchesRequest
<1> DEFINE Matches ==
      update.at = "pending" /\ update'.at = "none" =>
        /\ applied'.spec = update.spec
        /\ applied'.version = KubernetesVersion(update.version)
<1>1. Inv /\ [Next]_vars => [Matches]_vars
  <2> SUFFICES ASSUME Inv, Next, update.at = "pending", update'.at = "none"
               PROVE  /\ applied'.spec = update.spec
                      /\ applied'.version = KubernetesVersion(update.version)
    OBVIOUS
  <2>1. HookChecks
    <3>1. update' # update
      OBVIOUS
    <3> QED
      BY <3>1
      DEF Next, Reconcile, ReadConfig, ReadOwner, ResolveImage, WriteSecret, PatchStatus,
          FailResolve, FailWrite, Retry, Restart, Move, SyncCache, ProvisionInfrastructure,
          SetReference, Release, EditSpec, StampUpdate, WriteConfigSpec, WriteMachine,
          HookReadsSecret, environment, counters, ownerUnchanged
  <2>2. HookFindsFresh /\ applied' = hook.secret.data
    BY <2>1 DEF HookChecks
  <2>3. /\ hook.secret.data = DesiredConfigHash(update.spec, update.version, HookInstallerImage)
        /\ hook.secret.data.version # Unset
    BY <2>1, <2>2 DEF HookChecks, HookFindsFresh, Inv, Consistent
  <2>4. applied'.spec = update.spec /\ applied'.version = update.version
    BY <2>2, <2>3 DEF DesiredConfigHash, InPlaceConfigHash
  <2> QED BY <2>2, <2>3, <2>4 DEF KubernetesVersion
<1> QED BY <1>1, Invariance, PTL DEF Spec, CompletionMatchesRequest

----------------------------------------------------------------------------
(* In a calm environment. *)

image == secret.data.image

\* The image p is one of what s asks for.
Fits(p, s) == IF InputsOf[s] = None THEN p = None ELSE p # None /\ p.inputs = InputsOf[s]

Writing == update.at \in {"written", "pending"}

\* No data is rendered yet, or it is rendered and not recorded in status.
Untouched ==
  /\ ~config.created
  /\ ~config.inPlace
  /\ config.pin = None
  /\ cached = config
  /\ ~refSet
  /\ update.at = "none"
  /\ hook.at = "idle"

Unrendered ==
  /\ secret = None
  /\ Untouched
  /\ rec.at # "patch"
  /\ rec.at # "idle" => rec.read = config
  /\ rec.at \in {"resolve", "write"} => rec.version = version

Unrecorded ==
  /\ Untouched
  /\ rec.at = "patch"
  /\ rec.read = config
  /\ rec.created
  /\ rec.pin = image
  /\ secret.data.spec = config.spec
  /\ secret.data.version = KubernetesVersion(version)
  /\ Resolve(config.spec, None) = image

\* A TalosConfig as it was read once renders what the secret has: as it was before its data was
\* recorded, or as it was in an update, on the spec of the secret or on the new one, with the image
\* of the secret still recorded.
EarlyIsRight(c) ==
  ~c.created => /\ ~c.inPlace
                /\ c.pin = None
                /\ c.spec = secret.data.spec
                /\ Resolve(c.spec, None) = image

LateIsRight(c) ==
  c.inPlace => \/ c.spec = secret.data.spec /\ Resolve(c.spec, c.pin) = image
               \/ c.spec = config.spec /\ c.pin = image /\ Writing

IsRight(c) == EarlyIsRight(c) /\ LateIsRight(c)

\* The update, and what the hook makes of it.
UpdateIsOrderly ==
  /\ config.inPlace <=> update.at # "none"
  /\ update.at = "stamped" => config.spec = secret.data.spec
  /\ Writing => config.spec = update.spec
  /\ update.at = "pending" => version = update.version
  /\ update.at # "pending" => secret.data.version = KubernetesVersion(version)

OnTarget(s) == s.data.spec = update.spec /\ s.data.version = KubernetesVersion(update.version)

HookIsCurrent ==
  hook.at = "check" => update.at = "pending" /\ (OnTarget(hook.secret) => hook.secret = secret)

\* The reconcile, up to its write.
ReadIsRight ==
  rec.at \in {"owner", "resolve", "write"} =>
    /\ IsRight(rec.read)
    /\ ~cached.created => ~rec.read.created
    /\ rec.read.inPlace /\ rec.read.spec # secret.data.spec =>
         cached.inPlace /\ cached.spec = config.spec

RenderIsRight ==
  rec.at \in {"resolve", "write"} =>
    /\ rec.read.created => rec.read.inPlace
    /\ secret.data.version = KubernetesVersion(version) =>
         KubernetesVersion(rec.version) = KubernetesVersion(version)

\* And after it.
PatchIsRight ==
  rec.at = "patch" =>
    /\ rec.created
    /\ rec.pin = image \/ (~rec.read.created /\ rec.pin = rec.read.pin)

\* The image of the secret is recorded, or about to be.
Pinning ==
  /\ rec.at = "patch"
  /\ rec.pin = image
  /\ rec.read.pin # image
  /\ cached.inPlace
  /\ cached.spec = config.spec
  /\ cached.pin = config.pin
  /\ config.spec = secret.data.spec
  /\ Writing

PinIsRight == config.pin = image \/ Pinning

Recorded ==
  /\ config.created
  /\ UpdateIsOrderly
  /\ HookIsCurrent
  /\ IsRight(cached)
  /\ ReadIsRight
  /\ RenderIsRight
  /\ PatchIsRight
  /\ PinIsRight

\* A reconcile renders what its config resolves to at the present state of the Image Factory.
ResolvedNow == rec.at = "write" => rec.pin = Resolve(rec.read.spec, rec.read.pin)

Rendering == secret # None => Fits(image, secret.data.spec)

Calmly ==
  /\ ResolvedNow
  /\ Rendering
  /\ Unrendered \/ (secret # None /\ (Unrecorded \/ Recorded))

CalmInv == calm => Calmly

\* What is resolved is an image of what the spec asks for, and an image of that is kept.
LEMMA ResolveFits ==
  ASSUME TypeOK, NEW s \in Specs, NEW p \in ImageRecords \cup {None}
  PROVE  /\ Fits(Resolve(s, p), s)
         /\ Fits(p, s) => Resolve(s, p) = p
<1>1. InputsOf[s] # None => ImageFor(InputsOf[s]) \in ImageRecords
  BY DataAssumption DEF TypeOK, Inputs, ImageFor, ImageRecords
<1>2. ImageFor(InputsOf[s]).inputs = InputsOf[s]
  BY DEF ImageFor
<1> QED BY <1>1, <1>2, DataAssumption DEF Resolve, Fits

\* Of what goes wrong, nothing is calm.
LEMMA CalmStep ==
  ASSUME TypeOK, calm', Next
  PROVE  /\ calm
         /\ ~(FailResolve \/ FailWrite \/ Retry \/ Restart \/ Move)
<1>1. ~Fault
  BY DEF Fault
<1>2. ~(FailResolve \/ FailWrite \/ Retry \/ Restart \/ Move)
  BY <1>1 DEF FailResolve, FailWrite, Retry, Restart, Move
<1> QED
  BY <1>2
  DEF Next, Reconcile, ReadConfig, ReadOwner, ResolveImage, WriteSecret, PatchStatus, SyncCache,
      ProvisionInfrastructure, SetReference, Release, EditSpec, StampUpdate, WriteConfigSpec,
      WriteMachine, HookReadsSecret, HookChecks, counters, TypeOK

LEMMA UnrenderedStep ==
  ASSUME Inv, Calmly, Unrendered, calm', Next
  PROVE  Calmly'
<1>1. TypeOK /\ calm /\ ~(FailResolve \/ FailWrite \/ Retry \/ Restart \/ Move)
  BY CalmStep DEF Inv
<1>2. CASE ReadConfig
  BY <1>2 DEF ReadConfig, Calmly, Unrendered, Untouched, ResolvedNow, Rendering, NoReconcile,
     environment
<1>3. CASE ReadOwner
  <2>1. rec.read = config /\ rec.at = "owner"
    BY <1>3 DEF ReadOwner, Unrendered
  <2>2. rec' = NoReconcile \/ rec' = [rec EXCEPT !.at = "resolve", !.version = version]
    BY <1>3, <2>1 DEF ReadOwner, Unrendered, Untouched
  <2>3. UNCHANGED <<config, secret, environment>>
    BY <1>3, Zenon DEF ReadOwner
  <2>4. \/ rec'.at = "idle"
        \/ rec'.at = "resolve" /\ rec'.read = rec.read /\ rec'.version = version
    <3>1. CASE rec' = NoReconcile
      BY <3>1 DEF NoReconcile
    <3>2. CASE rec' = [rec EXCEPT !.at = "resolve", !.version = version]
      BY <1>1, <3>2 DEF TypeOK
    <3> QED BY <2>2, <3>1, <3>2
  <2> QED
    BY <2>1, <2>3, <2>4
    DEF Calmly, Unrendered, Untouched, ResolvedNow, Rendering, environment
<1>4. CASE ResolveImage
  <2>1. /\ rec.at = "resolve" /\ rec'.at = "write" /\ rec'.read = rec.read
        /\ rec'.version = rec.version
        /\ rec'.pin = Resolve(rec.read.spec, rec.read.pin)
    BY <1>1, <1>4 DEF ResolveImage, TypeOK
  <2> QED
    BY <1>4, <2>1
    DEF ResolveImage, Calmly, Unrendered, Untouched, ResolvedNow, Rendering, environment,
        Resolve, ImageFor
<1>5. CASE WriteSecret
  <2>1. /\ secret' = [data |-> RecRendered, hash |-> RecHash]
        /\ rec.at = "write" /\ rec'.at = "patch" /\ rec'.read = rec.read /\ rec'.created
        /\ rec'.pin = rec.pin
    BY <1>1, <1>5 DEF WriteSecret, PutSecret, Unrendered, TypeOK
  <2>2. rec.read = config /\ rec.version = version /\ config.pin = None
        /\ rec.pin = Resolve(config.spec, None)
    BY <2>1 DEF Unrendered, Untouched, Calmly, ResolvedNow
  <2>3. /\ secret'.data.spec = config.spec
        /\ secret'.data.version = KubernetesVersion(version)
        /\ secret'.data.image = rec.pin
    BY <2>1, <2>2 DEF RecRendered, Rendered
  <2>4. config.spec \in Specs /\ None \in ImageRecords \cup {None}
    BY <1>1 DEF TypeOK, ConfigRecords
  <2>5. Fits(rec.pin, config.spec)
    BY <1>1, <2>2, <2>4, ResolveFits
  <2>6. secret' # None
    BY <1>1, <1>5, <2>1, RenderedType, DataAssumption DEF Secrets, Inv
  <2>7. UNCHANGED <<config, environment>>
    BY <1>5 DEF WriteSecret
  <2>8. Rendering' /\ ResolvedNow'
    BY <2>1, <2>3, <2>5 DEF Rendering, ResolvedNow, Fits, image
  <2>9. Unrecorded'
    BY <2>1, <2>2, <2>3, <2>7
    DEF Unrecorded, Unrendered, Untouched, environment, image, KubernetesVersion, Resolve, ImageFor
  <2> QED BY <2>6, <2>8, <2>9 DEF Calmly
<1>6. CASE ProvisionInfrastructure
  BY <1>6
  DEF ProvisionInfrastructure, Calmly, Unrendered, Untouched, ResolvedNow, Rendering, Resolve, ImageFor
<1>7. CASE Release
  <2>1. rec.at = "idle"
    BY <1>7 DEF Release
  <2> QED
    BY <1>7, <2>1 DEF Release, Calmly, Unrendered, Untouched, ResolvedNow, Rendering
<1>8. ~(PatchStatus \/ SyncCache \/ SetReference \/ EditSpec \/ StampUpdate \/ WriteConfigSpec
        \/ WriteMachine \/ HookReadsSecret \/ HookChecks)
  BY DEF Unrendered, Untouched, PatchStatus, SyncCache, SetReference, EditSpec, StampUpdate,
     WriteConfigSpec, WriteMachine, HookReadsSecret, HookChecks
<1> QED BY <1>1, <1>2, <1>3, <1>4, <1>5, <1>6, <1>7, <1>8 DEF Next, Reconcile

LEMMA UnrecordedStep ==
  ASSUME Inv, Calmly, secret # None, Unrecorded, calm', Next
  PROVE  Calmly'
<1>1. TypeOK /\ calm /\ ~(FailResolve \/ FailWrite \/ Retry \/ Restart \/ Move)
  BY CalmStep DEF Inv
<1>2. CASE PatchStatus
  <2>1. /\ config'.created
        /\ config'.pin = image
        /\ config'.spec = config.spec
        /\ config'.inPlace = config.inPlace
    BY <1>1, <1>2 DEF PatchStatus, Patched, Unrecorded, Untouched, TypeOK, ConfigRecords
  <2>2. rec'.at = "idle" /\ UNCHANGED <<secret, environment>>
    BY <1>2 DEF PatchStatus, NoReconcile
  <2>3. IsRight(cached)'
    BY <2>1, <2>2
    DEF IsRight, EarlyIsRight, LateIsRight, Unrecorded, Untouched, environment, image, Resolve, ImageFor
  <2>4. UpdateIsOrderly' /\ HookIsCurrent'
    BY <2>1, <2>2
    DEF UpdateIsOrderly, Writing, HookIsCurrent, Unrecorded, Untouched, environment, KubernetesVersion
  <2>5. Recorded'
    BY <2>1, <2>2, <2>3, <2>4
    DEF Recorded, ReadIsRight, RenderIsRight, PatchIsRight, PinIsRight, image
  <2>6. ResolvedNow' /\ Rendering'
    BY <2>2 DEF ResolvedNow, Rendering, Calmly, image, Fits
  <2> QED BY <2>2, <2>5, <2>6 DEF Calmly
<1>3. CASE ProvisionInfrastructure
  BY <1>3
  DEF ProvisionInfrastructure, Calmly, Unrecorded, Untouched, ResolvedNow, Rendering, image, Fits,
      KubernetesVersion, Resolve, ImageFor
<1>4. ~(Release \/ ReadConfig \/ ReadOwner \/ ResolveImage \/ WriteSecret \/ SyncCache
        \/ SetReference \/ EditSpec \/ StampUpdate \/ WriteConfigSpec \/ WriteMachine
        \/ HookReadsSecret \/ HookChecks)
  BY DEF Unrecorded, Untouched, Release, ReadConfig, ReadOwner, ResolveImage, WriteSecret,
     SyncCache, SetReference, EditSpec, StampUpdate, WriteConfigSpec, WriteMachine,
     HookReadsSecret, HookChecks
<1> QED BY <1>1, <1>2, <1>3, <1>4 DEF Next, Reconcile

\* What Calmly says once the image is recorded, as one word.
Running == Inv /\ ResolvedNow /\ Rendering /\ secret # None /\ Recorded

\* The steps of the reconcile.
LEMMA ReadConfigStaysCalm ==
  ASSUME Running, ReadConfig
  PROVE  Calmly'
<1>1. rec'.at = "owner" /\ rec'.read = cached /\ UNCHANGED <<config, secret, environment>>
  BY DEF ReadConfig, NoReconcile
<1>2. rec.at = "idle"
  BY DEF ReadConfig
<1>3. IsRight(cached)' /\ UpdateIsOrderly' /\ HookIsCurrent'
  BY <1>1
  DEF Running, Recorded, IsRight, EarlyIsRight, LateIsRight, UpdateIsOrderly, HookIsCurrent, OnTarget,
      Writing, environment, image, KubernetesVersion, Resolve, ImageFor
<1>4. ReadIsRight'
  <2>1. cached.inPlace /\ cached.spec # secret.data.spec => cached.spec = config.spec
    BY DEF Running, Recorded, IsRight, LateIsRight
  <2> QED
    BY <1>1, <1>3, <2>1 DEF ReadIsRight, IsRight, EarlyIsRight, LateIsRight, environment
<1>5. PinIsRight'
  BY <1>1, <1>2 DEF Running, Recorded, PinIsRight, Pinning, image
<1>6. Recorded'
  BY <1>1, <1>3, <1>4, <1>5 DEF Running, Recorded, RenderIsRight, PatchIsRight
<1> QED
  BY <1>1, <1>6 DEF Running, Calmly, ResolvedNow, Rendering, image, Fits

LEMMA ReadOwnerStaysCalm ==
  ASSUME Running, ReadOwner
  PROVE  Calmly'
<1>r. TypeOK
  BY DEF Running, Inv
<1>1. rec.at = "owner" /\ UNCHANGED <<config, secret, environment>>
  BY Zenon DEF ReadOwner
<1>2. IsRight(cached)' /\ UpdateIsOrderly' /\ HookIsCurrent'
  BY <1>1
  DEF Running, Recorded, IsRight, EarlyIsRight, LateIsRight, UpdateIsOrderly, HookIsCurrent, OnTarget,
      Writing, environment, image, KubernetesVersion, Resolve, ImageFor
<1>3. config.pin = image
  BY <1>1 DEF Running, Recorded, PinIsRight, Pinning
<1>4. PinIsRight'
  BY <1>1, <1>3 DEF PinIsRight, image
<1>5. ResolvedNow' /\ Rendering' /\ secret' # None /\ config'.created
  <2>1. rec'.at # "write"
    BY <1>1, <1>r DEF ReadOwner, NoReconcile, TypeOK
  <2> QED
    BY <1>1, <2>1 DEF Running, Recorded, ResolvedNow, Rendering, image, Fits
<1>6. CASE rec' = NoReconcile
  <2>1. rec'.at = "idle"
    BY <1>6 DEF NoReconcile
  <2> QED
    BY <1>2, <1>4, <1>5, <2>1 DEF Calmly, Recorded, ReadIsRight, RenderIsRight, PatchIsRight
<1>7. CASE rec' = [rec EXCEPT !.at = "patch", !.pin = rec.read.pin, !.created = TRUE]
           /\ ~rec.read.created
  <2>1. /\ rec'.at = "patch" /\ rec'.pin = rec.read.pin /\ rec'.created /\ rec'.read = rec.read
    BY <1>7, <1>r DEF TypeOK
  <2> QED
    BY <1>2, <1>4, <1>5, <1>7, <2>1 DEF Calmly, Recorded, ReadIsRight, RenderIsRight, PatchIsRight
<1>8. CASE rec' = [rec EXCEPT !.at = "resolve", !.version = version]
           /\ (rec.read.created => rec.read.inPlace)
  <2>1. rec'.at = "resolve" /\ rec'.read = rec.read /\ rec'.version = version
    BY <1>8, <1>r DEF TypeOK
  <2>2. ReadIsRight'
    BY <1>1, <2>1
    DEF Running, Recorded, ReadIsRight, IsRight, EarlyIsRight, LateIsRight, Writing, environment,
        image, Resolve, ImageFor
  <2>3. RenderIsRight' /\ PatchIsRight'
    BY <1>1, <1>8, <2>1 DEF RenderIsRight, PatchIsRight, environment, KubernetesVersion
  <2> QED
    BY <1>2, <1>4, <1>5, <2>2, <2>3 DEF Calmly, Recorded
<1> QED BY <1>6, <1>7, <1>8 DEF ReadOwner

LEMMA ResolveImageStaysCalm ==
  ASSUME Running, ResolveImage
  PROVE  Calmly'
<1>r. TypeOK
  BY DEF Running, Inv
<1>1. /\ rec.at = "resolve" /\ rec'.at = "write" /\ rec'.read = rec.read
      /\ rec'.version = rec.version
      /\ rec'.pin = Resolve(rec.read.spec, rec.read.pin)
      /\ UNCHANGED <<config, secret, environment>>
  BY <1>r DEF ResolveImage, TypeOK
<1>2. IsRight(cached)' /\ UpdateIsOrderly' /\ HookIsCurrent'
  BY <1>1
  DEF Running, Recorded, IsRight, EarlyIsRight, LateIsRight, UpdateIsOrderly, HookIsCurrent, OnTarget,
      Writing, environment, image, KubernetesVersion, Resolve, ImageFor
<1>3. ReadIsRight' /\ RenderIsRight' /\ PatchIsRight'
  BY <1>1
  DEF Running, Recorded, ReadIsRight, RenderIsRight, PatchIsRight, IsRight, EarlyIsRight, LateIsRight,
      Writing, environment, image, KubernetesVersion, Resolve, ImageFor
<1>4. PinIsRight'
  BY <1>1 DEF Running, Recorded, PinIsRight, Pinning, image
<1>5. ResolvedNow'
  BY <1>1 DEF ResolvedNow, environment, Resolve, ImageFor
<1> QED
  BY <1>1, <1>2, <1>3, <1>4, <1>5 DEF Running, Recorded, Calmly, Rendering, image, Fits

LEMMA PatchStatusStaysCalm ==
  ASSUME Running, PatchStatus
  PROVE  Calmly'
<1>r. TypeOK
  BY DEF Running, Inv
<1>1. rec.at = "patch" /\ rec'.at = "idle" /\ UNCHANGED <<secret, environment>>
  BY DEF PatchStatus, NoReconcile
<1>2. rec.created /\ (rec.pin = image \/ (~rec.read.created /\ rec.pin = rec.read.pin))
  BY <1>1 DEF Running, Recorded, PatchIsRight
<1>3. config'.created /\ config'.spec = config.spec /\ config'.inPlace = config.inPlace
  BY <1>r, <1>2 DEF PatchStatus, Patched, Running, Recorded, TypeOK, ConfigRecords
<1>4. config'.pin = IF rec.pin # rec.read.pin THEN rec.pin ELSE config.pin
  BY <1>r DEF PatchStatus, Patched, TypeOK, ConfigRecords
<1>5. config'.pin = image
  <2>1. CASE config.pin = image
    BY <1>2, <1>4, <2>1
  <2>2. CASE Pinning
    BY <1>4, <2>2 DEF Pinning
  <2> QED BY <2>1, <2>2 DEF Running, Recorded, PinIsRight
<1>6. IsRight(cached)' /\ UpdateIsOrderly' /\ HookIsCurrent'
  BY <1>1, <1>3
  DEF Running, Recorded, IsRight, EarlyIsRight, LateIsRight, UpdateIsOrderly, HookIsCurrent, OnTarget,
      Writing, environment, image, KubernetesVersion, Resolve, ImageFor
<1>7. PinIsRight'
  BY <1>1, <1>5 DEF PinIsRight, image
<1>8. ReadIsRight' /\ RenderIsRight' /\ PatchIsRight'
  BY <1>1 DEF ReadIsRight, RenderIsRight, PatchIsRight
<1>9. ResolvedNow' /\ Rendering' /\ secret' # None
  BY <1>1 DEF Running, ResolvedNow, Rendering, image, Fits
<1> QED
  BY <1>3, <1>6, <1>7, <1>8, <1>9 DEF Calmly, Recorded

\* The write, which replaces the data during an update only, for a version or for a spec of its.
LEMMA WriteFollowsUpdate ==
  ASSUME Running, rec.at = "write", PutSecret, secret' # secret
  PROVE  /\ secret' = [data |-> RecRendered, hash |-> RecHash]
         /\ config.inPlace
         /\ \/ /\ rec.read.spec = secret.data.spec
               /\ rec.pin = image
               /\ update.at = "pending"
               /\ secret.data.version # KubernetesVersion(version)
            \/ /\ rec.read.spec # secret.data.spec
               /\ rec.read.spec = config.spec
               /\ rec.read.inPlace
               /\ rec.read.pin = image
               /\ Writing
<1> DEFINE r == rec.read
<1>r. TypeOK /\ secret \in Secrets /\ r \in ConfigRecords
  BY DEF Running, Inv, TypeOK
<1>1. /\ IsRight(r) /\ UpdateIsOrderly
      /\ rec.pin = Resolve(r.spec, r.pin)
      /\ Fits(image, secret.data.spec)
      /\ secret.data.version = KubernetesVersion(version) =>
           KubernetesVersion(rec.version) = KubernetesVersion(version)
  BY DEF Running, Recorded, ReadIsRight, RenderIsRight, ResolvedNow, Rendering
<1>2. /\ r.inPlace
      /\ secret.hash # RecHash
      /\ secret' = [data |-> RecRendered, hash |-> RecHash]
  BY DEF PutSecret, RewritesBootstrapData, Running
<1>3. CASE r.spec = secret.data.spec
  <2>1. r.spec \in Specs /\ image \in ImageRecords \cup {None}
    BY <1>r DEF ConfigRecords, image, Secrets, HashInputs
  <2>2. rec.pin = image
    <3>1. CASE Resolve(r.spec, r.pin) = image
      BY <1>1, <3>1
    <3>2. CASE r.pin = image
      BY <1>r, <1>1, <1>3, <2>1, <3>2, ResolveFits
    <3> QED BY <1>1, <1>2, <3>1, <3>2 DEF IsRight, LateIsRight
  <2>3. KubernetesVersion(rec.version) # secret.data.version
    <3> SUFFICES ASSUME KubernetesVersion(rec.version) = secret.data.version
                 PROVE  FALSE
      OBVIOUS
    <3>1. RecHash = [spec |-> secret.data.spec, version |-> secret.data.version,
                     image |-> secret.data.image]
      BY <1>3, <2>2 DEF RecHash, InPlaceConfigHash, image
    <3>2. secret.data \in HashInputs
      BY <1>r DEF Secrets
    <3>3. secret.data = [spec |-> secret.data.spec, version |-> secret.data.version,
                         image |-> secret.data.image]
      BY <3>2 DEF HashInputs
    <3>4. secret.data = secret.hash
      BY DEF Running, Inv, Consistent
    <3> QED BY <1>2, <3>1, <3>3, <3>4
  <2>4. secret.data.version # KubernetesVersion(version)
    BY <1>1, <2>3
  <2>5. update.at = "pending"
    BY <1>1, <2>4 DEF UpdateIsOrderly
  <2> QED BY <1>1, <1>2, <1>3, <2>2, <2>4, <2>5 DEF UpdateIsOrderly
<1>4. CASE r.spec # secret.data.spec
  <2>1. r.spec = config.spec /\ r.pin = image /\ Writing
    BY <1>1, <1>2, <1>4 DEF IsRight, LateIsRight
  <2> QED BY <1>1, <1>2, <1>4, <2>1 DEF UpdateIsOrderly, Writing
<1> QED BY <1>3, <1>4

LEMMA WriteSecretStaysCalm ==
  ASSUME Running, WriteSecret
  PROVE  Calmly'
<1> DEFINE r == rec.read
<1>r. TypeOK /\ secret \in Secrets /\ r \in ConfigRecords
  BY DEF Running, Inv, TypeOK, WriteSecret
<1>1. /\ rec.at = "write" /\ rec'.at = "patch" /\ rec'.read = r /\ rec'.created
      /\ rec'.pin = rec.pin
      /\ UNCHANGED <<config, environment>>
  BY <1>r DEF WriteSecret, TypeOK
<1>2. /\ IsRight(r) /\ IsRight(cached) /\ UpdateIsOrderly /\ HookIsCurrent
      /\ config.created
      /\ r.created => r.inPlace
      /\ rec.pin = Resolve(r.spec, r.pin)
      /\ config.pin = image
  BY <1>1 DEF Running, Recorded, ReadIsRight, RenderIsRight, ResolvedNow, PinIsRight, Pinning
<1>3. r.spec \in Specs /\ r.pin \in ImageRecords \cup {None}
  BY <1>r DEF ConfigRecords
<1>4. ReadIsRight' /\ RenderIsRight' /\ ResolvedNow'
  BY <1>1 DEF ReadIsRight, RenderIsRight, ResolvedNow
<1>5. CASE secret' = secret
  <2>1. rec.pin = image
    <3>1. CASE ~r.inPlace
      BY <1>2, <3>1 DEF IsRight, EarlyIsRight
    <3>2. CASE r.inPlace
      <4>1. secret.hash = RecHash
        <5> SUFFICES ASSUME secret.hash # RecHash PROVE FALSE
          OBVIOUS
        <5>1. secret = [data |-> RecRendered, hash |-> RecHash]
          BY <1>5, <3>2 DEF WriteSecret, PutSecret, RewritesBootstrapData
        <5> QED BY <5>1
      <4> QED
        BY <4>1 DEF RecHash, InPlaceConfigHash, image, Running, Inv, Consistent
    <3> QED BY <3>1, <3>2
  <2>2. IsRight(cached)' /\ UpdateIsOrderly' /\ HookIsCurrent'
    BY <1>1, <1>2, <1>5
    DEF IsRight, EarlyIsRight, LateIsRight, UpdateIsOrderly, HookIsCurrent, OnTarget, Writing,
        environment, image, KubernetesVersion, Resolve, ImageFor
  <2>3. PatchIsRight' /\ PinIsRight'
    BY <1>1, <1>2, <1>5, <2>1 DEF PatchIsRight, PinIsRight, image
  <2> QED
    BY <1>1, <1>2, <1>4, <1>5, <2>2, <2>3
    DEF Running, Calmly, Recorded, Rendering, image, Fits
<1>6. CASE secret' # secret
  <2>1. /\ secret' = [data |-> RecRendered, hash |-> RecHash]
        /\ config.inPlace
    BY <1>1, <1>6, WriteFollowsUpdate DEF WriteSecret
  <2>2. /\ secret'.data.spec = r.spec
        /\ secret'.data.version = KubernetesVersion(rec.version)
        /\ image' = rec.pin
    BY <2>1 DEF RecRendered, Rendered, image
  <2>3. secret' # None
    BY <1>r, <2>1, RenderedType, DataAssumption DEF Secrets
  <2>4. Rendering'
    <3>1. Fits(rec.pin, r.spec)
      BY <1>r, <1>2, <1>3, ResolveFits
    <3> QED BY <2>2, <3>1 DEF Rendering, Fits
  <2>5. PatchIsRight'
    BY <1>1, <2>2 DEF PatchIsRight
  <2>6. CASE /\ r.spec = secret.data.spec
             /\ rec.pin = image
             /\ update.at = "pending"
             /\ secret.data.version # KubernetesVersion(version)
    <3>1. version = update.version
      BY <1>2, <2>6 DEF UpdateIsOrderly
    <3>2. UpdateIsOrderly' /\ HookIsCurrent'
      BY <1>1, <1>2, <2>6, <3>1
      DEF UpdateIsOrderly, HookIsCurrent, OnTarget, Writing, environment, KubernetesVersion
    <3>3. IsRight(cached)'
      BY <1>1, <1>2, <2>2, <2>6
      DEF IsRight, EarlyIsRight, LateIsRight, Writing, environment, Resolve, ImageFor
    <3>4. PinIsRight'
      BY <1>1, <1>2, <2>2, <2>6 DEF PinIsRight
    <3> QED
      BY <1>1, <1>2, <1>4, <2>3, <2>4, <2>5, <3>2, <3>3, <3>4 DEF Calmly, Recorded
  <2>7. CASE /\ r.spec # secret.data.spec
             /\ r.spec = config.spec
             /\ r.inPlace
             /\ r.pin = image
             /\ Writing
    <3>1. cached.inPlace /\ cached.spec = config.spec
      BY <1>1, <2>7 DEF Running, Recorded, ReadIsRight
    <3>2. cached.pin = image /\ cached.created
      BY <1>2, <2>7, <3>1 DEF IsRight, EarlyIsRight, LateIsRight
    <3>3. config.spec = update.spec
      BY <1>2, <2>7 DEF UpdateIsOrderly
    <3>4. HookIsCurrent'
      BY <1>1, <1>2, <2>7, <3>3 DEF HookIsCurrent, OnTarget, environment, KubernetesVersion
    <3>5. UpdateIsOrderly'
      <4>1. update.at # "pending" => secret'.data.version = KubernetesVersion(version)
        BY <1>1, <1>2, <2>2 DEF UpdateIsOrderly, Running, Recorded, RenderIsRight
      <4> QED
        BY <1>1, <1>2, <2>7, <4>1 DEF UpdateIsOrderly, Writing, environment, KubernetesVersion
    <3>6. IsRight(cached)'
      <4>1. Resolve(cached.spec, cached.pin)' = Resolve(cached.spec, cached.pin)
        BY <1>1 DEF environment, Resolve, ImageFor
      <4> QED
        BY <1>1, <1>2, <2>2, <2>7, <3>1, <3>2, <4>1
        DEF IsRight, EarlyIsRight, LateIsRight, environment
    <3>7. PinIsRight'
      BY <1>1, <1>2, <2>2, <2>7, <3>1, <3>2 DEF PinIsRight, Pinning, Writing, environment
    <3> QED
      BY <1>1, <1>2, <1>4, <2>3, <2>4, <2>5, <3>4, <3>5, <3>6, <3>7 DEF Calmly, Recorded
  <2> QED BY <1>1, <1>6, <2>6, <2>7, WriteFollowsUpdate DEF WriteSecret
<1> QED BY <1>5, <1>6

\* The steps of what is around it.
LEMMA SyncCacheStaysCalm ==
  ASSUME Running, SyncCache
  PROVE  Calmly'
<1>r. TypeOK /\ config.spec \in Specs /\ config.pin \in ImageRecords \cup {None}
  BY DEF Running, Inv, TypeOK, ConfigRecords
<1>1. /\ cached' = config
      /\ UNCHANGED <<config, version, refSet, infraReady, secret, newest, rec, update, hook>>
  BY DEF SyncCache
<1>2. LateIsRight(config)
  <2>1. CASE config.pin = image
    BY <1>r, <2>1, ResolveFits
    DEF Running, Recorded, Rendering, UpdateIsOrderly, Writing, LateIsRight, Inv, TypeOK
  <2>2. CASE Pinning
    BY <2>2 DEF Running, Recorded, Pinning, IsRight, LateIsRight
  <2> QED BY <2>1, <2>2 DEF Running, Recorded, PinIsRight
<1>3. IsRight(cached)'
  BY <1>1, <1>2
  DEF Running, Recorded, IsRight, EarlyIsRight, LateIsRight, Writing, image, Resolve, ImageFor
<1>4. UpdateIsOrderly' /\ HookIsCurrent'
  BY <1>1
  DEF Running, Recorded, UpdateIsOrderly, HookIsCurrent, OnTarget, Writing, KubernetesVersion
<1>5. ReadIsRight'
  <2>1. rec.at \in {"owner", "resolve", "write"} => IsRight(rec.read)'
    BY <1>1
    DEF Running, Recorded, ReadIsRight, IsRight, EarlyIsRight, LateIsRight, Writing, image,
        Resolve, ImageFor
  <2>2. Writing => config.inPlace
    BY DEF Running, Recorded, UpdateIsOrderly, Writing
  <2> QED
    BY <1>1, <2>1, <2>2 DEF Running, Recorded, ReadIsRight, IsRight, LateIsRight
<1>6. PinIsRight'
  BY <1>1 DEF Running, Recorded, UpdateIsOrderly, PinIsRight, Pinning, Writing, image
<1>7. RenderIsRight' /\ PatchIsRight' /\ ResolvedNow' /\ Rendering'
  BY <1>1
  DEF Running, Recorded, RenderIsRight, PatchIsRight, ResolvedNow, Rendering, KubernetesVersion,
      image, Fits, Resolve, ImageFor
<1> QED
  BY <1>1, <1>3, <1>4, <1>5, <1>6, <1>7 DEF Running, Recorded, Calmly

LEMMA BystandersStayCalm ==
  ASSUME Running, ProvisionInfrastructure \/ SetReference \/ HookReadsSecret
  PROVE  Calmly'
<1>1. UNCHANGED <<config, cached, version, secret, newest, rec, update>>
  BY DEF ProvisionInfrastructure, SetReference, HookReadsSecret
<1>2. hook' = hook \/ (update.at = "pending" /\ hook' = [at |-> "check", secret |-> secret])
  BY DEF ProvisionInfrastructure, SetReference, HookReadsSecret
<1>3. HookIsCurrent'
  BY <1>1, <1>2 DEF Running, Recorded, HookIsCurrent, OnTarget, KubernetesVersion
<1>4. IsRight(cached)' /\ UpdateIsOrderly'
  BY <1>1
  DEF Running, Recorded, IsRight, EarlyIsRight, LateIsRight, UpdateIsOrderly, Writing, image,
      KubernetesVersion, Resolve, ImageFor
<1>5. ReadIsRight'
  BY <1>1
  DEF Running, Recorded, ReadIsRight, IsRight, EarlyIsRight, LateIsRight, Writing, image, Resolve,
      ImageFor
<1>6. PinIsRight' /\ RenderIsRight' /\ PatchIsRight' /\ ResolvedNow' /\ Rendering'
  BY <1>1
  DEF Running, Recorded, PinIsRight, Pinning, Writing, RenderIsRight, PatchIsRight, ResolvedNow,
      Rendering, KubernetesVersion, image, Fits, Resolve, ImageFor
<1> QED
  BY <1>1, <1>3, <1>4, <1>5, <1>6 DEF Running, Recorded, Calmly

\* A newer patch, published while no reconcile runs.
LEMMA ReleaseStaysCalm ==
  ASSUME Running, Release, calm'
  PROVE  Calmly'
<1>r. TypeOK /\ config.spec \in Specs
  BY DEF Running, Inv, TypeOK, ConfigRecords
<1>1. /\ UNCHANGED <<config, cached, version, secret, rec, update, hook>>
      /\ rec.at = "idle"
      /\ cached = config
  BY <1>r DEF Release, TypeOK
<1>2. config.created /\ config.pin = image /\ Fits(image, secret.data.spec)
  BY <1>1 DEF Running, Recorded, PinIsRight, Pinning, Rendering
<1>3. LateIsRight(cached)'
  <2>1. cached.spec = secret.data.spec => Resolve(cached.spec, cached.pin)' = image
    <3> SUFFICES ASSUME cached.spec = secret.data.spec
                 PROVE  Resolve(cached.spec, cached.pin)' = image
      OBVIOUS
    <3>1. CASE InputsOf[cached.spec] = None
      BY <1>1, <1>2, <3>1 DEF Fits, Resolve
    <3>2. CASE InputsOf[cached.spec] # None
      BY <1>1, <1>2, <3>2 DEF Fits, Resolve
    <3> QED BY <3>1, <3>2
  <2> QED
    BY <1>1, <1>2, <2>1 DEF Running, Recorded, IsRight, LateIsRight, Writing, image
<1>4. IsRight(cached)'
  BY <1>1, <1>2, <1>3 DEF IsRight, EarlyIsRight
<1>5. UpdateIsOrderly' /\ HookIsCurrent' /\ PinIsRight'
  BY <1>1, <1>2
  DEF Running, Recorded, UpdateIsOrderly, HookIsCurrent, OnTarget, PinIsRight, Writing, image,
      KubernetesVersion
<1>6. ReadIsRight' /\ RenderIsRight' /\ PatchIsRight' /\ ResolvedNow' /\ Rendering'
  BY <1>1
  DEF Running, ReadIsRight, RenderIsRight, PatchIsRight, ResolvedNow, Rendering, image, Fits
<1> QED
  BY <1>1, <1>2, <1>4, <1>5, <1>6 DEF Running, Recorded, Calmly

\* The writes on the config before an update has a spec of its own: nothing read so far has one.
LEMMA WritesStayCalm ==
  ASSUME Running, EditSpec \/ StampUpdate \/ WriteConfigSpec, calm'
  PROVE  Calmly'
<1>r. TypeOK
  BY DEF Running, Inv
<1>1. /\ UNCHANGED <<cached, version, secret, newest, rec, hook>>
      /\ config'.created = config.created
      /\ config'.pin = config.pin
  BY <1>r DEF EditSpec, StampUpdate, WriteConfigSpec, ownerUnchanged, TypeOK, ConfigRecords
<1>2. update.at \in {"none", "stamped"} /\ ~Writing /\ hook.at = "idle" /\ config.pin = image
  BY <1>r
  DEF Running, Recorded, HookIsCurrent, PinIsRight, Pinning, Writing, TypeOK, EditSpec, StampUpdate,
      WriteConfigSpec
<1>3. UpdateIsOrderly'
  <2>1. secret.data.version = KubernetesVersion(version)
    BY <1>2 DEF Running, Recorded, UpdateIsOrderly
  <2>2. CASE EditSpec
    BY <1>r, <1>1, <2>1, <2>2
    DEF EditSpec, Running, Recorded, UpdateIsOrderly, Writing, TypeOK, ConfigRecords,
        KubernetesVersion
  <2>3. CASE StampUpdate
    <3>1. update'.at = "stamped" /\ config'.inPlace /\ config'.spec = config.spec
      BY <1>r, <2>3 DEF StampUpdate, TypeOK, ConfigRecords
    <3>2. config.spec = secret.data.spec
      BY <2>3, Zenon DEF StampUpdate
    <3> QED
      BY <1>1, <2>1, <3>1, <3>2 DEF UpdateIsOrderly, Writing, KubernetesVersion
  <2>4. CASE WriteConfigSpec
    <3>1. /\ update'.at = "written"
          /\ update'.spec = update.spec
          /\ config'.inPlace
          /\ config'.spec = update.spec
      BY <1>r, <2>4
      DEF WriteConfigSpec, Running, Recorded, UpdateIsOrderly, TypeOK, ConfigRecords
    <3> QED
      BY <1>1, <2>1, <3>1 DEF UpdateIsOrderly, Writing, KubernetesVersion
  <2> QED BY <2>2, <2>3, <2>4
<1>4. IsRight(cached)'
  BY <1>1, <1>2
  DEF Running, Recorded, IsRight, EarlyIsRight, LateIsRight, image, Resolve, ImageFor
<1>5. ReadIsRight'
  BY <1>1, <1>2
  DEF Running, Recorded, ReadIsRight, IsRight, EarlyIsRight, LateIsRight, image, Resolve, ImageFor
<1>6. HookIsCurrent' /\ PinIsRight'
  BY <1>1, <1>2 DEF HookIsCurrent, PinIsRight, image
<1>7. RenderIsRight' /\ PatchIsRight' /\ ResolvedNow' /\ Rendering'
  BY <1>1
  DEF Running, Recorded, RenderIsRight, PatchIsRight, ResolvedNow, Rendering, KubernetesVersion,
      image, Fits, Resolve, ImageFor
<1> QED
  BY <1>1, <1>3, <1>4, <1>5, <1>6, <1>7 DEF Running, Recorded, Calmly

LEMMA WriteMachineStaysCalm ==
  ASSUME Running, WriteMachine
  PROVE  Calmly'
<1>r. TypeOK
  BY DEF Running, Inv
<1>1. /\ UNCHANGED <<config, cached, secret, newest, rec, hook>>
      /\ update.at = "written" /\ update'.at = "pending"
      /\ update'.spec = update.spec /\ update'.version = update.version
      /\ version' = update.version
  BY <1>r DEF WriteMachine, ownerUnchanged, TypeOK
<1>2. hook.at # "check"
  BY <1>1 DEF Running, Recorded, HookIsCurrent
<1>3. UpdateIsOrderly' /\ HookIsCurrent'
  BY <1>1, <1>2 DEF Running, Recorded, UpdateIsOrderly, HookIsCurrent, Writing
<1>4. secret.data.version = KubernetesVersion(version)
  BY <1>1 DEF Running, Recorded, UpdateIsOrderly
<1>5. RenderIsRight'
  BY <1>1, <1>4 DEF Running, Recorded, RenderIsRight, KubernetesVersion
<1>6. IsRight(cached)'
  BY <1>1
  DEF Running, Recorded, IsRight, EarlyIsRight, LateIsRight, Writing, image, Resolve, ImageFor
<1>7. ReadIsRight'
  BY <1>1
  DEF Running, Recorded, ReadIsRight, IsRight, EarlyIsRight, LateIsRight, Writing, image, Resolve,
      ImageFor
<1>8. PinIsRight' /\ PatchIsRight' /\ ResolvedNow' /\ Rendering'
  BY <1>1
  DEF Running, Recorded, PinIsRight, Pinning, Writing, PatchIsRight, ResolvedNow, Rendering, image,
      Fits, Resolve, ImageFor
<1> QED
  BY <1>1, <1>3, <1>5, <1>6, <1>7, <1>8 DEF Running, Recorded, Calmly

\* The hook completes the update on the secret as it is, and with the image that is recorded.
LEMMA HookChecksStaysCalm ==
  ASSUME Running, HookChecks
  PROVE  Calmly'
<1>r. TypeOK /\ secret \in Secrets
  BY DEF Running, Inv, TypeOK
<1>1. /\ UNCHANGED <<cached, version, secret, newest, rec>>
      /\ hook.at = "check" /\ hook'.at = "idle"
      /\ update.at = "pending"
  BY DEF HookChecks, NoHook, Running, Recorded, HookIsCurrent
<1>2. HookIsCurrent'
  BY <1>1 DEF HookIsCurrent
<1>3. RenderIsRight' /\ PatchIsRight' /\ ResolvedNow' /\ Rendering'
  BY <1>1
  DEF Running, Recorded, RenderIsRight, PatchIsRight, ResolvedNow, Rendering, KubernetesVersion,
      image, Fits, Resolve, ImageFor
<1>4. CASE HookFindsFresh
  <2>1. /\ config'.created = config.created /\ config'.pin = config.pin
        /\ config'.spec = config.spec /\ ~config'.inPlace
        /\ update'.at = "none"
    BY <1>r, <1>4 DEF HookChecks, TypeOK, ConfigRecords
  <2>2. /\ hook.secret.data = DesiredConfigHash(update.spec, update.version, cached.pin)
        /\ hook.secret.data.version # Unset
    BY <1>1, <1>4 DEF HookFindsFresh, HookInstallerImage, Running, Inv, Consistent
  <2>3. hook.secret = secret
    BY <1>1, <2>2
    DEF DesiredConfigHash, InPlaceConfigHash, OnTarget, KubernetesVersion, Running, Recorded,
        HookIsCurrent
  <2>4. /\ secret.data.spec = config.spec
        /\ secret.data.version = KubernetesVersion(version)
        /\ cached.pin = image
    BY <1>1, <2>2, <2>3
    DEF DesiredConfigHash, InPlaceConfigHash, KubernetesVersion, Running, Recorded,
        UpdateIsOrderly, Writing, image
  <2>5. config.pin = image
    BY <2>4 DEF Running, Recorded, PinIsRight, Pinning
  <2>6. Resolve(config.spec, image) = image
    <3>1. config.spec \in Specs /\ image \in ImageRecords \cup {None}
      BY <1>r DEF TypeOK, ConfigRecords, Secrets, HashInputs, image
    <3> QED
      BY <1>r, <2>4, <3>1, ResolveFits DEF Running, Rendering
  <2>7. UpdateIsOrderly'
    BY <1>1, <2>1, <2>4 DEF UpdateIsOrderly, Writing, KubernetesVersion
  <2>8. IsRight(cached)'
    BY <1>1, <2>1, <2>4, <2>6
    DEF Running, Recorded, IsRight, EarlyIsRight, LateIsRight, image, Resolve, ImageFor
  <2>9. ReadIsRight'
    BY <1>1, <2>1, <2>4, <2>6
    DEF Running, Recorded, ReadIsRight, IsRight, EarlyIsRight, LateIsRight, image, Resolve, ImageFor
  <2>10. PinIsRight'
    BY <1>1, <2>1, <2>5 DEF PinIsRight, image
  <2> QED
    BY <1>1, <1>2, <1>3, <2>1, <2>7, <2>8, <2>9, <2>10 DEF Running, Recorded, Calmly
<1>5. CASE ~HookFindsFresh
  <2>1. UNCHANGED <<update, config>>
    BY <1>5 DEF HookChecks
  <2>2. IsRight(cached)' /\ UpdateIsOrderly'
    BY <1>1, <2>1
    DEF Running, Recorded, IsRight, EarlyIsRight, LateIsRight, UpdateIsOrderly, Writing, image,
        KubernetesVersion, Resolve, ImageFor
  <2>3. ReadIsRight'
    BY <1>1, <2>1
    DEF Running, Recorded, ReadIsRight, IsRight, EarlyIsRight, LateIsRight, Writing, image, Resolve,
        ImageFor
  <2>4. PinIsRight'
    BY <1>1, <2>1 DEF Running, Recorded, PinIsRight, Pinning, Writing, image
  <2> QED
    BY <1>1, <1>2, <1>3, <2>1, <2>2, <2>3, <2>4 DEF Running, Recorded, Calmly
<1> QED BY <1>4, <1>5

LEMMA RecordedStep ==
  ASSUME Running, calm', Next
  PROVE  Calmly'
<1>1. ~(FailResolve \/ FailWrite \/ Retry \/ Restart \/ Move)
  BY CalmStep DEF Running, Inv
<1> QED
  BY <1>1, ReadConfigStaysCalm, ReadOwnerStaysCalm, ResolveImageStaysCalm, WriteSecretStaysCalm,
     PatchStatusStaysCalm, SyncCacheStaysCalm, BystandersStayCalm, ReleaseStaysCalm,
     WritesStayCalm, WriteMachineStaysCalm, HookChecksStaysCalm
  DEF Next, Reconcile

LEMMA CalmInvariance == Spec => [](Inv /\ CalmInv)
<1>1. Init => CalmInv
  BY DEF Init, CalmInv, Calmly, ResolvedNow, Rendering, Unrendered, Untouched, NoReconcile, NoHook
<1>2. Inv /\ CalmInv /\ [Next]_vars => CalmInv'
  <2> SUFFICES ASSUME Inv, CalmInv, [Next]_vars, calm' PROVE Calmly'
    BY DEF CalmInv
  <2>1. CASE UNCHANGED vars
    BY <2>1
    DEF vars, CalmInv, Calmly, ResolvedNow, Rendering, Unrendered, Untouched, Unrecorded, Recorded,
        IsRight, EarlyIsRight, LateIsRight, UpdateIsOrderly, HookIsCurrent, OnTarget, Writing,
        ReadIsRight, RenderIsRight, PatchIsRight, PinIsRight, Pinning, KubernetesVersion, image,
        Fits, Resolve, ImageFor
  <2>2. CASE Next
    <3>1. calm
      BY <2>2, CalmStep DEF Inv
    <3>2. Calmly
      BY <3>1 DEF CalmInv
    <3> QED
      BY <2>2, <3>2, UnrenderedStep, UnrecordedStep, RecordedStep DEF Calmly, Running
  <2> QED BY <2>1, <2>2
<1> QED BY <1>1, <1>2, Invariance, PTL DEF Spec

\* In a calm environment a secret there is is written by a reconcile after its image is recorded,
\* though the write may be one whose answer is lost.
LEMMA CalmWrite ==
  ASSUME Inv, CalmInv, Next, calm, secret # None, secret' # secret
  PROVE  Running /\ rec.at = "write" /\ PutSecret
<1>1. WriteSecret \/ FailWrite
  BY DEF Next, Reconcile, ReadConfig, ReadOwner, ResolveImage, PatchStatus, FailResolve, Retry,
     Restart, Move, SyncCache, ProvisionInfrastructure, SetReference, Release, EditSpec,
     StampUpdate, WriteConfigSpec, WriteMachine, HookReadsSecret, HookChecks, environment,
     ownerUnchanged
<1>2. rec.at = "write" /\ PutSecret
  BY <1>1 DEF WriteSecret, FailWrite
<1> QED
  BY <1>2 DEF CalmInv, Calmly, Running, Unrendered, Unrecorded

----------------------------------------------------------------------------

\* With nothing under way, the image in status is the one in the bootstrap data.
THEOREM StatusIsRendered == Spec => []StatusImageIsRendered
<1>1. Inv /\ CalmInv => StatusImageIsRendered
  BY DEF CalmInv, Calmly, Unrendered, Unrecorded, Untouched, Recorded, PinIsRight, Pinning, image,
     StatusImageIsRendered
<1> QED BY <1>1, CalmInvariance, PTL

\* The bootstrap data of a Machine changes during an in-place update only, however stale what a
\* reconcile has read.
THEOREM FrozenData == Spec => DataIsFrozen
<1> DEFINE Frozen == calm /\ secret # None /\ secret' # secret => config.inPlace
<1>1. Inv /\ CalmInv /\ [Next]_vars => [Frozen]_vars
  BY CalmWrite, WriteFollowsUpdate
<1> QED BY <1>1, CalmInvariance, PTL DEF Spec, DataIsFrozen

\* The installer image in the bootstrap data changes with its inputs only: what the Image Factory
\* publishes later does not move it.
THEOREM PinnedImage == Spec => ImageIsPinned
<1> DEFINE Pinned ==
      calm /\ secret # None /\ secret' # secret
        /\ secret.data.image # None /\ secret'.data.image # None
        /\ secret.data.image.inputs = secret'.data.image.inputs
      => secret'.data.image = secret.data.image
<1>1. Inv /\ CalmInv /\ [Next]_vars => [Pinned]_vars
  <2> SUFFICES ASSUME Inv, CalmInv, Next, calm, secret # None, secret' # secret,
                      image # None, secret'.data.image # None,
                      image.inputs = secret'.data.image.inputs
               PROVE  secret'.data.image = image
    BY DEF image
  <2>1. Running /\ rec.at = "write" /\ PutSecret
    BY CalmWrite
  <2>2. secret'.data.image = rec.pin
    BY <2>1, WriteFollowsUpdate DEF RecRendered, Rendered
  <2>3. CASE rec.pin = image
    BY <2>2, <2>3
  <2>4. CASE rec.read.pin = image
    <3>1. rec.pin = Resolve(rec.read.spec, image)
      BY <2>1, <2>4 DEF Running, ResolvedNow
    <3>2. rec.read.spec \in Specs /\ image \in ImageRecords \cup {None}
      BY <2>1, <2>4 DEF Inv, ConfigRecords
    <3>3. Fits(rec.pin, rec.read.spec)
      BY <3>1, <3>2, ResolveFits DEF Inv
    <3>4. Fits(image, rec.read.spec)
      BY <2>2, <3>3 DEF Fits
    <3> QED BY <2>2, <3>1, <3>2, <3>4, ResolveFits DEF Inv
  <2> QED BY <2>1, <2>3, <2>4, WriteFollowsUpdate
<1> QED BY <1>1, CalmInvariance, PTL DEF Spec, ImageIsPinned

=============================================================================
