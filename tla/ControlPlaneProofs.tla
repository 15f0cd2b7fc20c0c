-------------------------- MODULE ControlPlaneProofs --------------------------
(***************************************************************************)
(* What holds of UpdateMachine on a control plane machine: that it is done *)
(* only when its kube-apiserver runs on what the desired configuration     *)
(* makes of it, and so that the hook implements UpdateContract there too.  *)
(*                                                                         *)
(* Calls must not overlap, images must be ones that serve the lifecycle    *)
(* service (an older node upgrades itself, at a time of its own), and no   *)
(* step may lose the record of an apply, with what was seen of             *)
(* kube-apiserver before it (KeepsRecord).  The kubelet may take longer    *)
(* than the settle window; Talos, together with the time between the two   *)
(* reads of one call, may not.  And a record that is dropped for its age   *)
(* must be older than Talos and the kubelet ever take.                     *)
(***************************************************************************)
EXTENDS OneCallProofs

\* The window is longer than Talos takes to render and a call may last after that.
WindowCoversRender == TalosLag + CallTimeout < SettleWindow

\* A record outlives what it is for.
RecordOutlivesReplace == TalosLag + KubeletLag < RecordTTL

\* Every configuration names an image with the lifecycle service.
LifecycleOnly == \A d \in Configs : TagOf[ImageOf[d]] \in LifecycleTags

NothingLost == [][KeepsRecord]_vars

\* kube-apiserver runs on what the configuration of the node makes of it, and nothing is pending.
Calm == up /\ ready /\ pod = PodOf[config] /\ container = pod /\ rendered # 0

\* A pod from before the desired configuration.
Old(p) == p \notin {None, PodOf[desired]}

\* The node has the desired configuration, and kube-apiserver is on its way to it.
UnderWay ==
  /\ config = desired
  /\ pod = None <=> rendered = 0
  /\ pod = None => container = None
  /\ pod # None => up
  /\ container = None => ~ready
  /\ Old(pod) => container = pod

\* Nothing is left of what was there before the desired configuration.
Replaced == ~Old(pod) /\ ~Old(container)

\* What is still from before the desired configuration has not changed since b was seen.
Unchanged(b) ==
  /\ Old(pod) => rendered = b.rendered
  /\ Old(container) => started = b.started

\* Time a has passed at most since b was seen, if Talos has yet to render; and what Talos has
\* rendered and the kubelet has yet to act on was rendered after b was seen, and in time.
InTime(b, a) ==
  /\ Old(pod) => a <= renderAge
  /\ container \notin {None, pod} => rendered # b.rendered /\ a <= TalosLag + kubeletAge

Absorbing(b, a) == UnderWay /\ Unchanged(b) /\ InTime(b, a)

NoneInFlight == \A i \in Seqs : ~Live(i)

\* Steps of a call before it has read anything of kube-apiserver.
NotAsked == {"idle", "version", "lookup", "observe"}

\* The configuration of the update has not been applied, or the update is over.
UnaskedCall(r) ==
  \/ r.at \in NotAsked
  \/ r.at = "observeStatus" /\ r.pod = rendered
  \/ r.at = "apply" /\ r.rec = None /\ r.before = APIServer(rendered)

Unasked ==
  /\ applies = None
  /\ Calm
  /\ NoneInFlight
  /\ \A c \in Calls : UnaskedCall(call[c])

\* It has been applied, and is about to be recorded.
Recording ==
  /\ applies = None
  /\ NoneInFlight
  /\ \E c \in Calls : call[c].at = "record" /\ Absorbing(call[c].before, 0)

\* It is on record.
RecordedCall(r) ==
  \/ r.at \in {"idle", "version", "lookup", "look", "act"}
  \/ r.at \in {"apply", "settle", "settleStatus"} /\ r.rec = applies
  \/ r.at = "finish" /\ Calm

\* A call that has found the static pod as it was before, and is being waited for, has found it so
\* in the time Talos takes, unless what ran then has been replaced.
ReadInTime(c) ==
  (/\ call[c].at = "settleStatus"
   /\ waiting = c
   /\ call[c].pod = applies.before.rendered
   /\ Old(container)) => applies.age <= TalosLag + call[c].spent

Recorded ==
  /\ updating
  /\ applies # None
  /\ applies.cfg = desired
  /\ Absorbing(applies.before, applies.age)
  /\ \A c \in Calls : RecordedCall(call[c]) /\ ReadInTime(c)

\* The record grew old and was dropped.
ForgottenCall(r) ==
  /\ r.at \in {"settle", "settleStatus"} => r.rec # None
  /\ r.at = "finish" => Calm

Forgotten ==
  /\ updating
  /\ applies = None
  /\ UnderWay
  /\ Replaced
  /\ \A c \in Calls : ForgottenCall(call[c])

\* The Machine is being deleted and the record was dropped with a sequence: the last call finds the
\* node in need of the upgrade, so it will not report completion.
LostCall(r) ==
  \/ r.at = "idle"
  \/ r.at = "version" /\ Upgradable(TagOf[running]) /\ ~Rebooting /\ NoneInFlight
  \/ r.at \notin {"idle", "version"} /\ Upgradable(r.tag)

Lost == deleting /\ \A c \in Calls : LostCall(call[c])

\* No node and no call ever knows of a version before the lifecycle service.
CallBasics(r) ==
  /\ r.at \notin {"idle", "version"} => r.tag \in LifecycleTags
  /\ r.at \in NotAsked \cup {"observeStatus"} => r.rec = None

Basics ==
  /\ selfUpgrade = None
  /\ TagOf[running] \in LifecycleTags
  /\ \A c \in Calls : CallBasics(call[c])

Phases == Unasked \/ Recording \/ Recorded \/ Forgotten \/ Lost

AbsInv == Basics /\ Phases

----------------------------------------------------------------------------
(* kube-apiserver on its way to the desired configuration. *)

LEMMA NodeGoesOn ==
  ASSUME NodeAssumption, NodeTypeOK, UnderWay, desired' = desired, NodeStep \/ FallBack
  PROVE  /\ UnderWay'
         /\ Old(container)' => Old(container)
         /\ Replaced => Replaced'
<1> USE DEF UnderWay, Old, Replaced
<1>1. CASE SelfUpgrade
  BY <1>1 DEF SelfUpgrade, GoDown
<1>2. CASE Boot \/ FallBack
  BY <1>2 DEF Boot, FallBack, apiVars
<1>3. CASE RenderPod
  BY <1>3 DEF RenderPod, NodeTypeOK, NodeDataOK, NodeAssumption
<1>4. CASE StopContainer
  BY <1>4 DEF StopContainer, ReplacePending
<1>5. CASE StartContainer
  BY <1>5 DEF StartContainer
<1>6. CASE BecomeReady
  BY <1>6 DEF BecomeReady
<1> QED BY <1>1, <1>2, <1>3, <1>4, <1>5, <1>6 DEF NodeStep

LEMMA NodeAbsorbs ==
  ASSUME NodeAssumption, NodeTypeOK, NEW b, NEW a \in Nat, Absorbing(b, a), desired' = desired,
         NodeStep \/ FallBack
  PROVE  Absorbing(b, a)'
<1> SUFFICES Unchanged(b)' /\ InTime(b, a)'
  BY NodeGoesOn DEF Absorbing
<1> USE DEF Absorbing, UnderWay, Old, Unchanged, InTime
<1>1. CASE SelfUpgrade
  BY <1>1 DEF SelfUpgrade, GoDown
<1>2. CASE Boot \/ FallBack
  BY <1>2 DEF Boot, FallBack, apiVars
<1>3. CASE RenderPod
  BY <1>3 DEF RenderPod, NodeTypeOK, NodeDataOK, NodeAssumption
<1>4. CASE StopContainer
  BY <1>4 DEF StopContainer, ReplacePending
<1>5. CASE StartContainer
  BY <1>5 DEF StartContainer
<1>6. CASE BecomeReady
  BY <1>6 DEF BecomeReady
<1> QED BY <1>1, <1>2, <1>3, <1>4, <1>5, <1>6 DEF NodeStep

LEMMA RebootGoesOn ==
  ASSUME UnderWay, desired' = desired, Reboot
  PROVE  UnderWay' /\ Replaced' /\ ~Old(container)'
BY DEF Reboot, GoDown, UnderWay, Replaced, Old

\* Whatever was seen before, nothing is left of it.
LEMMA ReplacedAbsorbs ==
  ASSUME UnderWay, Replaced
  PROVE  \A b, a : Absorbing(b, a)
BY DEF UnderWay, Replaced, Old, Absorbing, Unchanged, InTime

LEMMA RebootAbsorbs ==
  ASSUME NEW b, NEW a, UnderWay, desired' = desired, Reboot
  PROVE  Absorbing(b, a)'
BY DEF Reboot, GoDown, Absorbing, UnderWay, Unchanged, InTime, Old

LEMMA UnderWayFrame ==
  ASSUME UnderWay, UNCHANGED <<up, config, rendered, pod, container, started, ready, desired>>
  PROVE  /\ UnderWay'
         /\ \A b : Unchanged(b)' = Unchanged(b)
         /\ Replaced' = Replaced
         /\ Old(container)' = Old(container)
BY DEF UnderWay, Unchanged, Replaced, Old

LEMMA TickAbsorbs ==
  ASSUME NodeAssumption, NodeTypeOK, NEW b, NEW a, NEW e, a \in Nat, e \in Nat, e <= a + 1,
         Absorbing(b, a), desired' = desired, NodeTick
  PROVE  Absorbing(b, e)'
<1>1. UNCHANGED <<up, config, rendered, pod, container, started, ready>>
  BY DEF NodeTick
<1>2. UnderWay' /\ Unchanged(b)'
  BY <1>1, UnderWayFrame DEF Absorbing
<1>3. renderAge \in Nat /\ kubeletAge \in Nat /\ TalosLag \in Nat
  BY DEF NodeTypeOK, NodeDataOK, NodeAssumption
<1>4. Old(pod) => e <= renderAge'
  BY <1>3 DEF Absorbing, UnderWay, InTime, NodeTick, RenderPending, Old
<1>5. container \notin {None, pod} => rendered # b.rendered /\ e <= TalosLag + kubeletAge'
  BY <1>3 DEF Absorbing, UnderWay, InTime, NodeTick, ReplacePending
<1> QED BY <1>1, <1>2, <1>4, <1>5 DEF Absorbing, InTime, Old

\* A record is dropped for its age only when nothing is left of what it says.
LEMMA OldIsReplaced ==
  ASSUME NodeAssumption, NodeTypeOK, NEW b, Absorbing(b, RecordTTL), RecordOutlivesReplace,
         HookAssumption
  PROVE  Replaced
<1>1. /\ renderAge \in 0 .. TalosLag /\ kubeletAge \in 0 .. KubeletLag
      /\ TalosLag \in Nat /\ KubeletLag \in Nat /\ RecordTTL \in Nat
  BY DEF NodeTypeOK, NodeDataOK, NodeAssumption, HookAssumption
<1>2. ~Old(pod)
  BY <1>1 DEF Absorbing, InTime, RecordOutlivesReplace
<1>3. container \in {None, pod}
  BY <1>1 DEF Absorbing, InTime, RecordOutlivesReplace
<1> QED BY <1>2, <1>3 DEF Replaced, Old

LEMMA AbsorbingFrame ==
  ASSUME NEW b, NEW a, Absorbing(b, a), UNCHANGED <<up, config, apiVars, desired>>
  PROVE  Absorbing(b, a)'
BY DEF Absorbing, UnderWay, Unchanged, InTime, Old, apiVars

\* The first apply finds kube-apiserver at rest; what was seen of it is what is there.
LEMMA ApplyAbsorbs ==
  ASSUME NodeAssumption, NodeTypeOK, desired \in Configs, Calm, AcceptConfig(desired),
         desired' = desired, NEW b, b = APIServer(rendered)
  PROVE  Absorbing(b, 0)'
<1>1. config' = desired /\ config \in Configs
  BY DEF AcceptConfig, NodeTypeOK, NodeDataOK
<1>2. /\ pod # None /\ container = pod /\ b.rendered = rendered /\ b.started = started
      /\ up /\ ready /\ rendered # 0 /\ renderAge \in Nat
  BY <1>1 DEF Calm, APIServer, NodeAssumption, NodeTypeOK, NodeDataOK
<1>3. CASE GoDown
  BY <1>1, <1>3 DEF GoDown, Absorbing, UnderWay, Unchanged, InTime, Old
<1>4. CASE /\ renderAge' = IF desired = config THEN renderAge ELSE 0
           /\ UNCHANGED <<up, rendered, pod, container, started, ready, kubeletAge>>
  <2>1. UnderWay' /\ Unchanged(b)'
    BY <1>1, <1>2, <1>4 DEF UnderWay, Unchanged, Old
  <2>2. InTime(b, 0)'
    BY <1>2, <1>4 DEF InTime
  <2> QED BY <2>1, <2>2 DEF Absorbing
<1> QED BY <1>3, <1>4 DEF AcceptConfig

\* A call that finds the static pod as it was before the apply, while what ran then still runs,
\* reads it in the time Talos takes.
LEMMA OldIsReadInTime ==
  ASSUME NodeAssumption, NodeTypeOK, NEW b, NEW a \in Nat, Absorbing(b, a),
         rendered = b.rendered, Old(container)
  PROVE  a <= TalosLag
BY DEF NodeAssumption, NodeTypeOK, NodeDataOK, Absorbing, UnderWay, InTime, Old

\* What apiServerSettled concludes is right: a container started since the observation runs the
\* pod of the desired configuration; and a pod unchanged for longer than Talos takes is that pod,
\* and runs.
LEMMA SettledIsCalm ==
  ASSUME NodeTypeOK, NEW r \in Records, Absorbing(r.before, r.age), TalosLag < SettleWindow,
         NEW v \in Nat, v = r.before.rendered /\ Old(container) => r.age < SettleWindow,
         NodeAssumption, HookAssumption, up, Settled(r, APIServer(v))
  PROVE  Calm
<1>1. /\ r.before.started \in Nat /\ r.before.rendered \in Nat /\ r.age \in Nat
      /\ started \in Nat
      /\ renderAge \in 0 .. TalosLag
      /\ TalosLag \in Nat /\ SettleWindow \in Nat
  BY DEF Records, APIServerStates, NodeTypeOK, NodeDataOK, HookAssumption, NodeAssumption
<1>2. ready /\ v # 0
  BY DEF Settled, APIServer
<1>3. container # None /\ pod # None /\ rendered # 0
  BY <1>2 DEF Absorbing, UnderWay
<1>4. ~Old(container)
  <2>1. CASE v # r.before.rendered
    <3>1. started > r.before.started
      BY <1>2, <1>3, <2>1 DEF Settled, APIServer
    <3> QED BY <1>1, <3>1 DEF Absorbing, Unchanged
  <2>2. CASE v = r.before.rendered
    <3>1. r.age >= SettleWindow
      BY <1>2, <2>2 DEF Settled, APIServer
    <3> QED BY <1>1, <2>2, <3>1
  <2> QED BY <2>1, <2>2
<1>5. container = PodOf[desired]
  BY <1>3, <1>4 DEF Old
<1>6. pod = PodOf[desired]
  BY <1>3, <1>5 DEF Absorbing, UnderWay, Old
<1> QED BY <1>2, <1>3, <1>5, <1>6 DEF Calm, Absorbing, UnderWay

\* A kube-apiserver at rest takes no step of its own.
LEMMA CalmIsStill ==
  ASSUME NodeAssumption, NodeTypeOK, selfUpgrade = None, Calm
  PROVE  ~NodeStep /\ ~FallBack
<1>1. container # None
  BY DEF Calm, NodeAssumption, NodeTypeOK, NodeDataOK
<1> QED BY <1>1 DEF Calm, NodeStep, FallBack, SelfUpgrade, Boot, RenderPod, StopContainer,
                    ReplacePending, StartContainer, BecomeReady

LEMMA CalmFrame ==
  ASSUME Calm, UNCHANGED <<up, config, rendered, pod, container, ready>>
  PROVE  Calm'
BY DEF Calm

----------------------------------------------------------------------------
(* The versions nodes and calls know of. *)

LEMMA NobodyLegacy ==
  ASSUME LifecycleOnly, Inv, OneInv, Basics, NEW c \in Calls
  PROVE  call[c].at # "legacy"
BY CallKnowledge DEF Knows, Basics, CallBasics

\* Where each step takes a call, and what it takes along.
LEMMA CallTable ==
  ASSUME Inv, NEW c \in Calls
  PROVE  /\ CallHook(c) => call'[c].at = "version" /\ call'[c].rec = call[c].rec
         /\ ReadVersion(c) =>
              /\ call'[c].at = IF ControlPlane THEN "lookup" ELSE "apply"
              /\ call'[c].tag = TagOf[running] /\ call'[c].rec = call[c].rec
         /\ LookupRecord(c) =>
              /\ call'[c].tag = call[c].tag
              /\ IF applies # None /\ applies.cfg = call[c].cfg
                   THEN call'[c].at = "apply" /\ call'[c].rec = applies
                   ELSE call'[c].at = "observe" /\ call'[c].rec = call[c].rec
         /\ ObserveBefore(c) =>
              /\ call'[c].at = IF rendered = 0 THEN "apply" ELSE "observeStatus"
              /\ call'[c].tag = call[c].tag
              /\ call'[c].rec = call[c].rec /\ call'[c].pod = rendered
         /\ ObserveStatus(c) =>
              /\ call'[c].at = "apply" /\ call'[c].tag = call[c].tag
              /\ call'[c].rec = call[c].rec /\ call'[c].before = APIServer(call[c].pod)
         /\ ApplyConfig(c) =>
              /\ call'[c].at = IF ControlPlane /\ call[c].rec = None THEN "record"
                                                                     ELSE AfterApply(c)
              /\ call'[c].tag = call[c].tag
              /\ call'[c].rec = call[c].rec /\ call'[c].before = call[c].before
         /\ RecordApply(c) =>
              /\ call'[c].at = AfterApply(c) /\ call'[c].tag = call[c].tag
              /\ call'[c].rec = applies'
         /\ LookAtUpgrade(c) => call'[c].at = "act" /\ call'[c].tag = call[c].tag
         /\ Settle(c) => IF rendered = 0
                           THEN call'[c] = Idle
                           ELSE /\ call'[c].at = "settleStatus" /\ call'[c].tag = call[c].tag
                                /\ call'[c].rec = call[c].rec /\ call'[c].pod = rendered
                                /\ call'[c].spent = call[c].spent
         /\ SettleStatus(c) => IF Settled(call[c].rec, APIServer(call[c].pod))
                                 THEN call'[c].at = "finish" /\ call'[c].tag = call[c].tag
                                 ELSE call'[c] = Idle
         /\ LegacyUpgrade(c) \/ ContinueUpgrade(c) \/ Finish(c) \/ FailRPC(c) \/ BreakRPC(c) =>
              call'[c] = Idle
<1>1. call \in [Calls -> CallStates] /\ call[c] \in CallStates
  BY DEF Inv, CallsInv
<1>2. CallHook(c) => call'[c].at = "version" /\ call'[c].rec = call[c].rec
  BY <1>1 DEF CallHook, CallStates
<1>3. ReadVersion(c) =>
        /\ call'[c].at = IF ControlPlane THEN "lookup" ELSE "apply"
        /\ call'[c].tag = TagOf[running] /\ call'[c].rec = call[c].rec
  BY <1>1 DEF ReadVersion, CallStates
<1>4. LookupRecord(c) =>
        /\ call'[c].tag = call[c].tag
        /\ IF applies # None /\ applies.cfg = call[c].cfg
             THEN call'[c].at = "apply" /\ call'[c].rec = applies
             ELSE call'[c].at = "observe" /\ call'[c].rec = call[c].rec
  BY <1>1 DEF LookupRecord, Goto, CallStates
<1>5. ObserveBefore(c) =>
        /\ call'[c].at = IF rendered = 0 THEN "apply" ELSE "observeStatus"
        /\ call'[c].tag = call[c].tag
        /\ call'[c].rec = call[c].rec /\ call'[c].pod = rendered
  BY <1>1 DEF ObserveBefore, CallStates
<1>6. ObserveStatus(c) =>
        /\ call'[c].at = "apply" /\ call'[c].tag = call[c].tag
        /\ call'[c].rec = call[c].rec /\ call'[c].before = APIServer(call[c].pod)
  BY <1>1 DEF ObserveStatus, CallStates
<1>7. ApplyConfig(c) =>
        /\ call'[c].at = IF ControlPlane /\ call[c].rec = None THEN "record" ELSE AfterApply(c)
        /\ call'[c].tag = call[c].tag
        /\ call'[c].rec = call[c].rec /\ call'[c].before = call[c].before
  BY <1>1 DEF ApplyConfig, Goto, CallStates
<1>8. RecordApply(c) =>
        /\ call'[c].at = AfterApply(c) /\ call'[c].tag = call[c].tag
        /\ call'[c].rec = applies'
  BY <1>1 DEF RecordApply, CallStates
<1>9. LookAtUpgrade(c) => call'[c].at = "act" /\ call'[c].tag = call[c].tag
  BY <1>1 DEF LookAtUpgrade, CallStates
<1>10. Settle(c) => IF rendered = 0
                      THEN call'[c] = Idle
                      ELSE /\ call'[c].at = "settleStatus" /\ call'[c].tag = call[c].tag
                           /\ call'[c].rec = call[c].rec /\ call'[c].pod = rendered
                           /\ call'[c].spent = call[c].spent
  BY <1>1 DEF Settle, Return, CallStates
<1>11. SettleStatus(c) => IF Settled(call[c].rec, APIServer(call[c].pod))
                            THEN call'[c].at = "finish" /\ call'[c].tag = call[c].tag
                            ELSE call'[c] = Idle
  BY <1>1 DEF SettleStatus, Goto, Return, CallStates
<1>12. LegacyUpgrade(c) \/ ContinueUpgrade(c) \/ Finish(c) \/ FailRPC(c) \/ BreakRPC(c) =>
         call'[c] = Idle
  BY <1>1 DEF LegacyUpgrade, ContinueUpgrade, Finish, FailRPC, BreakRPC, Return
<1> QED BY <1>2, <1>3, <1>4, <1>5, <1>6, <1>7, <1>8, <1>9, <1>10, <1>11, <1>12

LEMMA BasicsFrame ==
  ASSUME Basics,
         \A c \in Calls : /\ call'[c].at = call[c].at /\ call'[c].tag = call[c].tag
                          /\ call[c].rec = None => call'[c].rec = None,
         UNCHANGED <<running, selfUpgrade>>
  PROVE  Basics'
BY DEF Basics, CallBasics

LEMMA CallBasicsStep ==
  ASSUME ControlPlane, LifecycleOnly, Sequential, Inv, OneInv, Basics,
         NEW c \in Calls, CallHook(c) \/ CallStep(c) \/ BreakRPC(c)
  PROVE  Basics'
<1>1. CallBasics(call[c]) /\ TagOf[running] \in LifecycleTags
  BY DEF Basics
<1>2. UNCHANGED <<running, selfUpgrade>>
  BY NobodyLegacy DEF CallHook, CallStep, BreakRPC, ReadVersion, LookupRecord, ObserveBefore,
     ObserveStatus, ApplyConfig, AcceptConfig, RecordApply, LegacyUpgrade, LookAtUpgrade,
     ContinueUpgrade, Settle, SettleStatus, Finish, FailRPC, nodeVars
<1>3. AfterApply(c) \in {"legacy", "look", "settle", "finish"}
  BY AfterApplyType
<1>4. CallBasics(call'[c])
  <2>1. CASE CallHook(c)
    BY <1>1, <2>1, CallTable DEF CallHook, CallBasics, NotAsked
  <2>2. CASE ReadVersion(c)
    BY <1>1, <2>2, CallTable DEF ReadVersion, CallBasics, NotAsked
  <2>3. CASE LookupRecord(c)
    BY <1>1, <2>3, CallTable DEF LookupRecord, CallBasics, NotAsked
  <2>4. CASE ObserveBefore(c)
    BY <1>1, <2>4, CallTable DEF ObserveBefore, CallBasics, NotAsked
  <2>5. CASE ApplyConfig(c)
    BY <1>1, <1>3, <2>5, CallTable DEF ApplyConfig, CallBasics, NotAsked
  <2>6. CASE RecordApply(c)
    BY <1>1, <1>3, <2>6, CallTable DEF RecordApply, CallBasics, NotAsked
  <2>7. CASE LookAtUpgrade(c)
    BY <1>1, <2>7, CallTable DEF LookAtUpgrade, CallBasics, NotAsked
  <2>8. CASE ObserveStatus(c)
    BY <1>1, <2>8, CallTable DEF ObserveStatus, CallBasics, NotAsked
  <2>9. CASE Settle(c)
    BY <1>1, <2>9, CallTable DEF Settle, CallBasics, NotAsked, Idle
  <2>10. CASE SettleStatus(c)
    BY <1>1, <2>10, CallTable DEF SettleStatus, CallBasics, NotAsked, Idle
  <2>11. CASE LegacyUpgrade(c) \/ ContinueUpgrade(c) \/ Finish(c) \/ FailRPC(c) \/ BreakRPC(c)
    BY <2>11, CallTable DEF CallBasics, Idle
  <2> QED BY <2>1, <2>2, <2>3, <2>4, <2>5, <2>6, <2>7, <2>8, <2>9, <2>10, <2>11 DEF CallStep
<1>5. \A d \in Calls : d = c
  BY DEF Sequential
<1> QED BY <1>1, <1>2, <1>4, <1>5 DEF Basics, CallBasics

\* What comes up on the node is what ran before, or the desired image.
LEMMA NodeBasics ==
  ASSUME LifecycleOnly, Inv, OneInv, Basics, NodeProgress \/ NodeFault
  PROVE  Basics'
<1>1. UNCHANGED call
  BY DEF NodeProgress, NodeFault, hookVars
<1>2. selfUpgrade' = None /\ (running' = running \/ running' = installed)
  BY DEF Basics, NodeProgress, NodeFault, NodeStep, SelfUpgrade, Boot, FallBack, RenderPod,
         StopContainer, StartContainer, BecomeReady
<1>3. installed = running \/ installed = ImageOf[desired]
  BY DEF OneInv, PendingExpected, Expected
<1>4. desired \in Configs
  BY DEF Inv, OwnerDataOK
<1> QED BY <1>1, <1>2, <1>3, <1>4 DEF Basics, CallBasics, LifecycleOnly

LEMMA OtherBasics ==
  ASSUME Inv, Basics,
         \/ StartUpdate \/ Render \/ Delete \/ Tick \/ EvictRecord \/ Restart \/ Abandon
         \/ UNCHANGED vars
         \/ \E i \in Seqs : SequenceProgress(i) \/ Outdate(i) \/ WatchDeletion(i) \/ SequenceFault(i)
  PROVE  Basics'
<1>1. CASE StartUpdate \/ Render \/ Delete \/ EvictRecord \/ Abandon \/ UNCHANGED vars
  BY <1>1, BasicsFrame DEF StartUpdate, Render, Delete, EvictRecord, Abandon, vars, hookVars, nodeVars
<1>2. CASE Tick
  <2>1. UNCHANGED <<running, selfUpgrade>>
    BY <1>2 DEF Tick, NodeTick
  <2>2. \A c \in Calls : /\ call'[c].at = call[c].at /\ call'[c].tag = call[c].tag
                         /\ call[c].rec = None => call'[c].rec = None
    BY <1>2 DEF Tick, Older, Inv, CallsInv, CallStates
  <2> QED BY <2>1, <2>2, BasicsFrame
<1>3. CASE Restart
  BY <1>3 DEF Restart, Basics, CallBasics, Idle, nodeVars
<1>4. ASSUME NEW i \in Seqs,
             SequenceProgress(i) \/ Outdate(i) \/ WatchDeletion(i) \/ SequenceFault(i)
      PROVE  Basics'
  BY <1>4, BasicsFrame
     DEF SequenceProgress, Outdate, WatchDeletion, SequenceFault, SequenceStep, Connect, Pull,
         Install, Advance, InstallImage, RequestReboot, Reboot, StopSequence, BreakSequence, Expire,
         nodeVars, hookVars
<1> QED BY <1>1, <1>2, <1>3, <1>4

LEMMA BasicsStep ==
  ASSUME ControlPlane, LifecycleOnly, Sequential, Inv, OneInv, Basics, [Next]_vars
  PROVE  Basics'
<1>1. CASE \E c \in Calls : CallHook(c) \/ CallStep(c) \/ BreakRPC(c)
  BY <1>1, CallBasicsStep
<1> QED BY <1>1, NodeBasics, OtherBasics DEF Next, Lossless

----------------------------------------------------------------------------
(* The steps of the call, phase by phase. *)

\* Unless it applies a configuration, a call leaves the node as it is: an apply that is broken off
\* changes nothing as long as its answer is not lost.
LEMMA CallLeavesNode ==
  ASSUME LifecycleOnly, Inv, OneInv, Basics,
         NEW c \in Calls, CallHook(c) \/ CallStep(c) \/ BreakRPC(c),
         ApplyConfig(c) => config = desired,
         BreakRPC(c) => config' = config
  PROVE  UNCHANGED <<up, config, running, installed, apiVars>>
<1>1. call[c].at # "legacy"
  BY NobodyLegacy
<1>2. CASE ApplyConfig(c) \/ BreakRPC(c)
  <2>1. call[c].cfg = desired
    BY <1>2, CallKnowledge DEF ApplyConfig, BreakRPC, NodeRPCs
  <2> QED BY <1>1, <1>2, <2>1 DEF ApplyConfig, BreakRPC, AcceptConfig, apiVars, nodeVars
<1> QED BY <1>1, <1>2 DEF CallHook, CallStep, ReadVersion, LookupRecord, ObserveBefore, ObserveStatus,
        RecordApply, LegacyUpgrade, LookAtUpgrade, ContinueUpgrade, Settle, SettleStatus, Finish,
        FailRPC, nodeVars, apiVars

LEMMA CallLeavesOwner ==
  ASSUME NEW c \in Calls, CallHook(c) \/ CallStep(c) \/ BreakRPC(c)
  PROVE  /\ UNCHANGED <<desired, deleting>>
         /\ ~Finish(c) => updating' = updating
BY DEF CallHook, CallStep, BreakRPC, ReadVersion, LookupRecord, ObserveBefore, ObserveStatus,
       ApplyConfig, RecordApply, LegacyUpgrade, LookAtUpgrade, ContinueUpgrade, Settle,
       SettleStatus, Finish, FailRPC, ownerVars

LEMMA CallLeavesTrackers ==
  ASSUME NEW c \in Calls, CallHook(c) \/ CallStep(c) \/ BreakRPC(c),
         ~ContinueUpgrade(c), ~Finish(c)
  PROVE  /\ UNCHANGED trackerVars
         /\ ~RecordApply(c) => applies' = applies
BY DEF CallHook, CallStep, BreakRPC, ReadVersion, LookupRecord, ObserveBefore, ObserveStatus,
       ApplyConfig, RecordApply, LegacyUpgrade, LookAtUpgrade, Settle, SettleStatus, FailRPC

LEMMA UnaskedCallStep ==
  ASSUME ControlPlane, LifecycleOnly, Sequential, Inv, OneInv, Basics, Unasked,
         NEW c \in Calls, CallHook(c) \/ CallStep(c) \/ BreakRPC(c),
         BreakRPC(c) => config' = config
  PROVE  Unasked' \/ Recording'
<1>1. UnaskedCall(call[c]) /\ CallBasics(call[c]) /\ \A d \in Calls : d = c
  BY DEF Unasked, Basics, Sequential
<1>a. call[c].at \in {"idle", "version", "lookup", "observe", "observeStatus", "apply"}
  BY <1>1 DEF UnaskedCall, NotAsked
<1>2. /\ ~ContinueUpgrade(c) /\ ~Finish(c) /\ ~RecordApply(c) /\ ~LookAtUpgrade(c)
      /\ ~Settle(c) /\ ~SettleStatus(c)
  BY <1>a DEF ContinueUpgrade, Finish, RecordApply, Settle, SettleStatus, LookAtUpgrade
<1>3. UNCHANGED <<applies, desired>> /\ applies = None
  BY <1>2, CallLeavesTrackers, CallLeavesOwner DEF Unasked
<1>4. NoneInFlight'
  BY <1>2, CallLeavesTrackers DEF Unasked, NoneInFlight, Live, trackerVars
<1>5. CASE ApplyConfig(c)
  <2>1. call[c].cfg = desired /\ call[c].at = "apply" /\ desired \in Configs
    BY <1>5, CallFacts DEF ApplyConfig
  <2>2. call[c].rec = None /\ call[c].before = APIServer(rendered)
    BY <1>1, <2>1 DEF UnaskedCall, NotAsked
  <2>3. PICK b : b = APIServer(rendered)
    OBVIOUS
  <2>4. Absorbing(b, 0)'
    BY <1>3, <1>5, <2>1, <2>3, NodeAssumption, ApplyAbsorbs DEF ApplyConfig, Inv, Unasked
  <2>5. call'[c].at = "record" /\ call'[c].before = b
    BY <1>5, <2>2, <2>3, CallTable
  <2>6. Absorbing(call[c].before, 0)'
    BY <2>4, <2>5 DEF Absorbing, UnderWay, Unchanged, InTime, Old
  <2> QED BY <1>3, <1>4, <2>5, <2>6 DEF Recording
<1>6. CASE ~ApplyConfig(c)
  <2>1. UNCHANGED <<up, config, apiVars>>
    BY <1>6, CallLeavesNode
  <2>2. Calm' /\ UNCHANGED rendered /\ rendered # 0
    BY <2>1, CalmFrame DEF Unasked, Calm, apiVars
  <2>3. UnaskedCall(call[c])'
    <3>1. CASE CallHook(c) \/ ReadVersion(c)
      BY <3>1, CallTable DEF UnaskedCall, NotAsked
    <3>2. CASE LookupRecord(c)
      BY <1>3, <3>2, CallTable DEF UnaskedCall, NotAsked
    <3>3. CASE ObserveBefore(c)
      BY <2>2, <3>3, CallTable DEF UnaskedCall
    <3>4. CASE ObserveStatus(c)
      <4>1. call[c].pod = rendered /\ call[c].rec = None
        BY <1>1, <3>4 DEF ObserveStatus, UnaskedCall, CallBasics, NotAsked
      <4>2. /\ call'[c].at = "apply" /\ call'[c].rec = None
            /\ call'[c].before = APIServer(rendered)
        BY <3>4, <4>1, CallTable
      <4>3. APIServer(rendered)' = APIServer(rendered)
        BY <2>1 DEF APIServer, apiVars
      <4> QED BY <4>2, <4>3 DEF UnaskedCall
    <3>5. CASE LegacyUpgrade(c) \/ FailRPC(c) \/ BreakRPC(c)
      BY <3>5, CallTable DEF UnaskedCall, NotAsked, Idle
    <3> QED BY <1>2, <1>6, <3>1, <3>2, <3>3, <3>4, <3>5 DEF CallStep
  <2> QED BY <1>1, <1>3, <1>4, <2>2, <2>3 DEF Unasked
<1> QED BY <1>5, <1>6

\* Once it is on record, kube-apiserver is on its way since what was seen before the apply.
LEMMA RecordApplyRecords ==
  ASSUME ControlPlane, Sequential, Inv, OneInv, Basics,
         NEW c \in Calls, RecordApply(c), Absorbing(call[c].before, 0)
  PROVE  Recorded'
<1>1. call[c].at = "record" /\ \A d \in Calls : d = c
  BY DEF RecordApply, Sequential
<1>2. updating /\ call[c].cfg = desired /\ call[c].tag \in LifecycleTags
  BY <1>1, CallKnowledge DEF Basics, CallBasics
<1>3. applies' = [cfg |-> desired, before |-> call[c].before, age |-> 0]
  BY <1>2 DEF RecordApply
<1>4. applies' # None
  <2>1. applies' \in Records
    BY <1>1, <1>2, <1>3, HookAssumption, CallFacts DEF HookAssumption, Records, CallStates
  <2> QED BY <2>1, RecordAssumption DEF RecordAssumption, Records
<1>5. UNCHANGED <<up, config, apiVars, desired, updating>>
  BY DEF RecordApply, nodeVars, ownerVars
<1>6. PICK b : b = call[c].before
  OBVIOUS
<1>7. Absorbing(b, 0)'
  BY <1>5, <1>6, AbsorbingFrame
<1>8. Absorbing(applies.before, applies.age)'
  BY <1>3, <1>6, <1>7 DEF Absorbing, UnderWay, Unchanged, InTime, Old
<1>9. call'[c].at \in {"look", "settle"} /\ call'[c].rec = applies'
  BY <1>2, CallTable DEF AfterApply
<1>10. RecordedCall(call[c])' /\ ReadInTime(c)'
  BY <1>9 DEF RecordedCall, ReadInTime
<1> QED BY <1>1, <1>2, <1>3, <1>4, <1>5, <1>8, <1>10 DEF Recorded

LEMMA RecordingCallStep ==
  ASSUME ControlPlane, Sequential, Inv, OneInv, Basics, Recording,
         NEW c \in Calls, CallHook(c) \/ CallStep(c) \/ BreakRPC(c)
  PROVE  Recorded'
<1>1. call[c].at = "record" /\ Absorbing(call[c].before, 0)
  BY DEF Recording, Sequential
<1>2. RecordApply(c)
  BY <1>1 DEF CallHook, CallStep, BreakRPC, ReadVersion, LookupRecord, ObserveBefore, ObserveStatus,
     ApplyConfig, LegacyUpgrade, LookAtUpgrade, ContinueUpgrade, Settle, SettleStatus, Finish,
     FailRPC, NodeRPCs
<1> QED BY <1>1, <1>2, RecordApplyRecords

LEMMA FinishUnasked ==
  ASSUME ControlPlane, Sequential, Inv, OneInv, NEW c \in Calls, Finish(c), Calm
  PROVE  Unasked'
<1>1. Calm'
  BY CalmFrame DEF Finish, nodeVars, apiVars
<1>2. NoneInFlight'
  BY SeqAssumption, CancelStops DEF Inv, Finish, NoneInFlight
<1>3. call'[c] = Idle /\ \A d \in Calls : d = c
  BY CallTable DEF Sequential
<1> QED BY <1>1, <1>2, <1>3 DEF Unasked, UnaskedCall, NotAsked, Idle, Finish

\* With the desired configuration on the node a call leaves the node alone.
LEMMA LaterCallLeavesNode ==
  ASSUME LifecycleOnly, Inv, OneInv, Basics, UnderWay,
         NEW c \in Calls, CallHook(c) \/ CallStep(c) \/ BreakRPC(c)
  PROVE  UNCHANGED <<up, config, apiVars>>
<1>1. config = desired
  BY DEF UnderWay
<1>2. BreakRPC(c) => call[c].cfg = desired
  BY CallKnowledge DEF BreakRPC, NodeRPCs
<1>3. BreakRPC(c) => config' = config
  BY <1>1, <1>2 DEF BreakRPC, AcceptConfig, AcceptUpgrade, nodeVars
<1> QED BY <1>1, <1>3, CallLeavesNode

\* Where a call stands between its two last reads of kube-apiserver.
LEMMA SettleReadsInTime ==
  ASSUME NodeAssumption, Inv, Absorbing(applies.before, applies.age), applies \in Records,
         NEW c \in Calls, Settle(c), rendered # 0, UNCHANGED <<applies, container, desired>>
  PROVE  ReadInTime(c)'
<1>1. call'[c].pod = rendered /\ call'[c].spent = call[c].spent
  BY CallTable
<1>2. call[c].spent \in Nat /\ TalosLag \in Nat /\ applies.age \in Nat
  BY NodeAssumption DEF NodeAssumption, Inv, CallsInv, CallStates, Records
<1>3. PICK b : b = applies.before
  OBVIOUS
<1>4. PICK a \in Nat : a = applies.age
  BY <1>2
<1>5. Absorbing(b, a)
  BY <1>3, <1>4
<1>6. rendered = b.rendered /\ Old(container) => a <= TalosLag
  BY <1>5, NodeAssumption, OldIsReadInTime DEF Inv
<1> QED BY <1>1, <1>2, <1>3, <1>4, <1>6 DEF ReadInTime, Old

LEMMA RecordedCallStep ==
  ASSUME ControlPlane, LifecycleOnly, WindowCoversRender, Sequential, Inv, OneInv, Basics, Recorded,
         NEW c \in Calls, CallHook(c) \/ CallStep(c) \/ BreakRPC(c)
  PROVE  Recorded' \/ Unasked'
<1>1. /\ RecordedCall(call[c]) /\ ReadInTime(c) /\ CallBasics(call[c])
      /\ \A d \in Calls : d = c
  BY DEF Recorded, Basics, Sequential
<1>2. CASE Finish(c)
  <2>1. Calm
    BY <1>1, <1>2 DEF RecordedCall, Finish
  <2> QED BY <1>2, <2>1, FinishUnasked
<1>3. CASE ~Finish(c)
  <2>1. ~RecordApply(c) /\ ~ObserveBefore(c) /\ ~ObserveStatus(c)
    BY <1>1 DEF RecordApply, ObserveBefore, ObserveStatus, RecordedCall
  <2>2. UNCHANGED <<applies, desired, updating>>
    BY <1>3, <2>1, CallLeavesTrackers, CallLeavesOwner DEF ContinueUpgrade
  <2>3. UNCHANGED <<up, config, apiVars>>
    BY LaterCallLeavesNode DEF Recorded, Absorbing
  <2>4. PICK b : b = applies.before
    OBVIOUS
  <2>5. PICK a : a = applies.age
    OBVIOUS
  <2>6. Absorbing(b, a)'
    BY <2>2, <2>3, <2>4, <2>5, AbsorbingFrame DEF Recorded
  <2>7. Absorbing(applies.before, applies.age)'
    BY <2>2, <2>4, <2>5, <2>6 DEF Absorbing, UnderWay, Unchanged, InTime, Old
  <2>8. applies \in Records /\ applies # None
    BY DEF Recorded, Inv, HookTypeOK
  <2>9. RecordedCall(call[c])' /\ ReadInTime(c)'
    <3>1. CASE CallHook(c) \/ ReadVersion(c) \/ LookAtUpgrade(c)
      BY <3>1, CallTable DEF RecordedCall, ReadInTime
    <3>2. CASE LookupRecord(c)
      <4>1. applies # None /\ applies.cfg = call[c].cfg
        BY <3>2, CallKnowledge DEF LookupRecord, Recorded
      <4> QED BY <2>2, <3>2, <4>1, CallTable DEF RecordedCall, ReadInTime
    <3>3. CASE ApplyConfig(c)
      <4>1. call[c].rec = applies /\ applies # None /\ call[c].tag \in LifecycleTags
        BY <1>1, <2>8, <3>3 DEF ApplyConfig, RecordedCall, CallBasics
      <4>2. AfterApply(c) \in {"look", "settle"}
        BY <4>1 DEF AfterApply
      <4>3. call'[c].at = AfterApply(c) /\ call'[c].rec = call[c].rec
        BY <3>3, <4>1, CallTable
      <4> QED BY <2>2, <4>1, <4>2, <4>3 DEF RecordedCall, ReadInTime
    <3>4. CASE Settle(c) /\ rendered = 0
      BY <3>4, CallTable DEF RecordedCall, ReadInTime, Idle
    <3>5. CASE Settle(c) /\ rendered # 0
      <4>1. call[c].rec = applies
        BY <1>1, <3>5 DEF Settle, RecordedCall
      <4>2. RecordedCall(call[c])'
        BY <2>2, <3>5, <4>1, CallTable DEF RecordedCall
      <4>3. ReadInTime(c)'
        BY <2>2, <2>3, <2>8, <3>5, NodeAssumption, SettleReadsInTime DEF Recorded, apiVars
      <4> QED BY <4>2, <4>3
    <3>6. CASE SettleStatus(c)
      <4>1. /\ call[c].rec = applies /\ up /\ waiting = c /\ call[c].at = "settleStatus"
            /\ call[c].pod \in Nat /\ call[c].spent \in 0 .. CallTimeout
        BY <1>1, <3>6, CallFacts DEF SettleStatus, Attended, RecordedCall, CallStates
      <4>2. CASE Settled(applies, APIServer(call[c].pod))
        <5>1. /\ TalosLag \in Nat /\ SettleWindow \in Nat /\ CallTimeout \in Nat
              /\ applies.age \in Nat
          BY <2>8, NodeAssumption, HookAssumption DEF NodeAssumption, HookAssumption, Records
        <5>2. TalosLag < SettleWindow
          BY <5>1 DEF WindowCoversRender
        <5>3. call[c].pod = applies.before.rendered /\ Old(container) =>
                applies.age < SettleWindow
          BY <1>1, <4>1, <5>1 DEF ReadInTime, WindowCoversRender
        <5>4. Calm
          BY <2>8, <4>1, <4>2, <5>2, <5>3, NodeAssumption, HookAssumption, SettledIsCalm
             DEF Recorded, Inv
        <5>5. Calm'
          BY <2>3, <5>4, CalmFrame DEF apiVars
        <5> QED BY <3>6, <4>1, <4>2, <5>5, CallTable DEF RecordedCall, ReadInTime
      <4>3. CASE ~Settled(applies, APIServer(call[c].pod))
        BY <3>6, <4>1, <4>3, CallTable DEF RecordedCall, ReadInTime, Idle
      <4> QED BY <4>2, <4>3
    <3>7. CASE LegacyUpgrade(c) \/ ContinueUpgrade(c) \/ FailRPC(c) \/ BreakRPC(c)
      BY <3>7, CallTable DEF RecordedCall, ReadInTime, Idle
    <3> QED BY <1>3, <2>1, <3>1, <3>2, <3>3, <3>4, <3>5, <3>6, <3>7 DEF CallStep
  <2> QED BY <1>1, <2>2, <2>7, <2>9 DEF Recorded
<1> QED BY <1>2, <1>3

\* Once the record is dropped, what a call still says of it can do no harm.
LEMMA ForgottenCallStep ==
  ASSUME ControlPlane, LifecycleOnly, WindowCoversRender, Sequential, Inv, OneInv, Basics, Forgotten,
         NEW c \in Calls, CallHook(c) \/ CallStep(c) \/ BreakRPC(c)
  PROVE  Forgotten' \/ Recorded' \/ Unasked'
<1>1. /\ ForgottenCall(call[c]) /\ CallBasics(call[c]) /\ UnderWay /\ Replaced
      /\ \A d \in Calls : d = c
  BY DEF Forgotten, Basics, Sequential
<1>2. CASE Finish(c)
  <2>1. Calm
    BY <1>1, <1>2 DEF ForgottenCall, Finish
  <2> QED BY <1>2, <2>1, FinishUnasked
<1>3. CASE RecordApply(c)
  BY <1>1, <1>3, ReplacedAbsorbs, RecordApplyRecords
<1>4. CASE ~Finish(c) /\ ~RecordApply(c)
  <2>1. UNCHANGED <<applies, desired, updating>>
    BY <1>4, CallLeavesTrackers, CallLeavesOwner DEF ContinueUpgrade
  <2>2. UNCHANGED <<up, config, apiVars>>
    BY <1>1, LaterCallLeavesNode
  <2>3. UnderWay' /\ Replaced'
    BY <1>1, <2>1, <2>2, UnderWayFrame DEF apiVars
  <2>4. ForgottenCall(call[c])'
    <3>1. CASE CallHook(c) \/ ReadVersion(c) \/ LookupRecord(c) \/ LookAtUpgrade(c)
      BY <3>1, CallTable DEF ForgottenCall
    <3>2. CASE ObserveBefore(c) \/ ObserveStatus(c)
      BY <3>2, CallTable DEF ForgottenCall
    <3>3. CASE ApplyConfig(c)
      <4>1. /\ call'[c].at = IF call[c].rec = None THEN "record" ELSE AfterApply(c)
            /\ call'[c].rec = call[c].rec
        BY <3>3, CallTable
      <4>2. AfterApply(c) \in {"legacy", "look", "settle"}
        BY DEF AfterApply
      <4> QED BY <4>1, <4>2 DEF ForgottenCall
    <3>4. CASE Settle(c)
      <4>1. call[c].rec # None
        BY <1>1, <3>4 DEF Settle, ForgottenCall
      <4> QED BY <3>4, <4>1, CallTable DEF ForgottenCall, Idle
    <3>5. CASE SettleStatus(c)
      <4>1. /\ call[c].rec \in Records /\ up /\ call[c].pod \in Nat
        BY <1>1, <3>5, CallFacts DEF SettleStatus, ForgottenCall, CallStates
      <4>2. CASE Settled(call[c].rec, APIServer(call[c].pod))
        <5>1. TalosLag < SettleWindow
          BY NodeAssumption, HookAssumption DEF NodeAssumption, HookAssumption, WindowCoversRender
        <5>2. Absorbing(call[c].rec.before, call[c].rec.age) /\ ~Old(container)
          BY <1>1, ReplacedAbsorbs DEF Replaced
        <5>3. Calm
          BY <4>1, <4>2, <5>1, <5>2, NodeAssumption, HookAssumption, SettledIsCalm DEF Inv
        <5>4. Calm'
          BY <2>2, <5>3, CalmFrame DEF apiVars
        <5> QED BY <3>5, <4>2, <5>4, CallTable DEF ForgottenCall
      <4>3. CASE ~Settled(call[c].rec, APIServer(call[c].pod))
        BY <3>5, <4>3, CallTable DEF ForgottenCall, Idle
      <4> QED BY <4>2, <4>3
    <3>6. CASE LegacyUpgrade(c) \/ ContinueUpgrade(c) \/ FailRPC(c) \/ BreakRPC(c)
      BY <3>6, CallTable DEF ForgottenCall, Idle
    <3> QED BY <1>4, <3>1, <3>2, <3>3, <3>4, <3>5, <3>6 DEF CallStep
  <2>5. updating /\ applies = None
    BY DEF Forgotten
  <2> QED BY <1>1, <2>1, <2>3, <2>4, <2>5 DEF Forgotten
<1> QED BY <1>2, <1>3, <1>4

LEMMA LostCallStep ==
  ASSUME Sequential, Inv, OneInv, Lost,
         NEW c \in Calls, CallHook(c) \/ CallStep(c) \/ BreakRPC(c)
  PROVE  Lost'
<1>1. LostCall(call[c]) /\ Knows(call[c]) /\ deleting /\ \A d \in Calls : d = c
  BY DEF Lost, OneInv, CallsKnow, Sequential
<1>2. ~CallHook(c) /\ ~Settle(c) /\ ~SettleStatus(c) /\ ~Finish(c)
  BY <1>1 DEF CallHook, Settle, SettleStatus, Finish, LostCall, Knows
<1>3. UNCHANGED <<desired, deleting>>
  BY CallLeavesOwner
<1>4. AfterApply(c) \in {"legacy", "look", "settle", "finish"}
  BY AfterApplyType
<1>5. LostCall(call[c])'
  <2>1. CASE ReadVersion(c)
    <3>1. Upgradable(TagOf[running])
      BY <1>1, <2>1 DEF ReadVersion, LostCall
    <3>2. call'[c].at \in {"lookup", "apply"} /\ call'[c].tag = TagOf[running]
      BY <2>1, CallTable
    <3> QED BY <1>3, <3>1, <3>2 DEF LostCall, Upgradable, NeedsUpgrade
  <2>2. CASE LookupRecord(c)
    BY <1>1, <1>3, <2>2, CallTable DEF LookupRecord, LostCall, Upgradable, NeedsUpgrade
  <2>3. CASE ObserveBefore(c) \/ ObserveStatus(c)
    BY <1>1, <1>3, <2>3, CallTable
       DEF ObserveBefore, ObserveStatus, LostCall, Upgradable, NeedsUpgrade
  <2>4. CASE ApplyConfig(c)
    BY <1>1, <1>3, <1>4, <2>4, CallTable DEF ApplyConfig, LostCall, Upgradable, NeedsUpgrade
  <2>5. CASE RecordApply(c)
    BY <1>1, <1>3, <1>4, <2>5, CallTable DEF RecordApply, LostCall, Upgradable, NeedsUpgrade
  <2>6. CASE LookAtUpgrade(c)
    BY <1>1, <1>3, <2>6, CallTable DEF LookAtUpgrade, LostCall, Upgradable, NeedsUpgrade
  <2>7. CASE LegacyUpgrade(c) \/ ContinueUpgrade(c) \/ FailRPC(c) \/ BreakRPC(c)
    BY <2>7, CallTable DEF LostCall, Idle
  <2> QED BY <1>2, <2>1, <2>2, <2>3, <2>4, <2>5, <2>6, <2>7 DEF CallStep
<1> QED BY <1>1, <1>3, <1>5 DEF Lost

----------------------------------------------------------------------------
(* The phases and what surrounds the call. *)

\* What a call has read in time stays so, as long as nothing old comes back.
LEMMA ReadInTimeFrame ==
  ASSUME NEW c \in Calls, ReadInTime(c), UNCHANGED <<call, applies>>,
         HookAssumption, waiting' = waiting \/ waiting' = None,
         Old(container)' => Old(container)
  PROVE  ReadInTime(c)'
BY DEF ReadInTime, HookAssumption

LEMMA PhasesFrame ==
  ASSUME Phases, UNCHANGED <<nodeVars, trackerVars, call, applies, desired, updating>>,
         HookAssumption, waiting' = waiting \/ waiting' = None,
         deleting => deleting'
  PROVE  Phases'
<1>1. /\ UNCHANGED <<up, config, running, installed, apiVars, NoneInFlight, Calm, Rebooting>>
      /\ UNCHANGED <<rendered, APIServer(rendered), Old(container)>>
  BY DEF nodeVars, apiVars, trackerVars, APIServer, NoneInFlight, Live, Calm, Rebooting, Old
<1>2. CASE Unasked
  BY <1>1, <1>2 DEF Phases, Unasked, UnaskedCall
<1>3. CASE Recording
  BY <1>1, <1>3 DEF Phases, Recording, Absorbing, UnderWay, Unchanged, InTime, Old, apiVars
<1>4. CASE Recorded
  <2>1. Absorbing(applies.before, applies.age)'
    BY <1>1, <1>4 DEF Recorded, Absorbing, UnderWay, Unchanged, InTime, Old, apiVars
  <2>2. \A c \in Calls : ReadInTime(c)'
    BY <1>1, <1>4, ReadInTimeFrame DEF Recorded
  <2> QED BY <1>1, <1>4, <2>1, <2>2 DEF Phases, Recorded, RecordedCall
<1>5. CASE Lost
  BY <1>1, <1>5 DEF Phases, Lost, LostCall, Upgradable, NeedsUpgrade
<1>6. CASE Forgotten
  <2>1. UnderWay' /\ Replaced'
    BY <1>1, <1>6, UnderWayFrame DEF Forgotten, apiVars
  <2> QED BY <1>1, <1>6, <2>1 DEF Phases, Forgotten, ForgottenCall
<1> QED BY <1>2, <1>3, <1>4, <1>5, <1>6 DEF Phases

\* A call about to record, or about to finish, is one the owner waits for.
LEMMA NodePhases ==
  ASSUME Inv, OneInv, Basics, Phases, NodeAssumption, NodeProgress \/ NodeFault
  PROVE  Phases'
<1>1. /\ UNCHANGED <<call, waiting, applies, desired, updating, deleting, seq>>
      /\ NodeStep \/ FallBack
  BY DEF NodeProgress, NodeFault, trackerVars, ownerVars, hookVars
<1>2. ~Calm
  BY <1>1, CalmIsStill DEF Inv, Basics
<1>3. NoneInFlight' = NoneInFlight
  BY <1>1 DEF NoneInFlight, Live
<1>4. CASE Recording
  <2>1. PICK c \in Calls : call[c].at = "record" /\ Absorbing(call[c].before, 0)
    BY <1>4 DEF Recording
  <2>2. PICK b : b = call[c].before
    OBVIOUS
  <2>3. Absorbing(b, 0)'
    BY <1>1, <2>1, <2>2, NodeAbsorbs DEF Inv
  <2>4. Absorbing(call[c].before, 0)'
    BY <1>1, <2>2, <2>3 DEF Absorbing, UnderWay, Unchanged, InTime, Old
  <2> QED BY <1>1, <1>3, <1>4, <2>1, <2>4 DEF Phases, Recording
<1>5. CASE Recorded
  <2>1. PICK b : b = applies.before
    OBVIOUS
  <2>2. PICK a \in Nat : a = applies.age
    BY <1>5 DEF Recorded, Inv, HookTypeOK, Records
  <2>3. Absorbing(b, a)'
    BY <1>1, <1>5, <2>1, <2>2, NodeAbsorbs DEF Inv, Recorded
  <2>4. Absorbing(applies.before, applies.age)'
    BY <1>1, <2>1, <2>2, <2>3 DEF Absorbing, UnderWay, Unchanged, InTime, Old
  <2>5. Old(container)' => Old(container)
    BY <1>1, <1>5, NodeGoesOn DEF Inv, Recorded, Absorbing
  <2>6. \A c \in Calls : ReadInTime(c)'
    BY <1>1, <1>5, <2>5, HookAssumption, ReadInTimeFrame DEF Recorded
  <2> QED BY <1>1, <1>2, <1>5, <2>4, <2>6 DEF Phases, Recorded, RecordedCall
<1>6. CASE Lost
  <2>1. ~Rebooting => running' = running /\ ~Rebooting'
    BY <1>1 DEF Basics, Rebooting, NodeStep, SelfUpgrade, Boot, FallBack, RenderPod, StopContainer,
                StartContainer, BecomeReady
  <2> QED BY <1>1, <1>3, <1>6, <2>1 DEF Phases, Lost, LostCall, Upgradable, NeedsUpgrade
<1>7. CASE Forgotten
  <2>1. UnderWay' /\ Replaced'
    BY <1>1, <1>7, NodeGoesOn DEF Inv, Forgotten
  <2> QED BY <1>1, <1>2, <1>7, <2>1 DEF Phases, Forgotten, ForgottenCall
<1> QED BY <1>2, <1>4, <1>5, <1>6, <1>7 DEF Phases, Unasked

LEMMA TickCall ==
  ASSUME Inv, Tick, NEW c \in Calls
  PROVE  /\ call'[c].at = call[c].at /\ call'[c].tag = call[c].tag
         /\ call'[c].before = call[c].before /\ call'[c].rec = Older(call[c].rec)
         /\ call'[c].pod = call[c].pod
         /\ waiting = c => call'[c].spent = call[c].spent + 1
<1> DEFINE n == IF waiting = c THEN call[c].spent + 1 ELSE call[c].spent
<1>1. call'[c] = [call[c] EXCEPT !.rec = Older(call[c].rec), !.spent = n]
  BY DEF Tick
<1>2. waiting = c => n = call[c].spent + 1
  OBVIOUS
<1> HIDE DEF n
<1>3. call[c] \in CallStates
  BY DEF Inv, CallsInv
<1> QED BY <1>1, <1>2, <1>3 DEF CallStates

\* As time passes for a record, it passes for the call that waits.
LEMMA TickReadsInTime ==
  ASSUME NodeAssumption, Inv, Tick, NEW c \in Calls, ReadInTime(c),
         applies \in Records, applies' \in Records,
         applies'.before = applies.before, applies'.age <= applies.age + 1,
         Old(container)' = Old(container)
  PROVE  ReadInTime(c)'
<1>1. call[c] \in CallStates
  BY DEF Inv, CallsInv
<1>2. /\ call'[c].at = call[c].at /\ call'[c].pod = call[c].pod
      /\ waiting = c => call'[c].spent = call[c].spent + 1
      /\ waiting' = waiting
  BY TickCall DEF Tick
<1>3. /\ call[c].spent \in Nat /\ TalosLag \in Nat
      /\ applies.age \in Nat /\ applies'.age \in Nat
  BY <1>1 DEF CallStates, NodeAssumption, Records
<1> QED BY <1>2, <1>3 DEF ReadInTime

LEMMA TickPhases ==
  ASSUME NodeAssumption, Inv, Phases, HookAssumption, RecordAssumption, Tick
  PROVE  Phases'
<1>1. /\ UNCHANGED <<up, config, running, installed, rendered, pod, container, started, ready>>
      /\ UNCHANGED <<desired, updating, deleting, seq>>
      /\ NodeTick
  BY DEF Tick, NodeTick, trackerVars, ownerVars
<1>2. /\ UNCHANGED <<APIServer(rendered), NoneInFlight, Calm, Rebooting>>
      /\ Old(container)' = Old(container)
  BY <1>1 DEF APIServer, NoneInFlight, Live, Calm, Rebooting, Old
<1>3. ASSUME NEW c \in Calls
      PROVE  /\ call'[c].at = call[c].at /\ call'[c].tag = call[c].tag
             /\ call'[c].before = call[c].before /\ call'[c].rec = Older(call[c].rec)
             /\ call'[c].pod = call[c].pod
  BY TickCall
<1>4. applies' = Older(applies)
  BY DEF Tick
<1>5. CASE Unasked
  BY <1>1, <1>2, <1>3, <1>4, <1>5 DEF Phases, Unasked, UnaskedCall, Older
<1>6. CASE Recording
  <2>1. PICK c \in Calls : call[c].at = "record" /\ Absorbing(call[c].before, 0)
    BY <1>6 DEF Recording
  <2>2. PICK b : b = call[c].before
    OBVIOUS
  <2>3. Absorbing(b, 0)'
    BY <1>1, <2>1, <2>2, TickAbsorbs DEF Inv
  <2>4. Absorbing(call[c].before, 0)'
    BY <1>3, <2>2, <2>3 DEF Absorbing, UnderWay, Unchanged, InTime, Old
  <2> QED BY <1>2, <1>3, <1>4, <1>6, <2>1, <2>4 DEF Phases, Recording, Older
<1>7. CASE Recorded
  <2>1. applies \in Records /\ applies # None
    BY <1>7 DEF Recorded, Inv, HookTypeOK
  <2>2. /\ applies' \in Records
        /\ applies'.cfg = applies.cfg /\ applies'.before = applies.before
        /\ applies.age \in Nat /\ applies'.age \in Nat /\ applies'.age <= applies.age + 1
    BY <1>4, <2>1 DEF Older, Records, HookAssumption
  <2>3. applies' # None
    BY <2>2 DEF RecordAssumption
  <2>4. PICK b : b = applies.before
    OBVIOUS
  <2>5. PICK a \in Nat : a = applies.age
    BY <2>2
  <2>6. PICK e \in Nat : e = applies'.age
    BY <2>2
  <2>7. Absorbing(b, e)'
    BY <1>1, <1>7, <2>2, <2>4, <2>5, <2>6, TickAbsorbs DEF Inv, Recorded
  <2>8. Absorbing(applies.before, applies.age)'
    BY <2>2, <2>4, <2>6, <2>7 DEF Absorbing, UnderWay, Unchanged, InTime, Old
  <2>9. \A c \in Calls : ReadInTime(c)'
    BY <1>2, <1>7, <2>1, <2>2, TickReadsInTime DEF Recorded
  <2> QED BY <1>1, <1>2, <1>3, <1>4, <1>7, <2>2, <2>3, <2>8, <2>9 DEF Phases, Recorded, RecordedCall
<1>8. CASE Lost
  BY <1>1, <1>2, <1>3, <1>8 DEF Phases, Lost, LostCall, Upgradable, NeedsUpgrade
<1>9. CASE Forgotten
  <2>1. UnderWay' /\ Replaced'
    BY <1>1, <1>9, UnderWayFrame DEF Forgotten
  <2>2. applies' = None
    BY <1>4, <1>9 DEF Forgotten, Older
  <2>3. ASSUME NEW c \in Calls PROVE call[c].rec # None => call'[c].rec # None
    <3>1. call[c].rec \in Records \cup {None}
      BY DEF Inv, CallsInv, CallStates
    <3>2. call[c].rec # None => Older(call[c].rec) \in Records
      BY <3>1 DEF Older, Records, HookAssumption
    <3> QED BY <1>3, <3>2 DEF RecordAssumption
  <2> QED BY <1>1, <1>2, <1>3, <1>9, <2>1, <2>2, <2>3 DEF Phases, Forgotten, ForgottenCall
<1> QED BY <1>5, <1>6, <1>7, <1>8, <1>9 DEF Phases

\* The record is dropped for its age: by then kube-apiserver has been replaced.
LEMMA EvictRecordPhases ==
  ASSUME NodeAssumption, HookAssumption, RecordOutlivesReplace, Inv, Phases, EvictRecord
  PROVE  Phases'
<1>1. /\ UNCHANGED <<up, config, running, rendered, pod, container, started, ready, installed>>
      /\ UNCHANGED <<call, desired, updating, deleting, seq>>
      /\ applies # None /\ applies.age = RecordTTL /\ applies' = None
  BY DEF EvictRecord, nodeVars, apiVars, ownerVars, trackerVars
<1>2. UNCHANGED <<Calm, Rebooting, NoneInFlight>>
  BY <1>1 DEF Calm, Rebooting, NoneInFlight, Live
<1>3. CASE Recorded
  <2>1. UnderWay /\ Replaced
    <3>1. PICK b : b = applies.before
      OBVIOUS
    <3>2. Absorbing(b, RecordTTL)
      BY <1>1, <1>3, <3>1 DEF Recorded
    <3> QED BY <3>2, OldIsReplaced DEF Inv, Absorbing
  <2>2. UnderWay' /\ Replaced'
    BY <1>1, <2>1, UnderWayFrame
  <2>3. \A c \in Calls : ForgottenCall(call[c])'
    BY <1>1, <1>2, <1>3 DEF Recorded, RecordedCall, ForgottenCall
  <2> QED BY <1>1, <1>3, <2>2, <2>3 DEF Phases, Recorded, Forgotten
<1>4. CASE Lost
  BY <1>1, <1>2, <1>4 DEF Phases, Lost, LostCall, Upgradable, NeedsUpgrade
<1> QED BY <1>1, <1>3, <1>4 DEF Phases, Unasked, Recording, Forgotten

\* Only a sequence nothing has told to stop touches the node, and a call about to finish finds none.
LEMMA SequencePhases ==
  ASSUME Inv, OneInv, Phases, NEW i \in Seqs,
         SequenceProgress(i) \/ Outdate(i) \/ SequenceFault(i)
  PROVE  Phases'
<1>1. /\ SequenceStep(i) \/ BreakSequence(i) \/ Expire(i)
      /\ UNCHANGED <<call, waiting, applies, desired, updating, deleting>>
  BY DEF SequenceProgress, Outdate, SequenceFault, ownerVars, hookVars
<1>2. NoneInFlight => NoneInFlight'
  BY <1>1, SequencesShrink DEF Inv, NoneInFlight
<1>3. \/ UNCHANGED nodeVars
      \/ Live(i) /\ (InstallImage(seq[i].image) \/ Reboot)
  BY <1>1 DEF SequenceStep, Connect, Pull, Install, Advance, RequestReboot, StopSequence,
              BreakSequence, Expire, Live, Running
<1>4. UNCHANGED nodeVars =>
        /\ UNCHANGED <<rendered, APIServer(rendered), Calm, Rebooting, up, config, running, apiVars>>
  BY DEF nodeVars, apiVars, APIServer, Calm, Rebooting
<1>5. NoneInFlight => UNCHANGED nodeVars
  BY <1>3 DEF NoneInFlight
<1>6. UnderWay =>
        /\ UnderWay'
        /\ Replaced => Replaced'
        /\ Old(container)' => Old(container)
        /\ \A b, a : Absorbing(b, a) => Absorbing(b, a)'
  <2>1. CASE UNCHANGED nodeVars
    BY <1>1, <2>1, UnderWayFrame, AbsorbingFrame DEF nodeVars, apiVars
  <2>2. CASE InstallImage(seq[i].image)
    BY <1>1, <2>2, UnderWayFrame, AbsorbingFrame DEF InstallImage, apiVars
  <2>3. CASE Reboot
    BY <1>1, <2>3, RebootGoesOn, RebootAbsorbs
  <2> QED BY <1>3, <2>1, <2>2, <2>3
<1>7. \A c \in Calls : call[c].at = "finish" => UNCHANGED nodeVars
  BY <1>3, FinishFacts DEF OneInv, SequencesGood, LiveGood
<1>8. CASE Unasked
  BY <1>1, <1>2, <1>4, <1>5, <1>8 DEF Phases, Unasked, UnaskedCall
<1>9. CASE Recording
  BY <1>1, <1>2, <1>4, <1>5, <1>9
     DEF Phases, Recording, Absorbing, UnderWay, Unchanged, InTime, Old, apiVars
<1>10. CASE Recorded
  <2>1. PICK b : b = applies.before
    OBVIOUS
  <2>2. PICK a : a = applies.age
    OBVIOUS
  <2>3. Absorbing(b, a) /\ UnderWay
    BY <1>10, <2>1, <2>2 DEF Recorded, Absorbing
  <2>4. Absorbing(b, a)'
    BY <1>6, <2>3
  <2>5. Absorbing(applies.before, applies.age)'
    BY <1>1, <2>1, <2>2, <2>4 DEF Absorbing, UnderWay, Unchanged, InTime, Old
  <2>6. \A c \in Calls : ReadInTime(c)'
    BY <1>1, <1>6, <1>10, <2>3, HookAssumption, ReadInTimeFrame DEF Recorded
  <2>7. \A c \in Calls : RecordedCall(call[c])'
    BY <1>1, <1>4, <1>7, <1>10 DEF Recorded, RecordedCall
  <2> QED BY <1>1, <1>10, <2>5, <2>6, <2>7 DEF Phases, Recorded
<1>11. CASE Lost
  BY <1>1, <1>2, <1>4, <1>5, <1>11 DEF Phases, Lost, LostCall, Upgradable, NeedsUpgrade
<1>12. CASE Forgotten
  <2>1. UnderWay' /\ Replaced'
    BY <1>6, <1>12 DEF Forgotten
  <2>2. \A c \in Calls : ForgottenCall(call[c])'
    BY <1>1, <1>4, <1>7, <1>12 DEF Forgotten, ForgottenCall
  <2> QED BY <1>1, <1>12, <2>1, <2>2 DEF Phases, Forgotten
<1> QED BY <1>8, <1>9, <1>10, <1>11, <1>12 DEF Phases

\* The watcher drops the record with the sequence, which has not upgraded the node yet.
LEMMA WatchDeletionPhases ==
  ASSUME SeqAssumption, Inv, OneInv, NEW i \in Seqs, WatchDeletion(i)
  PROVE  Phases'
<1>1. Upgradable(TagOf[running]) /\ ~Rebooting
  BY DEF WatchDeletion, OneInv, SequencesGood, LiveGood
<1>2. UNCHANGED <<running, Rebooting, call, desired>> /\ deleting'
  BY DEF WatchDeletion, Rebooting, nodeVars, ownerVars
<1>3. NoneInFlight'
  BY CancelStops DEF Inv, WatchDeletion, NoneInFlight
<1>4. ASSUME NEW c \in Calls
      PROVE  LostCall(call[c])'
  <2>1. call[c].at \notin {"idle", "version"} => Upgradable(call[c].tag)
    BY <1>1 DEF OneInv, CallsKnow, Knows
  <2> QED BY <1>1, <1>2, <1>3, <2>1 DEF LostCall, Upgradable, NeedsUpgrade
<1> QED BY <1>2, <1>4 DEF Phases, Lost

LEMMA StartUpdatePhases ==
  ASSUME Phases, StartUpdate
  PROVE  Phases'
<1>1. Unasked
  BY DEF StartUpdate, Phases, Recording, Recorded, Forgotten, Lost
<1>2. UNCHANGED <<call, applies, rendered, NoneInFlight, Calm, APIServer(rendered)>>
  BY DEF StartUpdate, nodeVars, apiVars, trackerVars, hookVars, NoneInFlight, Live, Calm, APIServer
<1> QED BY <1>1, <1>2 DEF Phases, Unasked, UnaskedCall

\* Between two updates there is no record to lose.
LEMMA RestartPhases ==
  ASSUME Inv, OneInv, Phases, ~updating, Restart
  PROVE  Phases'
<1>1. NoneInFlight' /\ applies' = None /\ \A c \in Calls : call'[c] = Idle
  BY DEF Restart, LoseUpgrades, NoSequence, NoneInFlight, Live, Running
<1>2. UNCHANGED <<Calm, deleting, updating>>
  BY DEF Restart, nodeVars, apiVars, ownerVars, Calm
<1>3. CASE Unasked
  BY <1>1, <1>2, <1>3 DEF Phases, Unasked, UnaskedCall, NotAsked, Idle
<1>4. CASE Lost
  BY <1>1, <1>2, <1>4 DEF Phases, Lost, LostCall, Idle
<1> QED BY <1>3, <1>4, CallKnowledge DEF Phases, Recording, Recorded, Forgotten

LEMMA CallPhases ==
  ASSUME ControlPlane, LifecycleOnly, WindowCoversRender, Sequential, Inv, OneInv, Basics, Phases,
         NEW c \in Calls, CallHook(c) \/ CallStep(c) \/ BreakRPC(c),
         BreakRPC(c) => config' = config
  PROVE  Phases'
BY UnaskedCallStep, RecordingCallStep, RecordedCallStep, ForgottenCallStep, LostCallStep DEF Phases

LEMMA InitAbs == ControlPlane /\ LifecycleOnly /\ Init => AbsInv
<1> SUFFICES ASSUME ControlPlane, LifecycleOnly, Init PROVE AbsInv
  OBVIOUS
<1>1. PICK d \in Configs : NodeInit(d)
  BY DEF Init
<1>2. Basics
  BY <1>1 DEF Init, NodeInit, Basics, CallBasics, Idle, LifecycleOnly
<1>3. Calm
  BY <1>1 DEF NodeInit, Calm
<1>4. Unasked
  BY <1>3 DEF Init, TrackerInit, NoSequence, Unasked, UnaskedCall, NotAsked, Idle, NoneInFlight,
              Live, Running
<1> QED BY <1>2, <1>4 DEF AbsInv, Phases

LEMMA StepAbs ==
  ASSUME ControlPlane, LifecycleOnly, WindowCoversRender, RecordOutlivesReplace, Sequential,
         Inv, OneInv, AbsInv, [Next]_vars, [KeepsRecord]_vars
  PROVE  AbsInv'
<1>1. Basics /\ Phases
  BY DEF AbsInv
<1>2. Basics'
  BY <1>1, BasicsStep
<1>3. CASE Render \/ Delete \/ Abandon \/ UNCHANGED vars
  <2>1. /\ UNCHANGED <<nodeVars, trackerVars, call, applies, desired, updating>>
        /\ waiting' = waiting \/ waiting' = None
        /\ deleting => deleting'
    BY <1>3 DEF Render, Delete, Abandon, vars, ownerVars, hookVars
  <2> QED BY <1>1, <1>2, <2>1, HookAssumption, PhasesFrame DEF AbsInv
<1>4. CASE KeepsRecord /\ \E c \in Calls : CallHook(c) \/ CallStep(c) \/ BreakRPC(c)
  <2>1. PICK c \in Calls : CallHook(c) \/ CallStep(c) \/ BreakRPC(c)
    BY <1>4
  <2>2. BreakRPC(c) => config' = config
    BY <1>4, CallKnowledge DEF KeepsRecord, BreakRPC, NodeRPCs
  <2> QED BY <1>1, <1>2, <2>1, <2>2, CallPhases DEF AbsInv
<1>5. CASE \E i \in Seqs : SequenceProgress(i) \/ Outdate(i) \/ WatchDeletion(i) \/ SequenceFault(i)
  BY <1>1, <1>2, <1>5, SeqAssumption, SequencePhases, WatchDeletionPhases DEF AbsInv
<1>6. CASE KeepsRecord /\ Restart
  BY <1>1, <1>2, <1>6, RestartPhases DEF AbsInv, KeepsRecord
<1>7. CASE StartUpdate
  BY <1>1, <1>2, <1>7, StartUpdatePhases DEF AbsInv
<1>8. CASE Tick
  BY <1>1, <1>2, <1>8, NodeAssumption, HookAssumption, RecordAssumption, TickPhases DEF AbsInv
<1>9. CASE NodeProgress \/ NodeFault
  BY <1>1, <1>2, <1>9, NodeAssumption, NodePhases DEF AbsInv
<1>10. CASE EvictRecord
  BY <1>1, <1>2, <1>10, NodeAssumption, HookAssumption, EvictRecordPhases DEF AbsInv
<1> QED BY <1>3, <1>4, <1>5, <1>6, <1>7, <1>8, <1>9, <1>10 DEF Next, Lossless

----------------------------------------------------------------------------
(* The theorems. *)

AbsAssumption ==
  ControlPlane /\ Sequential /\ LifecycleOnly /\ WindowCoversRender /\ RecordOutlivesReplace

LEMMA SpecAbs ==
  ASSUME AbsAssumption
  PROVE  Spec /\ NothingLost => [](Inv /\ OneInv /\ AbsInv)
<1>1. Init => Inv /\ OneInv /\ AbsInv
  BY InitInv, InitOne, InitAbs DEF AbsAssumption
<1>2. Inv /\ OneInv /\ AbsInv /\ [Next]_vars /\ [KeepsRecord]_vars => (Inv /\ OneInv /\ AbsInv)'
  BY StepInv, StepOne, StepAbs DEF AbsAssumption
<1> QED BY <1>1, <1>2, PTL DEF Spec, NothingLost

\* A call at its end has found kube-apiserver settled on a record of its own update.
LEMMA FinishIsAbsorbed ==
  ASSUME Sequential, Inv, OneInv, AbsInv, NEW c \in Calls, Finish(c)
  PROVE  Absorbed(desired)
<1>1. call[c].at = "finish"
  BY DEF Finish
<1>2. config = desired /\ Knows(call[c])
  BY <1>1, FinishFacts, CallKnowledge
<1>3. ~Unasked
  BY <1>1 DEF Unasked, UnaskedCall, NotAsked
<1>4. ~Recording
  BY <1>1 DEF Recording, Sequential
<1>5. ~Lost
  BY <1>1, <1>2 DEF Lost, LostCall, Knows
<1>6. Calm
  BY <1>1, <1>3, <1>4, <1>5 DEF AbsInv, Phases, Recorded, RecordedCall, Forgotten, ForgottenCall
<1> QED BY <1>2, <1>6 DEF Calm, Absorbed

LEMMA StepIsAbsorbed ==
  ASSUME AbsAssumption, Inv, OneInv, AbsInv, [Next]_vars
  PROVE  [(updating /\ ~updating' /\ ControlPlane) => Absorbed(desired)]_vars
BY DoneIsFinish, FinishIsAbsorbed DEF AbsAssumption

LEMMA StepKeepsContract ==
  ASSUME AbsAssumption, Inv, OneInv, AbsInv, [Next]_vars
  PROVE  [Contract!Next]_(Contract!cvars)
BY FinishIsAbsorbed, StepImplements DEF AbsAssumption, CompletesServing

\* As long as no record is lost, a control plane machine is reported done only when its
\* kube-apiserver runs, and is ready, on the desired configuration, whatever reboots, fails or is
\* deleted on the way, however long the kubelet takes beyond the settle window, and wherever the
\* node moves on between the two reads of a call (apiServerSettled, applyTracker).
THEOREM DoneIsAbsorbed ==
  ASSUME AbsAssumption
  PROVE  Spec /\ NothingLost => DoneMeansAbsorbed
BY StepIsAbsorbed, SpecAbs, PTL DEF Spec, DoneMeansAbsorbed

\* So on a control plane machine too the hook implements the contract, which there includes that
\* kube-apiserver serves the desired configuration on completion (DoUpdateMachine).
THEOREM ControlPlaneImplementsContract ==
  ASSUME AbsAssumption
  PROVE  Spec /\ NothingLost => ImplementsContract
BY InitImplements, StepKeepsContract, SpecAbs, PTL DEF Spec, ImplementsContract, Contract!Spec
=============================================================================
