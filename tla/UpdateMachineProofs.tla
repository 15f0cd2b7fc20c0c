-------------------------- MODULE UpdateMachineProofs --------------------------
(***************************************************************************)
(* What holds of UpdateMachine for every set of configurations, images,    *)
(* calls and sequences, every window and lag, and every bound.             *)
(*                                                                         *)
(* The type invariant is not inductive by itself: a call hands the         *)
(* configuration it has read to the node, and a sequence the image it was  *)
(* started for, so what a call and a sequence carry has to be known first. *)
(***************************************************************************)
EXTENDS UpdateMachine, TLAPS

\* A sequence that has not ended carries an image.
SequencesCarryImages == \A i \in Seqs : seq[i].phase \in Running => seq[i].image \in Images

TrackerInv == TrackerTypeOK /\ SequencesCarryImages /\ LiveSequenceIsTracked

\* Where a call is once the node has accepted its configuration.
Delivered == {"record", "legacy", "look", "act", "settle", "settleStatus", "finish"}

\* A call under way carries configuration d, the one the owner wants; and past the apply that is
\* also configuration g, the one the node has.
CallGood(r, d, g) ==
  /\ r \in CallStates
  /\ r.at # "idle" => r.cfg = d
  /\ r.at \in Delivered => g = d

CallsInv ==
  /\ call \in [Calls -> CallStates]
  /\ \A c \in Calls : CallGood(call[c], desired, config)

HookTypeOK == waiting \in Calls \cup {None} /\ applies \in Records \cup {None}

OwnerFlagsOK == updating \in BOOLEAN /\ deleting \in BOOLEAN

OwnerDataOK == desired \in Configs /\ secret \in Configs /\ updates \in 0 .. MaxUpdates

FaultsOK == restarts \in 0 .. MaxRestarts /\ faults \in 0 .. MaxFaults

\* The inductive invariant.
Inv ==
  /\ NodeTypeOK
  /\ TrackerInv
  /\ CallsInv
  /\ HookTypeOK
  /\ OwnerFlagsOK
  /\ OwnerDataOK
  /\ FaultsOK

\* Completion is reported only once the node has accepted the desired configuration: no earlier
\* call, failure or abandoned apply leaves it on another one (DoUpdateMachine).
DoneMeansDelivered == [][(updating /\ ~updating') => config = desired]_vars

----------------------------------------------------------------------------
(* The steps of the node keep its types. *)

LEMMA GoDownType ==
  ASSUME NodeAssumption, NodeDataOK, GoDown,
         config' \in Configs, running' \in Images, installed' \in Images,
         selfUpgrade' \in Images \cup {None}
  PROVE  NodeTypeOK'
<1>1. NodeFlagsOK'
  BY DEF NodeFlagsOK, GoDown
<1>2. NodeDataOK'
  BY DEF NodeDataOK, GoDown, NodeAssumption
<1> QED BY <1>1, <1>2 DEF NodeTypeOK

LEMMA NodeStutterType ==
  ASSUME NodeTypeOK, UNCHANGED nodeVars
  PROVE  NodeTypeOK'
<1>1. NodeFlagsOK'
  BY DEF NodeTypeOK, NodeFlagsOK, nodeVars, apiVars
<1>2. NodeDataOK'
  BY DEF NodeTypeOK, NodeDataOK, nodeVars, apiVars
<1> QED BY <1>1, <1>2 DEF NodeTypeOK

LEMMA BootType ==
  ASSUME NodeTypeOK, Boot \/ FallBack
  PROVE  NodeTypeOK'
<1>1. NodeFlagsOK'
  BY DEF NodeTypeOK, NodeFlagsOK, Boot, FallBack, apiVars
<1>2. NodeDataOK'
  BY DEF NodeTypeOK, NodeDataOK, Boot, FallBack, apiVars
<1> QED BY <1>1, <1>2 DEF NodeTypeOK

LEMMA NodeTickType ==
  ASSUME NodeAssumption, NodeTypeOK, NodeTick
  PROVE  NodeTypeOK'
<1>1. NodeFlagsOK'
  BY DEF NodeTypeOK, NodeFlagsOK, NodeTick
<1>2. NodeDataOK'
  BY DEF NodeTypeOK, NodeDataOK, NodeTick, NodeAssumption
<1> QED BY <1>1, <1>2 DEF NodeTypeOK

LEMMA NodeStepType ==
  ASSUME NodeAssumption, NodeTypeOK, NodeStep
  PROVE  NodeTypeOK'
<1>1. CASE SelfUpgrade
  BY <1>1, GoDownType DEF NodeTypeOK, NodeDataOK, SelfUpgrade
<1>2. CASE Boot
  BY <1>2, BootType
<1>3. CASE RenderPod
  <2>1. NodeFlagsOK'
    BY <1>3 DEF NodeTypeOK, NodeFlagsOK, RenderPod
  <2>2. NodeDataOK'
    BY <1>3 DEF NodeTypeOK, NodeDataOK, RenderPod, NodeAssumption
  <2> QED BY <2>1, <2>2 DEF NodeTypeOK
<1>4. CASE StopContainer
  <2>1. NodeFlagsOK'
    BY <1>4 DEF NodeTypeOK, NodeFlagsOK, StopContainer
  <2>2. NodeDataOK'
    BY <1>4 DEF NodeTypeOK, NodeDataOK, StopContainer, NodeAssumption
  <2> QED BY <2>1, <2>2 DEF NodeTypeOK
<1>5. CASE StartContainer
  <2>1. NodeFlagsOK'
    BY <1>5 DEF NodeTypeOK, NodeFlagsOK, StartContainer
  <2>2. NodeDataOK'
    BY <1>5 DEF NodeTypeOK, NodeDataOK, StartContainer
  <2> QED BY <2>1, <2>2 DEF NodeTypeOK
<1>6. CASE BecomeReady
  <2>1. NodeFlagsOK'
    BY <1>6 DEF NodeTypeOK, NodeFlagsOK, BecomeReady
  <2>2. NodeDataOK'
    BY <1>6 DEF NodeTypeOK, NodeDataOK, BecomeReady
  <2> QED BY <2>1, <2>2 DEF NodeTypeOK
<1> QED BY <1>1, <1>2, <1>3, <1>4, <1>5, <1>6 DEF NodeStep

LEMMA AcceptConfigType ==
  ASSUME NodeAssumption, NodeTypeOK, NEW c \in Configs, AcceptConfig(c)
  PROVE  NodeTypeOK'
<1>1. CASE GoDown
  BY <1>1, GoDownType DEF NodeTypeOK, NodeDataOK, AcceptConfig
<1>2. CASE /\ renderAge' = IF c = config THEN renderAge ELSE 0
           /\ UNCHANGED <<up, rendered, pod, container, started, ready, kubeletAge>>
  <2>1. NodeFlagsOK'
    BY <1>2 DEF NodeTypeOK, NodeFlagsOK
  <2>2. NodeDataOK'
    BY <1>2 DEF NodeTypeOK, NodeDataOK, AcceptConfig, NodeAssumption
  <2> QED BY <2>1, <2>2 DEF NodeTypeOK
<1> QED BY <1>1, <1>2 DEF AcceptConfig

LEMMA AcceptUpgradeType ==
  ASSUME NodeTypeOK, NEW i \in Images, AcceptUpgrade(i) \/ InstallImage(i)
  PROVE  NodeTypeOK'
<1>1. NodeFlagsOK'
  BY DEF NodeTypeOK, NodeFlagsOK, AcceptUpgrade, InstallImage, apiVars
<1>2. NodeDataOK'
  BY DEF NodeTypeOK, NodeDataOK, AcceptUpgrade, InstallImage, apiVars
<1> QED BY <1>1, <1>2 DEF NodeTypeOK

LEMMA RebootType ==
  ASSUME NodeAssumption, NodeTypeOK, Reboot
  PROVE  NodeTypeOK'
BY GoDownType DEF NodeTypeOK, NodeDataOK, Reboot

----------------------------------------------------------------------------
(* The tracker and its sequences. *)

LEMMA TrackerStutter ==
  ASSUME TrackerInv, UNCHANGED trackerVars
  PROVE  TrackerInv'
BY DEF TrackerInv, TrackerTypeOK, SequencesCarryImages, LiveSequenceIsTracked, Live, trackerVars

LEMMA LoseUpgradesTracker ==
  ASSUME LoseUpgrades
  PROVE  TrackerInv'
BY DEF TrackerInv, TrackerTypeOK, SequencesCarryImages, LiveSequenceIsTracked, Live, LoseUpgrades,
       NoSequence, Sequences, Running, Finished

LEMMA StartUpgradeTracker ==
  ASSUME SeqAssumption, TrackerInv, NEW img \in Images, StartUpgrade(img)
  PROVE  TrackerInv'
<1>1. CASE Exists
  BY <1>1, TrackerStutter DEF StartUpgrade
<1>2. CASE ~Exists
  <2>1. PICK i \in Seqs :
          /\ tracker' = i
          /\ seq' = [seq EXCEPT ![i] = [phase |-> "connect", image |-> img, ctx |-> "live"]]
    BY <1>2 DEF StartUpgrade
  <2>2. \A j \in Seqs : ~Live(j)
    BY <1>2 DEF Exists, TrackerInv, LiveSequenceIsTracked, SeqAssumption
  <2>3. TrackerTypeOK'
    BY <2>1 DEF TrackerInv, TrackerTypeOK, Sequences, Running
  <2>4. SequencesCarryImages'
    BY <2>1 DEF TrackerInv, TrackerTypeOK, SequencesCarryImages
  <2>5. LiveSequenceIsTracked'
    BY <2>1, <2>2 DEF TrackerInv, TrackerTypeOK, LiveSequenceIsTracked, Live
  <2> QED BY <2>3, <2>4, <2>5 DEF TrackerInv
<1> QED BY <1>1, <1>2

LEMMA CancelUpgradeTracker ==
  ASSUME TrackerInv, CancelUpgrade
  PROVE  TrackerInv'
<1>1. CASE ~Exists
  BY <1>1, TrackerStutter DEF CancelUpgrade
<1>2. CASE Exists
  <2>1. tracker \in Seqs
    BY <1>2 DEF Exists, TrackerInv, TrackerTypeOK
  <2>2. /\ tracker' = None
        /\ seq' = [seq EXCEPT ![tracker] = IF seq[tracker].phase \in Finished
                                             THEN NoSequence
                                             ELSE [seq[tracker] EXCEPT !.ctx = "cancelled"]]
    BY <1>2 DEF CancelUpgrade
  <2>3. TrackerTypeOK'
    BY <2>1, <2>2 DEF TrackerInv, TrackerTypeOK, Sequences, NoSequence
  <2>4. SequencesCarryImages'
    BY <2>1, <2>2 DEF TrackerInv, TrackerTypeOK, SequencesCarryImages, Sequences, NoSequence, Running
  <2>5. \A j \in Seqs : ~Live(j)'
    BY <2>1, <2>2 DEF TrackerInv, TrackerTypeOK, LiveSequenceIsTracked, Live, Sequences,
                      NoSequence, Running
  <2> QED BY <2>3, <2>4, <2>5 DEF TrackerInv, LiveSequenceIsTracked
<1> QED BY <1>1, <1>2

LEMMA AdvanceTracker ==
  ASSUME TrackerInv, NEW i \in Seqs, NEW from \in Running, NEW to \in Running, Advance(i, from, to)
  PROVE  TrackerInv'
<1>1. TrackerTypeOK'
  BY DEF Advance, TrackerInv, TrackerTypeOK, Sequences
<1>2. SequencesCarryImages'
  BY DEF Advance, TrackerInv, TrackerTypeOK, SequencesCarryImages, Sequences
<1>3. LiveSequenceIsTracked'
  BY DEF Advance, TrackerInv, TrackerTypeOK, LiveSequenceIsTracked, Live, Sequences
<1> QED BY <1>1, <1>2, <1>3 DEF TrackerInv

LEMMA EndSequenceTracker ==
  ASSUME TrackerInv, NEW i \in Seqs, NEW outcome \in Finished, EndSequence(i, outcome),
         UNCHANGED tracker
  PROVE  TrackerInv'
<1>1. TrackerTypeOK'
  BY DEF EndSequence, TrackerInv, TrackerTypeOK, Sequences, NoSequence
<1>2. SequencesCarryImages'
  BY DEF EndSequence, TrackerInv, TrackerTypeOK, SequencesCarryImages, Sequences, NoSequence,
         Running, Finished
<1>3. LiveSequenceIsTracked'
  BY DEF EndSequence, TrackerInv, TrackerTypeOK, LiveSequenceIsTracked, Live, Sequences, NoSequence,
         Running, Finished
<1> QED BY <1>1, <1>2, <1>3 DEF TrackerInv

LEMMA ExpireTracker ==
  ASSUME TrackerInv, NEW i \in Seqs, Expire(i)
  PROVE  TrackerInv'
<1>1. TrackerTypeOK'
  BY DEF Expire, TrackerInv, TrackerTypeOK, Sequences
<1>2. SequencesCarryImages'
  BY DEF Expire, TrackerInv, TrackerTypeOK, SequencesCarryImages, Sequences
<1>3. LiveSequenceIsTracked'
  BY DEF Expire, TrackerInv, TrackerTypeOK, LiveSequenceIsTracked, Live, Sequences
<1> QED BY <1>1, <1>2, <1>3 DEF TrackerInv

----------------------------------------------------------------------------
(* The calls, the owner and the counters. *)

LEMMA APIServerType ==
  ASSUME NodeTypeOK, NEW v \in Nat
  PROVE  APIServer(v) \in APIServerStates
<1>1. ready \in BOOLEAN
  BY DEF NodeTypeOK, NodeFlagsOK
<1>2. (IF container = None THEN 0 ELSE started) \in Nat
  BY DEF NodeTypeOK, NodeDataOK
<1> QED BY <1>1, <1>2 DEF APIServer, APIServerStates

LEMMA IdleType == Idle \in CallStates
BY HookAssumption DEF HookAssumption, Idle, CallStates, NoAPIServer, APIServerStates, Snapshots

LEMMA OlderType ==
  ASSUME HookAssumption, NEW r \in Records \cup {None}
  PROVE  Older(r) \in Records \cup {None}
BY DEF HookAssumption, Older, Records

LEMMA OneCall ==
  ASSUME CallsInv, NEW c \in Calls, NEW r,
         call' = [call EXCEPT ![c] = r],
         CallGood(r, desired, config'),
         desired' = desired,
         config' = config \/ config' = desired
  PROVE  CallsInv'
BY DEF CallsInv, CallGood

LEMMA OwnerStutter ==
  ASSUME OwnerFlagsOK, OwnerDataOK, UNCHANGED ownerVars
  PROVE  OwnerFlagsOK' /\ OwnerDataOK'
<1>1. OwnerFlagsOK'
  BY DEF OwnerFlagsOK, ownerVars
<1>2. OwnerDataOK'
  BY DEF OwnerDataOK, ownerVars
<1> QED BY <1>1, <1>2

LEMMA FaultStutter ==
  ASSUME FaultsOK, UNCHANGED faultVars
  PROVE  FaultsOK'
BY DEF FaultsOK, faultVars

LEMMA FaultType ==
  ASSUME HookAssumption, FaultsOK, Fault
  PROVE  FaultsOK'
BY DEF HookAssumption, FaultsOK, Fault

\* A step that gives call c the record r and changes nothing of what the owner decides.
LEMMA HookStep ==
  ASSUME Inv, NEW c \in Calls, NEW r,
         call' = [call EXCEPT ![c] = r],
         CallGood(r, desired, config'),
         config' = config \/ config' = desired,
         NodeTypeOK', TrackerInv', HookTypeOK', FaultsOK',
         UNCHANGED ownerVars
  PROVE  Inv'
<1>1. CallsInv'
  BY OneCall DEF Inv, ownerVars
<1>2. OwnerFlagsOK' /\ OwnerDataOK'
  BY OwnerStutter DEF Inv
<1> QED BY <1>1, <1>2 DEF Inv

\* A step that leaves the calls and the owner alone, and the configuration of the node.
LEMMA OtherStep ==
  ASSUME Inv, UNCHANGED <<call, config, ownerVars>>,
         NodeTypeOK', TrackerInv', HookTypeOK', FaultsOK'
  PROVE  Inv'
<1>1. CallsInv'
  BY DEF Inv, CallsInv, ownerVars
<1>2. OwnerFlagsOK' /\ OwnerDataOK'
  BY OwnerStutter DEF Inv
<1> QED BY <1>1, <1>2 DEF Inv

LEMMA AllInv ==
  ASSUME Inv
  PROVE  TypeOK
BY DEF Inv, TypeOK, TrackerInv, CallsInv, HookTypeOK, OwnerFlagsOK, OwnerDataOK, FaultsOK

LEMMA IdleGood == \A d, g : CallGood(Idle, d, g)
BY IdleType DEF CallGood, Idle, Delivered

\* A call takes a step that changes neither the node nor the tracker of upgrades.
LEMMA QuietStep ==
  ASSUME Inv, NEW c \in Calls, NEW r,
         call' = [call EXCEPT ![c] = r],
         CallGood(r, desired, config),
         HookTypeOK',
         UNCHANGED <<nodeVars, trackerVars, ownerVars, faultVars>>
  PROVE  Inv'
<1>1. NodeTypeOK' /\ config' = config
  BY NodeStutterType DEF Inv, nodeVars
<1>2. TrackerInv'
  BY TrackerStutter DEF Inv
<1>3. FaultsOK'
  BY FaultStutter DEF Inv
<1> QED BY <1>1, <1>2, <1>3, HookStep

\* What a call under way is known to carry.
LEMMA CallFacts ==
  ASSUME Inv, NEW c \in Calls, call[c].at # "idle"
  PROVE  /\ call[c] \in CallStates
         /\ call[c].cfg = desired
         /\ desired \in Configs
         /\ call[c].at \in Delivered => config = desired
BY DEF Inv, CallsInv, CallGood, OwnerDataOK

LEMMA ReturnType ==
  ASSUME HookTypeOK, NEW c \in Calls, Return(c)
  PROVE  /\ call' = [call EXCEPT ![c] = Idle]
         /\ waiting' \in Calls \cup {None}
BY DEF HookTypeOK, Return

----------------------------------------------------------------------------
(* The steps of a call. *)

LEMMA CallHookInv ==
  ASSUME Inv, NEW c \in Calls, CallHook(c)
  PROVE  Inv'
<1> DEFINE r == [call[c] EXCEPT !.at = "version", !.cfg = secret]
<1>1. call' = [call EXCEPT ![c] = r]
  BY DEF CallHook
<1>2. CallGood(r, desired, config)
  <2>1. call[c] \in CallStates /\ secret = desired /\ desired \in Configs
    BY DEF Inv, CallsInv, OwnerDataOK, CallHook, Fresh
  <2>2. r \in CallStates
    BY <2>1 DEF CallStates
  <2>3. r.at = "version" /\ r.cfg = desired
    BY <2>1 DEF CallStates
  <2> QED BY <2>2, <2>3 DEF CallGood, Delivered
<1>3. HookTypeOK'
  BY DEF Inv, HookTypeOK, CallHook
<1> HIDE DEF r
<1> QED BY <1>1, <1>2, <1>3, QuietStep DEF CallHook

LEMMA ReadVersionInv ==
  ASSUME Inv, NEW c \in Calls, ReadVersion(c)
  PROVE  Inv'
<1> DEFINE r == [call[c] EXCEPT !.tag = TagOf[running],
                               !.at = IF ControlPlane THEN "lookup" ELSE "apply"]
<1>1. call' = [call EXCEPT ![c] = r]
  BY DEF ReadVersion
<1>2. TagOf[running] \in Tags
  BY NodeAssumption DEF NodeAssumption, Inv, NodeTypeOK, NodeDataOK
<1>3. CallGood(r, desired, config)
  <2>1. call[c] \in CallStates /\ call[c].cfg = desired
    BY CallFacts DEF ReadVersion
  <2>2. r \in CallStates
    BY <1>2, <2>1 DEF CallStates
  <2>3. r.at \in {"lookup", "apply"} /\ r.cfg = desired
    BY <2>1 DEF CallStates
  <2> QED BY <2>2, <2>3 DEF CallGood, Delivered
<1>4. HookTypeOK'
  BY DEF Inv, HookTypeOK, ReadVersion
<1> HIDE DEF r
<1> QED BY <1>1, <1>3, <1>4, QuietStep DEF ReadVersion

LEMMA LookupRecordInv ==
  ASSUME Inv, NEW c \in Calls, LookupRecord(c)
  PROVE  Inv'
<1> DEFINE r == IF applies # None /\ applies.cfg = call[c].cfg
                  THEN [call[c] EXCEPT !.rec = applies, !.at = "apply"]
                  ELSE [call[c] EXCEPT !.at = "observe"]
<1>1. call' = [call EXCEPT ![c] = r]
  BY DEF LookupRecord, Goto
<1>2. CallGood(r, desired, config)
  <2>1. call[c] \in CallStates /\ call[c].cfg = desired
    BY CallFacts DEF LookupRecord
  <2>2. applies \in Records \cup {None}
    BY DEF Inv, HookTypeOK
  <2>3. r \in CallStates
    BY <2>1, <2>2 DEF CallStates
  <2>4. r.at \in {"observe", "apply"} /\ r.cfg = desired
    BY <2>1 DEF CallStates
  <2> QED BY <2>3, <2>4 DEF CallGood, Delivered
<1>3. HookTypeOK'
  BY DEF Inv, HookTypeOK, LookupRecord
<1> HIDE DEF r
<1> QED BY <1>1, <1>2, <1>3, QuietStep DEF LookupRecord

LEMMA ObserveBeforeInv ==
  ASSUME Inv, NEW c \in Calls, ObserveBefore(c)
  PROVE  Inv'
<1> DEFINE r == [call[c] EXCEPT !.pod = rendered,
                               !.at = IF rendered = 0 THEN "apply" ELSE "observeStatus"]
<1>1. call' = [call EXCEPT ![c] = r]
  BY DEF ObserveBefore
<1>2. rendered \in Nat
  BY DEF Inv, NodeTypeOK, NodeDataOK
<1>3. CallGood(r, desired, config)
  <2>1. call[c] \in CallStates /\ call[c].cfg = desired
    BY CallFacts DEF ObserveBefore
  <2>2. r \in CallStates
    BY <1>2, <2>1 DEF CallStates
  <2>3. r.at \in {"apply", "observeStatus"} /\ r.cfg = desired
    BY <2>1 DEF CallStates
  <2> QED BY <2>2, <2>3 DEF CallGood, Delivered
<1>4. HookTypeOK'
  BY DEF Inv, HookTypeOK, ObserveBefore
<1> HIDE DEF r
<1> QED BY <1>1, <1>3, <1>4, QuietStep DEF ObserveBefore

LEMMA ObserveStatusInv ==
  ASSUME Inv, NEW c \in Calls, ObserveStatus(c)
  PROVE  Inv'
<1> DEFINE r == [call[c] EXCEPT !.before = APIServer(call[c].pod), !.pod = 0, !.at = "apply"]
<1>1. call' = [call EXCEPT ![c] = r]
  BY DEF ObserveStatus
<1>2. APIServer(call[c].pod) \in APIServerStates
  BY CallFacts, APIServerType DEF Inv, ObserveStatus, CallStates
<1>3. CallGood(r, desired, config)
  <2>1. call[c] \in CallStates /\ call[c].cfg = desired
    BY CallFacts DEF ObserveStatus
  <2>2. r \in CallStates
    BY <1>2, <2>1 DEF CallStates
  <2>3. r.at = "apply" /\ r.cfg = desired
    BY <2>1 DEF CallStates
  <2> QED BY <2>2, <2>3 DEF CallGood, Delivered
<1>4. HookTypeOK'
  BY DEF Inv, HookTypeOK, ObserveStatus
<1> HIDE DEF r
<1> QED BY <1>1, <1>3, <1>4, QuietStep DEF ObserveStatus

LEMMA AfterApplyType ==
  ASSUME NEW c \in Calls
  PROVE  AfterApply(c) \in {"legacy", "look", "settle", "finish"}
BY DEF AfterApply

LEMMA ApplyConfigInv ==
  ASSUME Inv, NEW c \in Calls, ApplyConfig(c)
  PROVE  Inv'
<1> DEFINE to == IF ControlPlane /\ call[c].rec = None THEN "record" ELSE AfterApply(c)
           r  == [call[c] EXCEPT !.at = to]
<1>1. call[c].cfg = desired /\ desired \in Configs /\ call[c] \in CallStates
  BY CallFacts DEF ApplyConfig
<1>2. NodeTypeOK' /\ config' = desired
  BY <1>1, NodeAssumption, AcceptConfigType DEF ApplyConfig, Inv, AcceptConfig
<1>3. to \in {"record", "legacy", "look", "settle", "finish"}
  BY AfterApplyType
<1> HIDE DEF to
<1>4. call' = [call EXCEPT ![c] = r]
  BY DEF ApplyConfig, Goto, to
<1>5. CallGood(r, desired, config')
  BY <1>1, <1>2, <1>3 DEF CallGood, CallStates
<1>6. HookTypeOK' /\ TrackerInv' /\ FaultsOK'
  BY TrackerStutter, FaultStutter DEF Inv, HookTypeOK, ApplyConfig
<1> HIDE DEF r
<1> QED BY <1>2, <1>4, <1>5, <1>6, HookStep DEF ApplyConfig

LEMMA RecordApplyInv ==
  ASSUME Inv, NEW c \in Calls, RecordApply(c)
  PROVE  Inv'
<1> DEFINE record == [cfg |-> call[c].cfg, before |-> call[c].before, age |-> 0]
           r == [call[c] EXCEPT !.rec = record, !.at = AfterApply(c)]
<1>1. /\ call[c].cfg = desired /\ desired \in Configs /\ call[c] \in CallStates
      /\ config = desired
  BY CallFacts DEF RecordApply, Delivered
<1>2. record \in Records
  BY <1>1, HookAssumption DEF HookAssumption, Records, CallStates
<1> HIDE DEF record
<1>3. call' = [call EXCEPT ![c] = r]
  BY DEF RecordApply, record
<1>4. CallGood(r, desired, config)
  BY <1>1, <1>2, AfterApplyType DEF CallGood, CallStates
<1>5. HookTypeOK'
  BY <1>2 DEF Inv, HookTypeOK, RecordApply, record
<1> HIDE DEF r
<1> QED BY <1>3, <1>4, <1>5, QuietStep DEF RecordApply

LEMMA DesiredImage ==
  ASSUME Inv
  PROVE  ImageOf[desired] \in Images
BY NodeAssumption DEF NodeAssumption, Inv, OwnerDataOK

LEMMA LegacyUpgradeInv ==
  ASSUME Inv, NEW c \in Calls, LegacyUpgrade(c)
  PROVE  Inv'
<1>1. AcceptUpgrade(ImageOf[desired])
  BY CallFacts DEF LegacyUpgrade
<1>2. NodeTypeOK' /\ config' = config
  BY <1>1, DesiredImage, AcceptUpgradeType DEF Inv, AcceptUpgrade
<1>3. call' = [call EXCEPT ![c] = Idle] /\ HookTypeOK'
  BY ReturnType DEF Inv, HookTypeOK, LegacyUpgrade
<1>4. TrackerInv' /\ FaultsOK'
  BY TrackerStutter, FaultStutter DEF Inv, LegacyUpgrade
<1> QED BY <1>2, <1>3, <1>4, IdleGood, HookStep DEF LegacyUpgrade

LEMMA LookAtUpgradeInv ==
  ASSUME Inv, NEW c \in Calls, LookAtUpgrade(c)
  PROVE  Inv'
<1> DEFINE r == [call[c] EXCEPT !.seen = Snapshot, !.at = "act"]
<1>1. call' = [call EXCEPT ![c] = r]
  BY DEF LookAtUpgrade
<1>2. Snapshot \in Snapshots
  BY DEF Snapshot, Snapshots
<1>3. CallGood(r, desired, config)
  BY <1>2, CallFacts DEF LookAtUpgrade, CallStates, CallGood, Delivered
<1>4. HookTypeOK'
  BY DEF Inv, HookTypeOK, LookAtUpgrade
<1> HIDE DEF r
<1> QED BY <1>1, <1>3, <1>4, QuietStep DEF LookAtUpgrade

LEMMA ContinueUpgradeInv ==
  ASSUME Inv, NEW c \in Calls, ContinueUpgrade(c)
  PROVE  Inv'
<1>1. call[c].cfg = desired /\ call[c].seen \in Snapshots
  BY CallFacts DEF ContinueUpgrade, CallStates
<1>2. StartUpgrade(ImageOf[desired]) \/ CancelUpgrade \/ UNCHANGED trackerVars
  BY <1>1 DEF ContinueUpgrade, Snapshots
<1>3. TrackerInv'
  BY <1>2, SeqAssumption, DesiredImage, StartUpgradeTracker, CancelUpgradeTracker, TrackerStutter
     DEF Inv
<1>4. call' = [call EXCEPT ![c] = Idle] /\ HookTypeOK'
  BY ReturnType DEF Inv, HookTypeOK, ContinueUpgrade
<1>5. NodeTypeOK' /\ config' = config
  BY NodeStutterType DEF Inv, ContinueUpgrade, nodeVars
<1>6. FaultsOK'
  BY FaultStutter DEF Inv, ContinueUpgrade
<1> QED BY <1>3, <1>4, <1>5, <1>6, IdleGood, HookStep DEF ContinueUpgrade

LEMMA SettleInv ==
  ASSUME Inv, NEW c \in Calls, Settle(c)
  PROVE  Inv'
<1>1. CASE rendered # 0
  <2> DEFINE r == [call[c] EXCEPT !.pod = rendered, !.at = "settleStatus"]
  <2>1. call' = [call EXCEPT ![c] = r]
    BY <1>1 DEF Settle
  <2>2. rendered \in Nat
    BY DEF Inv, NodeTypeOK, NodeDataOK
  <2>3. CallGood(r, desired, config)
    BY <2>2, CallFacts DEF Settle, CallStates, CallGood, Delivered
  <2>4. HookTypeOK'
    BY <1>1 DEF Inv, HookTypeOK, Settle
  <2> HIDE DEF r
  <2> QED BY <2>1, <2>3, <2>4, QuietStep DEF Settle
<1>2. CASE rendered = 0
  <2>1. call' = [call EXCEPT ![c] = Idle] /\ HookTypeOK'
    BY <1>2, ReturnType DEF Inv, HookTypeOK, Settle
  <2> QED BY <2>1, IdleGood, QuietStep DEF Settle
<1> QED BY <1>1, <1>2

LEMMA SettleStatusInv ==
  ASSUME Inv, NEW c \in Calls, SettleStatus(c)
  PROVE  Inv'
<1>1. CASE Settled(call[c].rec, APIServer(call[c].pod))
  <2> DEFINE r == [call[c] EXCEPT !.at = "finish"]
  <2>1. call' = [call EXCEPT ![c] = r]
    BY <1>1 DEF SettleStatus, Goto
  <2>2. CallGood(r, desired, config)
    BY CallFacts DEF SettleStatus, CallStates, CallGood, Delivered
  <2>3. HookTypeOK'
    BY <1>1 DEF Inv, HookTypeOK, SettleStatus
  <2> HIDE DEF r
  <2> QED BY <2>1, <2>2, <2>3, QuietStep DEF SettleStatus
<1>2. CASE ~Settled(call[c].rec, APIServer(call[c].pod))
  <2>1. call' = [call EXCEPT ![c] = Idle] /\ HookTypeOK'
    BY <1>2, ReturnType DEF Inv, HookTypeOK, SettleStatus
  <2> QED BY <2>1, IdleGood, QuietStep DEF SettleStatus
<1> QED BY <1>1, <1>2

LEMMA FinishInv ==
  ASSUME Inv, NEW c \in Calls, Finish(c)
  PROVE  Inv'
<1>1. call' = [call EXCEPT ![c] = Idle] /\ HookTypeOK'
  BY ReturnType DEF Inv, HookTypeOK, Finish
<1>2. NodeTypeOK' /\ config' = config
  BY NodeStutterType DEF Inv, Finish, nodeVars
<1>3. TrackerInv'
  BY CancelUpgradeTracker DEF Inv, Finish
<1>4. CallsInv'
  BY <1>1, <1>2, IdleGood, OneCall DEF Inv, Finish
<1>5. OwnerFlagsOK'
  BY DEF Inv, OwnerFlagsOK, Finish
<1>6. OwnerDataOK'
  BY DEF Inv, OwnerDataOK, Finish
<1>7. FaultsOK'
  BY FaultStutter DEF Inv, Finish
<1> QED BY <1>1, <1>2, <1>3, <1>4, <1>5, <1>6, <1>7 DEF Inv

LEMMA FailRPCInv ==
  ASSUME Inv, NEW c \in Calls, FailRPC(c)
  PROVE  Inv'
<1>1. call' = [call EXCEPT ![c] = Idle] /\ HookTypeOK'
  BY ReturnType DEF Inv, HookTypeOK, FailRPC
<1> QED BY <1>1, IdleGood, QuietStep DEF FailRPC

LEMMA BreakRPCInv ==
  ASSUME Inv, NEW c \in Calls, BreakRPC(c)
  PROVE  Inv'
<1>1. call[c].cfg = desired /\ desired \in Configs
  BY CallFacts DEF BreakRPC, NodeRPCs
<1>2. NodeTypeOK' /\ (config' = config \/ config' = desired)
  <2>1. CASE UNCHANGED nodeVars
    BY <2>1, NodeStutterType DEF Inv, nodeVars
  <2>2. CASE AcceptConfig(desired)
    BY <2>2, <1>1, NodeAssumption, AcceptConfigType DEF Inv, AcceptConfig
  <2>3. CASE AcceptUpgrade(ImageOf[desired])
    BY <2>3, DesiredImage, AcceptUpgradeType DEF Inv, AcceptUpgrade
  <2> QED BY <1>1, <2>1, <2>2, <2>3 DEF BreakRPC
<1>3. call' = [call EXCEPT ![c] = Idle] /\ HookTypeOK'
  BY ReturnType DEF Inv, HookTypeOK, BreakRPC
<1>4. TrackerInv' /\ FaultsOK'
  BY HookAssumption, TrackerStutter, FaultType DEF Inv, BreakRPC
<1> QED BY <1>2, <1>3, <1>4, IdleGood, HookStep DEF BreakRPC

LEMMA CallStepInv ==
  ASSUME Inv, NEW c \in Calls, CallStep(c)
  PROVE  Inv'
BY ReadVersionInv, LookupRecordInv, ObserveBeforeInv, ObserveStatusInv, ApplyConfigInv,
   RecordApplyInv, LegacyUpgradeInv, LookAtUpgradeInv, ContinueUpgradeInv, SettleInv,
   SettleStatusInv, FinishInv, FailRPCInv
   DEF CallStep

----------------------------------------------------------------------------
(* The steps of everything around the calls. *)

LEMMA StartUpdateInv ==
  ASSUME Inv, StartUpdate
  PROVE  Inv'
<1>1. CallsInv'
  BY DEF Inv, CallsInv, CallGood, StartUpdate, hookVars, Delivered
<1>2. NodeTypeOK'
  BY NodeStutterType DEF Inv, StartUpdate
<1>3. TrackerInv' /\ FaultsOK' /\ HookTypeOK'
  BY TrackerStutter, FaultStutter DEF Inv, StartUpdate, hookVars, HookTypeOK
<1>4. OwnerFlagsOK'
  BY DEF Inv, OwnerFlagsOK, StartUpdate
<1>5. OwnerDataOK'
  BY HookAssumption DEF HookAssumption, Inv, OwnerDataOK, StartUpdate
<1> QED BY <1>1, <1>2, <1>3, <1>4, <1>5 DEF Inv

LEMMA RenderInv ==
  ASSUME Inv, Render \/ Delete
  PROVE  Inv'
<1>1. UNCHANGED <<desired, updates, nodeVars, trackerVars, hookVars, faultVars>>
  BY DEF Render, Delete
<1>2. CallsInv'
  BY <1>1 DEF Inv, CallsInv, hookVars, nodeVars
<1>3. NodeTypeOK' /\ TrackerInv' /\ FaultsOK'
  BY <1>1, NodeStutterType, TrackerStutter, FaultStutter DEF Inv
<1>4. HookTypeOK'
  BY <1>1 DEF Inv, HookTypeOK, hookVars
<1>5. OwnerFlagsOK'
  BY DEF Inv, OwnerFlagsOK, Render, Delete
<1>6. OwnerDataOK'
  BY <1>1 DEF Inv, OwnerDataOK, Render, Delete
<1> QED BY <1>2, <1>3, <1>4, <1>5, <1>6 DEF Inv

LEMMA SequenceTracker ==
  ASSUME Inv, NEW i \in Seqs, SequenceStep(i) \/ BreakSequence(i) \/ Expire(i)
  PROVE  TrackerInv'
<1>1. TrackerInv
  BY DEF Inv
<1>2. CASE Connect(i)
  BY <1>1, <1>2, AdvanceTracker DEF Connect, Running
<1>3. CASE Pull(i)
  BY <1>1, <1>3, AdvanceTracker DEF Pull, Running
<1>4. CASE Install(i)
  BY <1>1, <1>4, AdvanceTracker DEF Install, Running
<1>5. CASE RequestReboot(i)
  BY <1>1, <1>5, EndSequenceTracker DEF RequestReboot, Finished
<1>6. CASE StopSequence(i)
  BY <1>1, <1>6, EndSequenceTracker DEF StopSequence, Finished
<1>7. CASE BreakSequence(i)
  BY <1>1, <1>7, EndSequenceTracker DEF BreakSequence, Finished
<1>8. CASE Expire(i)
  BY <1>1, <1>8, ExpireTracker
<1> QED BY <1>2, <1>3, <1>4, <1>5, <1>6, <1>7, <1>8 DEF SequenceStep

LEMMA SequenceNode ==
  ASSUME Inv, NEW i \in Seqs, SequenceStep(i) \/ BreakSequence(i) \/ Expire(i)
  PROVE  NodeTypeOK' /\ config' = config
<1>1. CASE UNCHANGED nodeVars
  BY <1>1, NodeStutterType DEF Inv, nodeVars
<1>2. CASE InstallImage(seq[i].image) /\ seq[i].phase = "install"
  <2>1. seq[i].image \in Images
    BY <1>2 DEF Inv, TrackerInv, SequencesCarryImages, Running
  <2> QED BY <1>2, <2>1, AcceptUpgradeType DEF Inv, InstallImage
<1>3. CASE Reboot
  BY <1>3, NodeAssumption, RebootType DEF Inv, Reboot
<1> QED BY <1>1, <1>2, <1>3 DEF SequenceStep, Connect, Pull, Install, Advance, RequestReboot,
                                StopSequence, BreakSequence, Expire

LEMMA SequenceInv ==
  ASSUME Inv, NEW i \in Seqs, SequenceProgress(i) \/ Outdate(i) \/ SequenceFault(i)
  PROVE  Inv'
<1>1. SequenceStep(i) \/ BreakSequence(i) \/ Expire(i)
  BY DEF SequenceProgress, Outdate, SequenceFault
<1>2. NodeTypeOK' /\ config' = config /\ TrackerInv'
  BY <1>1, SequenceNode, SequenceTracker
<1>3. UNCHANGED <<ownerVars, hookVars>>
  BY DEF SequenceProgress, Outdate, SequenceFault
<1>4. FaultsOK'
  BY HookAssumption, FaultStutter, FaultType DEF Inv, SequenceProgress, Outdate, SequenceFault
<1>5. HookTypeOK'
  BY <1>3 DEF Inv, HookTypeOK, hookVars
<1> QED BY <1>2, <1>3, <1>4, <1>5, OtherStep DEF hookVars

LEMMA WatchDeletionInv ==
  ASSUME Inv, NEW i \in Seqs, WatchDeletion(i)
  PROVE  Inv'
<1>1. NodeTypeOK' /\ config' = config
  BY NodeStutterType DEF Inv, WatchDeletion, nodeVars
<1>2. TrackerInv' /\ FaultsOK' /\ HookTypeOK'
  BY CancelUpgradeTracker, FaultStutter DEF Inv, WatchDeletion, HookTypeOK
<1> QED BY <1>1, <1>2, OtherStep DEF WatchDeletion

LEMMA NodeInv ==
  ASSUME Inv, NodeProgress \/ NodeFault
  PROVE  Inv'
<1>1. NodeTypeOK' /\ config' = config
  <2>1. CASE NodeStep
    BY <2>1, NodeAssumption, NodeStepType
       DEF Inv, NodeStep, SelfUpgrade, Boot, RenderPod, StopContainer, StartContainer, BecomeReady
  <2>2. CASE FallBack
    BY <2>2, BootType DEF Inv, FallBack
  <2> QED BY <2>1, <2>2 DEF NodeProgress, NodeFault
<1>2. UNCHANGED <<trackerVars, ownerVars, hookVars>>
  BY DEF NodeProgress, NodeFault
<1>3. FaultsOK'
  BY HookAssumption, FaultStutter, FaultType DEF Inv, NodeProgress, NodeFault
<1>4. TrackerInv' /\ HookTypeOK'
  BY <1>2, TrackerStutter DEF Inv, HookTypeOK, hookVars
<1> QED BY <1>1, <1>2, <1>3, <1>4, OtherStep DEF hookVars

LEMMA TickInv ==
  ASSUME Inv, Tick
  PROVE  Inv'
<1>1. NodeTypeOK' /\ config' = config
  BY NodeAssumption, NodeTickType DEF Inv, Tick, NodeTick
<1>2. TrackerInv' /\ FaultsOK' /\ OwnerFlagsOK' /\ OwnerDataOK'
  BY TrackerStutter, FaultStutter, OwnerStutter DEF Inv, Tick
<1>3. HookTypeOK'
  BY HookAssumption, OlderType DEF Inv, HookTypeOK, Tick
<1>4. \A c \in Calls : Older(call[c].rec) \in Records \cup {None}
  BY HookAssumption, OlderType DEF Inv, CallsInv, CallStates
<1>5. call' = [c \in Calls |-> [call[c] EXCEPT !.rec = Older(call[c].rec),
                                               !.spent = IF waiting = c THEN call[c].spent + 1
                                                                        ELSE call[c].spent]]
  BY DEF Tick
<1>6. ASSUME NEW c \in Calls
      PROVE  CallGood(call'[c], desired, config)
  <2>1. call[c] \in CallStates /\ CallGood(call[c], desired, config)
    BY DEF Inv, CallsInv
  <2>2. call[c].spent \in 0 .. CallTimeout /\ (waiting = c => call[c].spent < CallTimeout)
    BY <2>1, HookAssumption DEF HookAssumption, CallStates, Tick
  <2> DEFINE n == IF waiting = c THEN call[c].spent + 1 ELSE call[c].spent
  <2>3. n \in 0 .. CallTimeout
    BY <2>2, HookAssumption DEF HookAssumption
  <2> HIDE DEF n
  <2>4. call'[c] = [call[c] EXCEPT !.rec = Older(call[c].rec), !.spent = n]
    BY <1>5 DEF n
  <2>5. call'[c] \in CallStates /\ call'[c].at = call[c].at /\ call'[c].cfg = call[c].cfg
    BY <1>4, <2>1, <2>3, <2>4 DEF CallStates
  <2> QED BY <2>1, <2>5 DEF CallGood
<1>7. CallsInv'
  BY <1>1, <1>5, <1>6 DEF CallsInv, CallGood, Tick, ownerVars
<1> QED BY <1>1, <1>2, <1>3, <1>7 DEF Inv

LEMMA EvictRecordInv ==
  ASSUME Inv, EvictRecord
  PROVE  Inv'
<1>1. NodeTypeOK' /\ config' = config
  BY NodeStutterType DEF Inv, EvictRecord, nodeVars
<1>2. TrackerInv' /\ FaultsOK' /\ HookTypeOK'
  BY HookAssumption, TrackerStutter, FaultType DEF Inv, EvictRecord, HookTypeOK
<1> QED BY <1>1, <1>2, OtherStep DEF EvictRecord

LEMMA RestartInv ==
  ASSUME Inv, Restart
  PROVE  Inv'
<1>1. NodeTypeOK' /\ OwnerFlagsOK' /\ OwnerDataOK'
  BY NodeStutterType, OwnerStutter DEF Inv, Restart
<1>2. TrackerInv'
  BY LoseUpgradesTracker DEF Restart
<1>3. CallsInv'
  BY IdleType, IdleGood DEF CallsInv, Restart
<1>4. HookTypeOK' /\ FaultsOK'
  BY HookAssumption DEF HookAssumption, Inv, HookTypeOK, FaultsOK, Restart
<1> QED BY <1>1, <1>2, <1>3, <1>4 DEF Inv

LEMMA AbandonInv ==
  ASSUME Inv, Abandon
  PROVE  Inv'
<1>1. NodeTypeOK' /\ config' = config
  BY NodeStutterType DEF Inv, Abandon, nodeVars
<1>2. TrackerInv' /\ FaultsOK' /\ HookTypeOK'
  BY HookAssumption, TrackerStutter, FaultType DEF Inv, Abandon, HookTypeOK
<1> QED BY <1>1, <1>2, OtherStep DEF Abandon

----------------------------------------------------------------------------
(* The theorems. *)

LEMMA InitInv == Init => Inv
<1> SUFFICES ASSUME Init PROVE Inv
  OBVIOUS
<1>1. PICK c \in Configs : NodeInit(c) /\ desired = c /\ secret = c
  BY DEF Init
<1>2. NodeFlagsOK
  BY <1>1 DEF NodeInit, NodeFlagsOK
<1>3. NodeDataOK
  BY <1>1, NodeAssumption DEF NodeAssumption, NodeInit, NodeDataOK
<1>4. TrackerInv
  BY DEF Init, TrackerInit, TrackerInv, TrackerTypeOK, SequencesCarryImages, LiveSequenceIsTracked,
         Live, NoSequence, Sequences, Running, Finished
<1>5. CallsInv
  BY IdleType, IdleGood DEF Init, CallsInv
<1>6. OwnerFlagsOK
  BY DEF Init, OwnerFlagsOK
<1>7. HookTypeOK /\ OwnerDataOK /\ FaultsOK
  BY <1>1, HookAssumption DEF HookAssumption, Init, HookTypeOK, OwnerDataOK, FaultsOK
<1> QED BY <1>2, <1>3, <1>4, <1>5, <1>6, <1>7 DEF Inv, NodeTypeOK

LEMMA StepInv == Inv /\ [Next]_vars => Inv'
<1> SUFFICES ASSUME Inv, [Next]_vars PROVE Inv'
  OBVIOUS
<1>1. CASE UNCHANGED vars
  <2>1. NodeTypeOK' /\ config' = config
    BY <1>1, NodeStutterType DEF Inv, vars, nodeVars
  <2>2. TrackerInv' /\ FaultsOK'
    BY <1>1, TrackerStutter, FaultStutter DEF Inv, vars
  <2>3. HookTypeOK'
    BY <1>1 DEF Inv, HookTypeOK, vars, hookVars
  <2> QED BY <1>1, <2>1, <2>2, <2>3, OtherStep DEF vars, hookVars
<1>2. CASE \E c \in Calls : CallHook(c) \/ CallStep(c) \/ BreakRPC(c)
  BY <1>2, CallHookInv, CallStepInv, BreakRPCInv
<1>3. CASE \E i \in Seqs : SequenceProgress(i) \/ Outdate(i) \/ WatchDeletion(i) \/ SequenceFault(i)
  BY <1>3, SequenceInv, WatchDeletionInv
<1> QED BY <1>1, <1>2, <1>3, StartUpdateInv, RenderInv, NodeInv, TickInv, EvictRecordInv, RestartInv,
           AbandonInv
        DEF Next, Lossless

LEMMA SpecInv == Spec => []Inv
<1> QED BY InitInv, StepInv, PTL DEF Spec

\* Every variable keeps its type, whatever fails and however calls and sequences overlap.
THEOREM TypeCorrect == Spec => []TypeOK
<1>1. Inv => TypeOK
  BY AllInv
<1> QED BY <1>1, SpecInv, PTL

\* There is never a sequence in flight that the tracker does not hold, so there are never two, and
\* cancelling the entry of the machine always reaches the goroutine (upgrades.go, start, cancel).
THEOREM LiveSequenceTracked == Spec => []LiveSequenceIsTracked
<1>1. Inv => LiveSequenceIsTracked
  BY DEF Inv, TrackerInv
<1> QED BY <1>1, SpecInv, PTL

\* The configuration of the node is touched by an apply alone, answered or not.
LEMMA ConfigStep ==
  ASSUME Inv, [Next]_vars
  PROVE  config' = config \/ config' = desired
<1>1. CASE \E c \in Calls : ApplyConfig(c)
  BY <1>1, CallFacts DEF ApplyConfig, AcceptConfig
<1>2. CASE \E c \in Calls : BreakRPC(c)
  <2>1. PICK c \in Calls : BreakRPC(c)
    BY <1>2
  <2>2. call[c].cfg = desired
    BY <2>1, CallFacts DEF BreakRPC, NodeRPCs
  <2> QED BY <2>1, <2>2 DEF BreakRPC, AcceptConfig, AcceptUpgrade, nodeVars
<1>3. CASE \E c \in Calls : CallHook(c) \/ (CallStep(c) /\ ~ApplyConfig(c))
  <2>1. ASSUME NEW c \in Calls, CallHook(c) \/ ReadVersion(c) \/ LookupRecord(c) \/ ObserveBefore(c)
               \/ ObserveStatus(c) \/ RecordApply(c) \/ LookAtUpgrade(c) \/ Settle(c)
               \/ SettleStatus(c) \/ FailRPC(c)
        PROVE  config' = config
    BY <2>1 DEF CallHook, ReadVersion, LookupRecord, ObserveBefore, ObserveStatus, RecordApply,
       LookAtUpgrade, Settle, SettleStatus, FailRPC, nodeVars
  <2>2. ASSUME NEW c \in Calls, LegacyUpgrade(c) \/ ContinueUpgrade(c) \/ Finish(c)
        PROVE  config' = config
    BY <2>2 DEF LegacyUpgrade, AcceptUpgrade, ContinueUpgrade, Finish, nodeVars
  <2> QED BY <1>3, <2>1, <2>2 DEF CallStep
<1>4. CASE \E i \in Seqs : SequenceProgress(i) \/ Outdate(i) \/ WatchDeletion(i) \/ SequenceFault(i)
  <2>1. PICK i \in Seqs : SequenceProgress(i) \/ Outdate(i) \/ WatchDeletion(i) \/ SequenceFault(i)
    BY <1>4
  <2>2. CASE WatchDeletion(i)
    BY <2>2 DEF WatchDeletion, nodeVars
  <2>3. CASE SequenceStep(i) \/ BreakSequence(i) \/ Expire(i)
    BY <2>3, SequenceNode
  <2> QED BY <2>1, <2>2, <2>3 DEF SequenceProgress, Outdate, SequenceFault
<1>5. CASE NodeProgress \/ NodeFault
  BY <1>5 DEF NodeProgress, NodeFault, FallBack, NodeStep, SelfUpgrade, Boot, RenderPod,
              StopContainer, StartContainer, BecomeReady
<1>6. CASE StartUpdate \/ Render \/ Delete \/ Tick \/ EvictRecord \/ Restart \/ Abandon \/ UNCHANGED vars
  BY <1>6 DEF StartUpdate, Render, Delete, Tick, NodeTick, EvictRecord, Restart, Abandon, vars,
              nodeVars
<1> QED BY <1>1, <1>2, <1>3, <1>4, <1>5, <1>6 DEF Next, Lossless

\* Completion is reported by nothing but the end of a call the owner waits for.
LEMMA DoneStep ==
  ASSUME Inv, [Next]_vars, updating, ~updating'
  PROVE  config = desired
<1>1. PICK c \in Calls : Finish(c)
  <2>1. \E c \in Calls : CallStep(c)
    BY DEF Next, Lossless, vars, ownerVars, StartUpdate, Render, Delete, CallHook, BreakRPC, SequenceProgress,
           Outdate, WatchDeletion, SequenceFault, NodeProgress, NodeFault, Tick, EvictRecord,
           Restart, Abandon
  <2> QED BY <2>1 DEF CallStep, ownerVars, ReadVersion, LookupRecord, ObserveBefore, ObserveStatus,
                      ApplyConfig, RecordApply, LegacyUpgrade, LookAtUpgrade, ContinueUpgrade,
                      Settle, SettleStatus, FailRPC
<1> QED BY <1>1, CallFacts DEF Finish, Delivered

\* The configuration of the node changes only to what the owner desires: an apply that is retried,
\* whose answer is lost, or whose caller has gone never carries another one (desiredConfig).
THEOREM OnlyDesired == Spec => OnlyDesiredApplied
<1>1. Inv /\ [Next]_vars => [config' # config => config' = desired]_vars
  BY ConfigStep
<1> QED BY <1>1, SpecInv, PTL DEF Spec, OnlyDesiredApplied

\* A machine is reported done only once its node has accepted the desired configuration, whichever
\* of the overlapping calls is the one that answers (DoUpdateMachine).
THEOREM DoneIsDelivered == Spec => DoneMeansDelivered
<1>1. Inv /\ [Next]_vars => [(updating /\ ~updating') => config = desired]_vars
  BY DoneStep
<1> QED BY <1>1, SpecInv, PTL DEF Spec, DoneMeansDelivered
=============================================================================
