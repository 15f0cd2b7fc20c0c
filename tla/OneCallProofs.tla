---------------------------- MODULE OneCallProofs ----------------------------
(***************************************************************************)
(* What holds of UpdateMachine as long as hook calls do not overlap, for   *)
(* every set of versions, images and configurations, every number of       *)
(* sequences, and every failure, restart and deletion: a machine is done   *)
(* only on the desired version, no sequence reboots a node that has it,    *)
(* and on a worker the hook implements UpdateContract.                     *)
(*                                                                         *)
(* None of this is inductive, for what reboots the node was decided        *)
(* earlier, by a call that knew an earlier version.  What has to be known  *)
(* is which images may still come up on the node (PendingExpected), what   *)
(* a sequence in flight stands for (SequencesGood), and how the version a  *)
(* call has read relates to the one that runs by now (CallsKnow).          *)
(***************************************************************************)
EXTENDS UpdateRefinement, UpdateMachineProofs

\* Hook calls do not overlap.
Sequential == \A c, d \in Calls : c = d

\* A node on version tag has to be upgraded for the configuration the owner wants.
Upgradable(tag) == NeedsUpgrade(ImageOf[desired], tag)

\* An image that may come up: the one that runs, or the one of an update in progress.
Expected(img) ==
  \/ img = running
  \/ /\ updating
     /\ config = desired
     /\ img = ImageOf[desired]
     /\ Upgradable(TagOf[running])

\* The node is down and comes back on another image, unless it falls back.
Rebooting == ~up /\ installed # running

\* A node upgrades itself only when it is too old for the lifecycle service.
PendingExpected ==
  /\ Expected(installed)
  /\ selfUpgrade # None =>
       /\ Expected(selfUpgrade)
       /\ selfUpgrade = running \/ TagOf[running] \notin LifecycleTags

\* A sequence in flight is for the update in progress, and that has not been achieved.
LiveGood(i) ==
  /\ updating
  /\ config = desired
  /\ seq[i].image = ImageOf[desired]
  /\ Upgradable(TagOf[running])
  /\ TagOf[running] \in LifecycleTags
  /\ ~Rebooting

SequencesGood == \A i \in Seqs : Live(i) => LiveGood(i)

\* The version a call has read is out of date, or about to be.
Overtaken(r) == TagOf[running] # r.tag \/ Rebooting

\* What a call knows: its version is out of date only because the node came up on the desired image,
\* and then the entry of the sequence that brought it there is still in the tracker.
Knows(r) ==
  /\ r.at # "idle" => updating
  /\ r.at \notin {"idle", "version"} =>
       /\ TagOf[running] = r.tag \/ (Upgradable(r.tag) /\ running = ImageOf[desired])
       /\ r.tag \in LifecycleTags /\ Upgradable(r.tag) /\ Overtaken(r) => tracker # None
  /\ r.at = "legacy" => Upgradable(r.tag) /\ r.tag \notin LifecycleTags
  /\ r.at \in {"look", "act"} => Upgradable(r.tag) /\ r.tag \in LifecycleTags
  /\ r.at \in {"settle", "settleStatus", "finish"} => ~Upgradable(r.tag)

CallsKnow == \A c \in Calls : Knows(call[c])

OneInv == PendingExpected /\ SequencesGood /\ CallsKnow

imageVars == <<config, running, installed, selfUpgrade, desired, updating>>

----------------------------------------------------------------------------
(* What leaves each of the three alone. *)

LEMMA PendingFrame ==
  ASSUME PendingExpected, UNCHANGED imageVars
  PROVE  PendingExpected'
BY DEF PendingExpected, Expected, Upgradable, NeedsUpgrade, imageVars

LEMMA SequencesFrame ==
  ASSUME SequencesGood, UNCHANGED imageVars, Rebooting' => Rebooting,
         \A i \in Seqs : Live(i)' => Live(i) /\ seq'[i].image = seq[i].image
  PROVE  SequencesGood'
BY DEF SequencesGood, LiveGood, Upgradable, NeedsUpgrade, imageVars

LEMMA NoneLive ==
  ASSUME \A i \in Seqs : ~Live(i)'
  PROVE  SequencesGood'
BY DEF SequencesGood

\* Nothing a call knows is taken back, and call c moves on with what record r says.
LEMMA CallMoves ==
  ASSUME Inv, CallsKnow, NEW c \in Calls, NEW r,
         call' = [call EXCEPT ![c] = r],
         Knows(r),
         UNCHANGED <<running, desired, updating>>,
         Rebooting' => Rebooting,
         tracker # None => tracker' # None
  PROVE  CallsKnow'
<1>1. ASSUME NEW d \in Calls
      PROVE  Knows(call'[d])
  BY DEF CallsKnow, Inv, CallsInv
<1> QED BY <1>1 DEF CallsKnow, Knows, Overtaken, Upgradable, NeedsUpgrade

LEMMA CallsFrame ==
  ASSUME CallsKnow,
         \A c \in Calls : call'[c].at = call[c].at /\ call'[c].tag = call[c].tag,
         UNCHANGED <<running, desired, updating>>,
         Rebooting' => Rebooting,
         tracker # None => tracker' # None
  PROVE  CallsKnow'
BY DEF CallsKnow, Knows, Overtaken, Upgradable, NeedsUpgrade

LEMMA IdleKnows == Knows(Idle)
BY DEF Knows, Idle

\* The only call returns.
LEMMA OnlyCallReturns ==
  ASSUME Sequential, Inv, NEW c \in Calls, call' = [call EXCEPT ![c] = Idle]
  PROVE  CallsKnow'
<1>1. \A d \in Calls : call'[d].at = "idle"
  BY DEF Sequential, Inv, CallsInv, Idle
<1> QED BY <1>1 DEF CallsKnow, Knows

\* A call moves on, and nothing else happens.
LEMMA CallAlone ==
  ASSUME Inv, OneInv, NEW c \in Calls, NEW r,
         call' = [call EXCEPT ![c] = r],
         Knows(r),
         UNCHANGED <<nodeVars, trackerVars, ownerVars>>
  PROVE  OneInv'
<1>1. UNCHANGED imageVars /\ (Rebooting' => Rebooting) /\ UNCHANGED trackerVars
  BY DEF nodeVars, ownerVars, imageVars, Rebooting
<1>2. PendingExpected'
  BY <1>1, PendingFrame DEF OneInv
<1>3. SequencesGood'
  BY <1>1, SequencesFrame DEF OneInv, Live, trackerVars
<1>4. CallsKnow'
  BY <1>1, CallMoves DEF OneInv, imageVars, trackerVars
<1> QED BY <1>2, <1>3, <1>4 DEF OneInv

\* Neither the calls nor anything they know of changes.
LEMMA CallsAside ==
  ASSUME Inv, OneInv,
         \A c \in Calls : call'[c].at = call[c].at /\ call'[c].tag = call[c].tag,
         UNCHANGED <<up, imageVars, trackerVars>>
  PROVE  OneInv'
<1>1. Rebooting' => Rebooting
  BY DEF imageVars, Rebooting
<1>2. PendingExpected'
  BY PendingFrame DEF OneInv
<1>3. SequencesGood'
  BY <1>1, SequencesFrame DEF OneInv, Live, trackerVars
<1>4. CallsKnow'
  BY <1>1, CallsFrame DEF OneInv, imageVars, trackerVars
<1> QED BY <1>2, <1>3, <1>4 DEF OneInv

----------------------------------------------------------------------------
(* The steps of the call. *)

\* What a call under way is known to know.
LEMMA CallKnowledge ==
  ASSUME Inv, OneInv, NEW c \in Calls
  PROVE  /\ Knows(call[c])
         /\ call[c].at # "idle" => updating /\ call[c].cfg = desired /\ call[c] \in CallStates
         /\ call[c].at \in Delivered => config = desired
<1>1. Knows(call[c])
  BY DEF OneInv, CallsKnow
<1>2. call[c].at # "idle" => updating
  BY <1>1 DEF Knows
<1>3. call[c].at # "idle" => call[c].cfg = desired /\ call[c] \in CallStates
  BY CallFacts
<1>4. call[c].at \in Delivered => config = desired
  BY CallFacts DEF Delivered
<1> QED BY <1>1, <1>2, <1>3, <1>4

LEMMA CallHookOne ==
  ASSUME Inv, OneInv, NEW c \in Calls, CallHook(c)
  PROVE  OneInv'
<1> DEFINE r == [call[c] EXCEPT !.at = "version", !.cfg = secret]
<1>1. call' = [call EXCEPT ![c] = r]
  BY DEF CallHook
<1>2. call[c] \in CallStates
  BY DEF Inv, CallsInv
<1>3. r.at = "version" /\ updating
  BY <1>2 DEF CallHook, CallStates
<1>4. Knows(r)
  BY <1>3 DEF Knows
<1> HIDE DEF r
<1> QED BY <1>1, <1>4, CallAlone DEF CallHook

LEMMA ReadVersionOne ==
  ASSUME Inv, OneInv, NEW c \in Calls, ReadVersion(c)
  PROVE  OneInv'
<1> DEFINE r == [call[c] EXCEPT !.tag = TagOf[running],
                               !.at = IF ControlPlane THEN "lookup" ELSE "apply"]
<1>1. call' = [call EXCEPT ![c] = r]
  BY DEF ReadVersion
<1>2. call[c] \in CallStates /\ updating
  BY CallKnowledge DEF ReadVersion
<1>3. r.tag = TagOf[running] /\ r.at \in {"lookup", "apply"}
  BY <1>2 DEF CallStates
<1> HIDE DEF r
<1>4. Knows(r)
  BY <1>2, <1>3 DEF Knows, Overtaken, Rebooting, ReadVersion
<1> QED BY <1>1, <1>4, CallAlone DEF ReadVersion

\* A step at which a call only moves on, with the version it has read.
LEMMA MoveKnows ==
  ASSUME Inv, OneInv, NEW c \in Calls, NEW r,
         call[c].at \notin {"idle", "version"},
         r.tag = call[c].tag,
         r.at \in {"observe", "observeStatus", "apply", "record"}
  PROVE  Knows(r)
BY CallKnowledge DEF Knows, Overtaken

LEMMA LookupOne ==
  ASSUME Inv, OneInv, NEW c \in Calls, LookupRecord(c) \/ ObserveBefore(c) \/ ObserveStatus(c)
  PROVE  OneInv'
<1>1. call[c] \in CallStates /\ call[c].at \in {"lookup", "observe", "observeStatus"}
  BY CallKnowledge DEF LookupRecord, ObserveBefore, ObserveStatus
<1>2. CASE LookupRecord(c)
  <2> DEFINE r == IF applies # None /\ applies.cfg = call[c].cfg
                    THEN [call[c] EXCEPT !.rec = applies, !.at = "apply"]
                    ELSE [call[c] EXCEPT !.at = "observe"]
  <2>1. call' = [call EXCEPT ![c] = r]
    BY <1>2 DEF LookupRecord, Goto
  <2>2. r.tag = call[c].tag /\ r.at \in {"observe", "apply"}
    BY <1>1 DEF CallStates
  <2> HIDE DEF r
  <2>3. Knows(r)
    BY <1>1, <2>2, MoveKnows
  <2> QED BY <1>2, <2>1, <2>3, CallAlone DEF LookupRecord
<1>3. CASE ObserveBefore(c)
  <2> DEFINE r == [call[c] EXCEPT !.pod = rendered,
                                 !.at = IF rendered = 0 THEN "apply" ELSE "observeStatus"]
  <2>1. call' = [call EXCEPT ![c] = r]
    BY <1>3 DEF ObserveBefore
  <2>2. r.tag = call[c].tag /\ r.at \in {"apply", "observeStatus"}
    BY <1>1 DEF CallStates
  <2> HIDE DEF r
  <2>3. Knows(r)
    BY <1>1, <2>2, MoveKnows
  <2> QED BY <1>3, <2>1, <2>3, CallAlone DEF ObserveBefore
<1>4. CASE ObserveStatus(c)
  <2> DEFINE r == [call[c] EXCEPT !.before = APIServer(call[c].pod), !.pod = 0, !.at = "apply"]
  <2>1. call' = [call EXCEPT ![c] = r]
    BY <1>4 DEF ObserveStatus
  <2>2. r.tag = call[c].tag /\ r.at = "apply"
    BY <1>1 DEF CallStates
  <2> HIDE DEF r
  <2>3. Knows(r)
    BY <1>1, <2>2, MoveKnows
  <2> QED BY <1>4, <2>1, <2>3, CallAlone DEF ObserveStatus
<1> QED BY <1>2, <1>3, <1>4

\* Where a call goes after the apply follows from the version it has read.
LEMMA AfterApplyKnows ==
  ASSUME Inv, OneInv, NEW c \in Calls, NEW r,
         call[c].at \in {"apply", "record"},
         r.tag = call[c].tag,
         r.at = AfterApply(c)
  PROVE  Knows(r)
<1>1. Knows(call[c]) /\ updating /\ call[c].cfg = desired
  BY CallKnowledge
<1>2. /\ r.at = "legacy" => Upgradable(r.tag) /\ r.tag \notin LifecycleTags
      /\ r.at \in {"look", "act"} => Upgradable(r.tag) /\ r.tag \in LifecycleTags
      /\ r.at \in {"settle", "settleStatus", "finish"} => ~Upgradable(r.tag)
  BY <1>1 DEF AfterApply, Upgradable
<1> QED BY <1>1, <1>2 DEF Knows, Overtaken

\* An accepted configuration may take the node down, but then for the image it runs: nothing was
\* upgraded before the configuration was delivered.
LEMMA AcceptConfigOne ==
  ASSUME OneInv, updating, AcceptConfig(desired), UNCHANGED <<desired, updating, trackerVars>>
  PROVE  /\ PendingExpected' /\ SequencesGood'
         /\ Rebooting' => Rebooting
         /\ UNCHANGED <<running, tracker>>
<1>1. UNCHANGED <<running, installed, selfUpgrade, tracker, seq>> /\ config' = desired
  BY DEF AcceptConfig, trackerVars
<1>2. Rebooting' => Rebooting
  BY <1>1 DEF AcceptConfig, GoDown, OneInv, PendingExpected, Expected, Rebooting
<1>3. PendingExpected'
  BY <1>1 DEF OneInv, PendingExpected, Expected, Upgradable, NeedsUpgrade
<1>4. SequencesGood'
  BY <1>1, <1>2 DEF OneInv, SequencesGood, LiveGood, Live, Upgradable, NeedsUpgrade
<1> QED BY <1>1, <1>2, <1>3, <1>4

LEMMA ApplyConfigOne ==
  ASSUME Inv, OneInv, NEW c \in Calls, ApplyConfig(c)
  PROVE  OneInv'
<1> DEFINE to == IF ControlPlane /\ call[c].rec = None THEN "record" ELSE AfterApply(c)
           r  == [call[c] EXCEPT !.at = to]
<1>1. call[c] \in CallStates /\ updating /\ call[c].cfg = desired /\ call[c].at = "apply"
  BY CallKnowledge DEF ApplyConfig
<1>2. call' = [call EXCEPT ![c] = r]
  BY DEF ApplyConfig, Goto
<1>3. r.tag = call[c].tag /\ (r.at = "record" \/ r.at = AfterApply(c))
  BY <1>1 DEF CallStates
<1> HIDE DEF r, to
<1>4. Knows(r)
  BY <1>1, <1>3, MoveKnows, AfterApplyKnows
<1>5. UNCHANGED <<desired, updating, trackerVars>> /\ AcceptConfig(desired)
  BY <1>1 DEF ApplyConfig, ownerVars
<1>6. /\ PendingExpected' /\ SequencesGood'
      /\ Rebooting' => Rebooting
      /\ UNCHANGED <<running, tracker>>
  BY <1>1, <1>5, AcceptConfigOne
<1>7. CallsKnow'
  BY <1>2, <1>4, <1>5, <1>6, CallMoves DEF OneInv
<1> QED BY <1>6, <1>7 DEF OneInv

LEMMA RecordApplyOne ==
  ASSUME Inv, OneInv, NEW c \in Calls, RecordApply(c)
  PROVE  OneInv'
<1> DEFINE record == [cfg |-> call[c].cfg, before |-> call[c].before, age |-> 0]
           r == [call[c] EXCEPT !.rec = record, !.at = AfterApply(c)]
<1>1. call[c] \in CallStates /\ call[c].at = "record"
  BY CallKnowledge DEF RecordApply
<1>2. call' = [call EXCEPT ![c] = r]
  BY DEF RecordApply
<1>3. r.tag = call[c].tag /\ r.at = AfterApply(c)
  BY <1>1 DEF CallStates
<1> HIDE DEF r
<1>4. Knows(r)
  BY <1>1, <1>3, AfterApplyKnows
<1> QED BY <1>2, <1>4, CallAlone DEF RecordApply

\* The node is asked to upgrade itself: what it will run is expected.
LEMMA AcceptUpgradeOne ==
  ASSUME Inv, OneInv, NEW c \in Calls, call[c].at = "legacy", AcceptUpgrade(ImageOf[desired]),
         UNCHANGED <<desired, updating, trackerVars>>
  PROVE  PendingExpected' /\ SequencesGood'
<1>1. /\ UNCHANGED <<up, config, running, installed, tracker, seq>>
      /\ selfUpgrade' = selfUpgrade \/ selfUpgrade' = ImageOf[desired]
  BY DEF AcceptUpgrade, trackerVars
<1>2. updating /\ config = desired /\ Knows(call[c])
  BY CallKnowledge DEF Delivered
<1>3. /\ Upgradable(call[c].tag) /\ call[c].tag \notin LifecycleTags
      /\ TagOf[running] = call[c].tag \/ running = ImageOf[desired]
  BY <1>2 DEF Knows
<1>4. /\ Expected(ImageOf[desired])
      /\ ImageOf[desired] = running \/ TagOf[running] \notin LifecycleTags
  BY <1>2, <1>3 DEF Expected
<1>5. PendingExpected'
  BY <1>1, <1>4 DEF OneInv, PendingExpected, Expected, Upgradable, NeedsUpgrade
<1>6. SequencesGood'
  BY <1>1 DEF OneInv, SequencesGood, LiveGood, Live, Rebooting, Upgradable, NeedsUpgrade
<1> QED BY <1>5, <1>6

LEMMA LegacyUpgradeOne ==
  ASSUME Sequential, Inv, OneInv, NEW c \in Calls, LegacyUpgrade(c)
  PROVE  OneInv'
<1>1. call[c].cfg = desired
  BY CallKnowledge DEF LegacyUpgrade
<1>2. PendingExpected' /\ SequencesGood'
  BY <1>1, AcceptUpgradeOne DEF LegacyUpgrade, ownerVars
<1>3. CallsKnow'
  BY OnlyCallReturns DEF LegacyUpgrade, Return
<1> QED BY <1>2, <1>3 DEF OneInv

LEMMA LookAtUpgradeOne ==
  ASSUME Inv, OneInv, NEW c \in Calls, LookAtUpgrade(c)
  PROVE  OneInv'
<1> DEFINE r == [call[c] EXCEPT !.seen = Snapshot, !.at = "act"]
<1>1. call[c] \in CallStates /\ Knows(call[c]) /\ call[c].at = "look"
  BY CallKnowledge DEF LookAtUpgrade
<1>2. call' = [call EXCEPT ![c] = r]
  BY DEF LookAtUpgrade
<1>3. r.tag = call[c].tag /\ r.at = "act"
  BY <1>1 DEF CallStates
<1> HIDE DEF r
<1>4. Knows(r)
  BY <1>1, <1>3 DEF Knows, Overtaken
<1> QED BY <1>2, <1>4, CallAlone DEF LookAtUpgrade

\* A cancelled tracker leaves no sequence in flight.
LEMMA CancelStops ==
  ASSUME SeqAssumption, TrackerInv, CancelUpgrade
  PROVE  \A i \in Seqs : ~Live(i)'
<1>1. CASE ~Exists
  BY <1>1 DEF CancelUpgrade, Exists, TrackerInv, LiveSequenceIsTracked, Live, SeqAssumption,
              trackerVars
<1>2. CASE Exists
  BY <1>2 DEF CancelUpgrade, Exists, TrackerInv, TrackerTypeOK, LiveSequenceIsTracked, Live,
              Sequences, NoSequence, Running
<1> QED BY <1>1, <1>2

\* A sequence started now is for the update in progress: had the node come up on the desired image
\* since the call asked for its version, the tracker would not be empty.
LEMMA StartUpgradeOne ==
  ASSUME Inv, OneInv, NEW c \in Calls, call[c].at = "act", StartUpgrade(ImageOf[desired]),
         UNCHANGED <<up, imageVars>>
  PROVE  SequencesGood'
<1>1. CASE Exists
  BY <1>1 DEF StartUpgrade, OneInv, SequencesGood, LiveGood, Live, Rebooting, Upgradable,
              NeedsUpgrade, imageVars, trackerVars
<1>2. CASE ~Exists
  <2>1. updating /\ config = desired /\ Knows(call[c])
    BY CallKnowledge DEF Delivered
  <2>2. /\ TagOf[running] = call[c].tag /\ ~Rebooting
        /\ Upgradable(call[c].tag) /\ call[c].tag \in LifecycleTags
    BY <1>2, <2>1 DEF Knows, Overtaken, Exists
  <2>3. PICK i \in Seqs :
          seq' = [seq EXCEPT ![i] =
                    [phase |-> "connect", image |-> ImageOf[desired], ctx |-> "live"]]
    BY <1>2 DEF StartUpgrade
  <2>4. seq \in [Seqs -> Sequences]
    BY DEF Inv, TrackerInv, TrackerTypeOK
  <2>5. ASSUME NEW j \in Seqs, Live(j)'
        PROVE  seq'[j].image = ImageOf[desired]
    <3>1. CASE j = i
      BY <2>3, <2>4, <3>1
    <3>2. CASE j # i
      BY <2>3, <2>4, <2>5, <3>2 DEF OneInv, SequencesGood, LiveGood, Live
    <3> QED BY <3>1, <3>2
  <2>6. Upgradable(TagOf[running]) /\ TagOf[running] \in LifecycleTags
    BY <2>2
  <2> QED BY <2>1, <2>2, <2>5, <2>6 DEF SequencesGood, LiveGood, Rebooting, Upgradable,
                                        NeedsUpgrade, imageVars
<1> QED BY <1>1, <1>2

LEMMA ContinueUpgradeOne ==
  ASSUME Sequential, Inv, OneInv, NEW c \in Calls, ContinueUpgrade(c)
  PROVE  OneInv'
<1>1. call[c].at = "act" /\ call[c].cfg = desired /\ call[c].seen \in Snapshots
  BY CallKnowledge DEF ContinueUpgrade, CallStates
<1>2. UNCHANGED <<up, imageVars>>
  BY DEF ContinueUpgrade, nodeVars, ownerVars, imageVars
<1>3. ASSUME StartUpgrade(ImageOf[desired]) PROVE SequencesGood'
  BY <1>1, <1>2, <1>3, StartUpgradeOne
<1>4. ASSUME CancelUpgrade PROVE SequencesGood'
  BY <1>4, SeqAssumption, CancelStops, NoneLive DEF Inv
<1>5. ASSUME UNCHANGED trackerVars PROVE SequencesGood'
  BY <1>2, <1>5, SequencesFrame DEF OneInv, Live, trackerVars, imageVars, Rebooting
<1>6. SequencesGood'
  BY <1>1, <1>3, <1>4, <1>5 DEF ContinueUpgrade, Snapshots
<1>7. CallsKnow'
  BY OnlyCallReturns DEF ContinueUpgrade, Return
<1>8. PendingExpected'
  BY <1>2, PendingFrame DEF OneInv
<1> QED BY <1>6, <1>7, <1>8 DEF OneInv

\* A call that reads kube-apiserver needs no upgrade, and goes on without one.
LEMMA SettleKnows ==
  ASSUME Inv, OneInv, NEW c \in Calls, NEW r,
         call[c].at \in {"settle", "settleStatus"},
         r.tag = call[c].tag,
         r.at \in {"settleStatus", "finish"}
  PROVE  Knows(r)
BY CallKnowledge DEF Knows, Overtaken

LEMMA SettleOne ==
  ASSUME Inv, OneInv, NEW c \in Calls, Settle(c) \/ SettleStatus(c) \/ FailRPC(c)
  PROVE  OneInv'
<1>1. UNCHANGED <<nodeVars, trackerVars, ownerVars>>
  BY DEF Settle, SettleStatus, FailRPC
<1>2. CASE call' = [call EXCEPT ![c] = Idle]
  BY <1>1, <1>2, IdleKnows, CallAlone
<1>3. CASE Settle(c) /\ rendered # 0
  <2> DEFINE r == [call[c] EXCEPT !.pod = rendered, !.at = "settleStatus"]
  <2>1. call[c] \in CallStates /\ call[c].at = "settle"
    BY <1>3, CallKnowledge DEF Settle
  <2>2. call' = [call EXCEPT ![c] = r]
    BY <1>3 DEF Settle
  <2>3. r.tag = call[c].tag /\ r.at = "settleStatus"
    BY <2>1 DEF CallStates
  <2> HIDE DEF r
  <2>4. Knows(r)
    BY <2>1, <2>3, SettleKnows
  <2> QED BY <1>1, <2>2, <2>4, CallAlone
<1>4. CASE SettleStatus(c) /\ Goto(c, "finish")
  <2> DEFINE r == [call[c] EXCEPT !.at = "finish"]
  <2>1. call[c] \in CallStates /\ call[c].at = "settleStatus"
    BY <1>4, CallKnowledge DEF SettleStatus
  <2>2. call' = [call EXCEPT ![c] = r]
    BY <1>4 DEF Goto
  <2>3. r.tag = call[c].tag /\ r.at = "finish"
    BY <2>1 DEF CallStates
  <2> HIDE DEF r
  <2>4. Knows(r)
    BY <2>1, <2>3, SettleKnows
  <2> QED BY <1>1, <2>2, <2>4, CallAlone
<1> QED BY <1>2, <1>3, <1>4 DEF Settle, SettleStatus, FailRPC, Return

\* At the end of a call the node runs the version it is to run, and nothing can bring up another.
LEMMA FinishFacts ==
  ASSUME Inv, OneInv, NEW c \in Calls, call[c].at = "finish"
  PROVE  updating /\ config = desired /\ ~Upgradable(TagOf[running])
<1>1. updating /\ config = desired /\ Knows(call[c])
  BY CallKnowledge DEF Delivered
<1> QED BY <1>1 DEF Knows

LEMMA FinishOne ==
  ASSUME Sequential, Inv, OneInv, NEW c \in Calls, Finish(c)
  PROVE  OneInv'
<1>1. ~Upgradable(TagOf[running])
  BY FinishFacts DEF Finish
<1>2. UNCHANGED nodeVars
  BY DEF Finish
<1>3. PendingExpected'
  BY <1>1, <1>2 DEF OneInv, PendingExpected, Expected, nodeVars
<1>4. SequencesGood'
  BY SeqAssumption, CancelStops, NoneLive DEF Inv, Finish
<1>5. CallsKnow'
  BY OnlyCallReturns DEF Finish, Return
<1> QED BY <1>3, <1>4, <1>5 DEF OneInv

LEMMA BreakRPCOne ==
  ASSUME Sequential, Inv, OneInv, NEW c \in Calls, BreakRPC(c)
  PROVE  OneInv'
<1>1. call[c].cfg = desired /\ updating
  BY CallKnowledge DEF BreakRPC, NodeRPCs
<1>2. UNCHANGED <<desired, updating, trackerVars>>
  BY DEF BreakRPC, ownerVars
<1>3. ASSUME UNCHANGED nodeVars PROVE PendingExpected' /\ SequencesGood'
  <2>1. UNCHANGED imageVars /\ (Rebooting' => Rebooting)
    BY <1>2, <1>3 DEF nodeVars, imageVars, Rebooting
  <2> QED BY <1>2, <2>1, PendingFrame, SequencesFrame DEF OneInv, Live, trackerVars
<1>4. ASSUME AcceptConfig(desired) PROVE PendingExpected' /\ SequencesGood'
  BY <1>1, <1>2, <1>4, AcceptConfigOne
<1>5. ASSUME call[c].at = "legacy", AcceptUpgrade(ImageOf[desired])
      PROVE  PendingExpected' /\ SequencesGood'
  BY <1>2, <1>5, AcceptUpgradeOne
<1>6. PendingExpected' /\ SequencesGood'
  BY <1>1, <1>3, <1>4, <1>5 DEF BreakRPC
<1>7. CallsKnow'
  BY OnlyCallReturns DEF BreakRPC, Return
<1> QED BY <1>6, <1>7 DEF OneInv

LEMMA CallStepOne ==
  ASSUME Sequential, Inv, OneInv, NEW c \in Calls, CallHook(c) \/ CallStep(c) \/ BreakRPC(c)
  PROVE  OneInv'
BY CallHookOne, ReadVersionOne, LookupOne, ApplyConfigOne, RecordApplyOne, LegacyUpgradeOne,
   LookAtUpgradeOne, ContinueUpgradeOne, SettleOne, FinishOne, BreakRPCOne DEF CallStep

----------------------------------------------------------------------------
(* The node, the sequences, and what surrounds the calls. *)

LEMMA SelfUpgradeOne ==
  ASSUME Inv, OneInv, SelfUpgrade, UNCHANGED <<call, desired, updating, trackerVars>>
  PROVE  OneInv'
<1>1. /\ installed' = selfUpgrade /\ selfUpgrade' = None
      /\ UNCHANGED <<config, running, tracker, seq>>
      /\ Expected(selfUpgrade)
      /\ selfUpgrade = running \/ TagOf[running] \notin LifecycleTags
  BY DEF SelfUpgrade, OneInv, PendingExpected, trackerVars
<1>2. Rebooting' => TagOf[running] \notin LifecycleTags
  BY <1>1 DEF Rebooting
<1>3. PendingExpected'
  BY <1>1 DEF PendingExpected, Expected, Upgradable, NeedsUpgrade
<1>4. SequencesGood'
  BY <1>1, <1>2 DEF OneInv, SequencesGood, LiveGood, Live, Upgradable, NeedsUpgrade
<1>5. ASSUME NEW c \in Calls
      PROVE  Knows(call[c])'
  <2>1. Knows(call[c])
    BY DEF OneInv, CallsKnow
  <2> QED BY <1>1, <1>2, <2>1 DEF Knows, Overtaken, Upgradable, NeedsUpgrade
<1> QED BY <1>3, <1>4, <1>5 DEF OneInv, CallsKnow

\* The image that comes up is the one that ran before, or the desired one: then no sequence is in
\* flight, and a call that has asked for the version before finds an entry in the tracker.
LEMMA BootOne ==
  ASSUME Inv, OneInv, Boot, UNCHANGED <<call, desired, updating, trackerVars>>
  PROVE  OneInv'
<1>1. /\ running' = installed /\ selfUpgrade' = None /\ ~Rebooting'
      /\ UNCHANGED <<config, installed, tracker, seq>>
  BY DEF Boot, Rebooting, trackerVars
<1>2. PendingExpected'
  BY <1>1 DEF PendingExpected, Expected
<1>3. CASE installed = running
  <2>1. SequencesGood'
    BY <1>1, <1>3 DEF OneInv, SequencesGood, LiveGood, Live, Upgradable, NeedsUpgrade
  <2>2. CallsKnow'
    BY <1>1, <1>3, CallsFrame DEF OneInv
  <2> QED BY <1>2, <2>1, <2>2 DEF OneInv
<1>4. CASE installed # running
  <2>1. Rebooting /\ installed = ImageOf[desired] /\ Upgradable(TagOf[running])
    BY <1>4 DEF Boot, Rebooting, OneInv, PendingExpected, Expected
  <2>2. SequencesGood'
    BY <1>1, <2>1 DEF OneInv, SequencesGood, LiveGood, Live
  <2>3. ASSUME NEW c \in Calls
        PROVE  Knows(call[c])'
    <3>1. Knows(call[c])
      BY DEF OneInv, CallsKnow
    <3> QED BY <1>1, <2>1, <3>1 DEF Knows, Overtaken, Upgradable, NeedsUpgrade
  <2> QED BY <1>2, <2>2, <2>3 DEF OneInv, CallsKnow
<1> QED BY <1>3, <1>4

LEMMA FallBackOne ==
  ASSUME Inv, OneInv, FallBack, UNCHANGED <<call, desired, updating, trackerVars>>
  PROVE  OneInv'
<1>1. /\ installed' = running /\ selfUpgrade' = None /\ ~Rebooting'
      /\ UNCHANGED <<config, running, tracker, seq>>
  BY DEF FallBack, Rebooting, trackerVars
<1>2. PendingExpected'
  BY <1>1 DEF PendingExpected, Expected
<1>3. SequencesGood'
  BY <1>1 DEF OneInv, SequencesGood, LiveGood, Live, Upgradable, NeedsUpgrade
<1>4. CallsKnow'
  BY <1>1, CallsFrame DEF OneInv
<1> QED BY <1>2, <1>3, <1>4 DEF OneInv

LEMMA NodeOne ==
  ASSUME Inv, OneInv, NodeProgress \/ NodeFault
  PROVE  OneInv'
<1>1. UNCHANGED <<call, desired, updating, trackerVars>>
  BY DEF NodeProgress, NodeFault, ownerVars, hookVars
<1>2. CASE RenderPod \/ StopContainer \/ StartContainer \/ BecomeReady
  <2>1. UNCHANGED <<up, imageVars>>
    BY <1>1, <1>2 DEF RenderPod, StopContainer, StartContainer, BecomeReady, imageVars
  <2> QED BY <1>1, <2>1, CallsAside
<1> QED BY <1>1, <1>2, SelfUpgradeOne, BootOne, FallBackOne DEF NodeProgress, NodeFault, NodeStep

\* A sequence ends, or goes on for the same image.
LEMMA SequencesShrink ==
  ASSUME TrackerInv, NEW i \in Seqs, SequenceStep(i) \/ BreakSequence(i) \/ Expire(i)
  PROVE  /\ tracker' = tracker
         /\ \A j \in Seqs : Live(j)' => Live(j) /\ seq'[j].image = seq[j].image
<1>1. seq \in [Seqs -> Sequences]
  BY DEF TrackerInv, TrackerTypeOK
<1>2. CASE \E from, to \in Running : Advance(i, from, to)
  BY <1>1, <1>2 DEF Advance, Live, Sequences
<1>3. CASE tracker' = tracker /\ \E outcome \in Finished : EndSequence(i, outcome)
  BY <1>1, <1>3 DEF EndSequence, Live, Sequences, NoSequence, Running, Finished
<1>4. CASE Expire(i)
  BY <1>1, <1>4 DEF Expire, Live, Sequences
<1> QED BY <1>2, <1>3, <1>4 DEF SequenceStep, Connect, Pull, Install, RequestReboot, StopSequence,
                                BreakSequence, Running, Finished

LEMMA InstallOne ==
  ASSUME Inv, OneInv, NEW i \in Seqs, Live(i), InstallImage(seq[i].image),
         UNCHANGED <<call, desired, updating, tracker>>,
         \A j \in Seqs : Live(j)' => Live(j) /\ seq'[j].image = seq[j].image
  PROVE  OneInv'
<1>1. LiveGood(i)
  BY DEF OneInv, SequencesGood
<1>2. /\ installed' = ImageOf[desired] /\ ~Rebooting'
      /\ UNCHANGED <<config, running, selfUpgrade>>
  BY <1>1 DEF InstallImage, LiveGood, Rebooting
<1>3. PendingExpected'
  BY <1>1, <1>2 DEF OneInv, PendingExpected, Expected, LiveGood, Upgradable, NeedsUpgrade
<1>4. SequencesGood'
  BY <1>2 DEF OneInv, SequencesGood, LiveGood, Upgradable, NeedsUpgrade
<1>5. CallsKnow'
  BY <1>2, CallsFrame DEF OneInv
<1> QED BY <1>3, <1>4, <1>5 DEF OneInv

\* The sequence that reboots the node was the only one, and its entry stays.
LEMMA RebootOne ==
  ASSUME Inv, OneInv, NEW i \in Seqs, Live(i), Reboot,
         NEW outcome \in Finished, EndSequence(i, outcome),
         UNCHANGED <<call, desired, updating, tracker>>
  PROVE  OneInv'
<1>1. tracker = i /\ tracker # None
  BY SeqAssumption DEF Inv, TrackerInv, LiveSequenceIsTracked, SeqAssumption
<1>2. UNCHANGED imageVars
  BY DEF Reboot, imageVars
<1>3. PendingExpected'
  BY <1>2, PendingFrame DEF OneInv
<1>4. seq \in [Seqs -> Sequences]
  BY DEF Inv, TrackerInv, TrackerTypeOK
<1>5. ASSUME NEW j \in Seqs
      PROVE  ~Live(j)'
  <2>1. CASE j = i
    BY <1>4, <2>1 DEF EndSequence, Live, NoSequence, Running, Finished
  <2>2. CASE j # i
    BY <1>1, <1>4, <2>2 DEF EndSequence, Inv, TrackerInv, LiveSequenceIsTracked, Live
  <2> QED BY <2>1, <2>2
<1>6. SequencesGood'
  BY <1>5, NoneLive
<1>7. ASSUME NEW c \in Calls
      PROVE  Knows(call[c])'
  <2>1. Knows(call[c])
    BY DEF OneInv, CallsKnow
  <2> QED BY <1>1, <1>2, <2>1 DEF Knows, Upgradable, NeedsUpgrade, imageVars
<1> QED BY <1>3, <1>6, <1>7 DEF OneInv, CallsKnow

LEMMA SequenceOne ==
  ASSUME Inv, OneInv, NEW i \in Seqs, SequenceProgress(i) \/ Outdate(i) \/ SequenceFault(i)
  PROVE  OneInv'
<1>1. SequenceStep(i) \/ BreakSequence(i) \/ Expire(i)
  BY DEF SequenceProgress, Outdate, SequenceFault
<1>2. UNCHANGED <<call, desired, updating>>
  BY DEF SequenceProgress, Outdate, SequenceFault, ownerVars, hookVars
<1>3. /\ tracker' = tracker
      /\ \A j \in Seqs : Live(j)' => Live(j) /\ seq'[j].image = seq[j].image
  BY <1>1, SequencesShrink DEF Inv
<1>4. CASE UNCHANGED nodeVars
  <2>1. UNCHANGED imageVars /\ (Rebooting' => Rebooting)
    BY <1>2, <1>4 DEF nodeVars, imageVars, Rebooting
  <2>2. PendingExpected'
    BY <2>1, PendingFrame DEF OneInv
  <2>3. SequencesGood'
    BY <1>3, <2>1, SequencesFrame DEF OneInv
  <2>4. CallsKnow'
    BY <1>2, <1>3, <2>1, CallsFrame DEF OneInv, imageVars
  <2> QED BY <2>2, <2>3, <2>4 DEF OneInv
<1>5. CASE Live(i) /\ InstallImage(seq[i].image)
  BY <1>2, <1>3, <1>5, InstallOne
<1>6. CASE Live(i) /\ Reboot /\ \E outcome \in Finished : EndSequence(i, outcome)
  BY <1>2, <1>3, <1>6, RebootOne
<1> QED BY <1>1, <1>4, <1>5, <1>6
        DEF SequenceStep, Connect, Pull, Install, Advance, RequestReboot, StopSequence,
            BreakSequence, Expire, Live, Running, Finished

\* The watcher may empty the tracker: while a sequence is in flight, no call has been overtaken.
LEMMA WatchDeletionOne ==
  ASSUME Inv, OneInv, NEW i \in Seqs, WatchDeletion(i)
  PROVE  OneInv'
<1>1. LiveGood(i)
  BY DEF WatchDeletion, OneInv, SequencesGood
<1>2. UNCHANGED <<up, imageVars, call>>
  BY DEF WatchDeletion, nodeVars, ownerVars, imageVars
<1>3. PendingExpected'
  BY <1>2, PendingFrame DEF OneInv
<1>4. SequencesGood'
  BY SeqAssumption, CancelStops, NoneLive DEF Inv, WatchDeletion
<1>5. ASSUME NEW c \in Calls
      PROVE  Knows(call[c])'
  <2>1. Knows(call[c])
    BY DEF OneInv, CallsKnow
  <2>2. call[c].at \notin {"idle", "version"} => ~Overtaken(call[c])
    BY <1>1, <2>1 DEF Knows, Overtaken, LiveGood, Upgradable, NeedsUpgrade
  <2> QED BY <1>2, <2>1, <2>2 DEF Knows, Overtaken, Rebooting, Upgradable, NeedsUpgrade, imageVars
<1> QED BY <1>3, <1>4, <1>5 DEF OneInv, CallsKnow

\* A new update finds the node as the one before has left it, with nothing in flight.
LEMMA StartUpdateOne ==
  ASSUME OneInv, StartUpdate
  PROVE  OneInv'
<1>1. /\ ~updating
      /\ \A c \in Calls : call'[c].at = "idle"
      /\ UNCHANGED <<up, config, running, installed, selfUpgrade, tracker, seq>>
  BY DEF StartUpdate, nodeVars, trackerVars, hookVars
<1>2. PendingExpected'
  BY <1>1 DEF OneInv, PendingExpected, Expected
<1>3. SequencesGood'
  BY <1>1 DEF OneInv, SequencesGood, LiveGood, Live
<1>4. CallsKnow'
  BY <1>1 DEF CallsKnow, Knows
<1> QED BY <1>2, <1>3, <1>4 DEF OneInv

LEMMA AsideOne ==
  ASSUME Inv, OneInv, Render \/ Delete \/ Tick \/ EvictRecord \/ Abandon \/ UNCHANGED vars
  PROVE  OneInv'
<1>1. UNCHANGED <<up, imageVars, trackerVars>>
  BY DEF Render, Delete, Tick, NodeTick, EvictRecord, Abandon, vars, nodeVars, ownerVars, imageVars
<1>2. \A c \in Calls : call'[c].at = call[c].at /\ call'[c].tag = call[c].tag
  <2>1. CASE Tick
    BY <2>1 DEF Tick, Inv, CallsInv, CallStates
  <2> QED BY <2>1 DEF Render, Delete, EvictRecord, Abandon, vars, hookVars
<1> QED BY <1>1, <1>2, CallsAside

LEMMA RestartOne ==
  ASSUME OneInv, Restart
  PROVE  OneInv'
<1>1. UNCHANGED <<up, imageVars>>
  BY DEF Restart, nodeVars, ownerVars, imageVars
<1>2. PendingExpected'
  BY <1>1, PendingFrame DEF OneInv
<1>3. SequencesGood'
  BY DEF Restart, LoseUpgrades, NoSequence, SequencesGood, Live, Running
<1>4. \A c \in Calls : call'[c].at = "idle"
  BY DEF Restart, Idle
<1>5. CallsKnow'
  BY <1>4 DEF CallsKnow, Knows
<1> QED BY <1>2, <1>3, <1>5 DEF OneInv

LEMMA InitOne == Init => OneInv
<1> SUFFICES ASSUME Init PROVE OneInv
  OBVIOUS
<1>1. PendingExpected
  BY DEF Init, NodeInit, PendingExpected, Expected
<1>2. SequencesGood
  BY DEF Init, TrackerInit, NoSequence, SequencesGood, Live, Running
<1>3. CallsKnow
  BY IdleKnows DEF Init, CallsKnow
<1> QED BY <1>1, <1>2, <1>3 DEF OneInv

LEMMA StepOne ==
  ASSUME Sequential, Inv, OneInv, [Next]_vars
  PROVE  OneInv'
<1>1. CASE \E c \in Calls : CallHook(c) \/ CallStep(c) \/ BreakRPC(c)
  BY <1>1, CallStepOne
<1>2. CASE \E i \in Seqs : SequenceProgress(i) \/ Outdate(i) \/ WatchDeletion(i) \/ SequenceFault(i)
  BY <1>2, SequenceOne, WatchDeletionOne
<1> QED BY <1>1, <1>2, StartUpdateOne, AsideOne, NodeOne, RestartOne DEF Next, Lossless

----------------------------------------------------------------------------
(* The theorems. *)

LEMMA SpecOne ==
  ASSUME Sequential
  PROVE  Spec => [](Inv /\ OneInv)
<1>1. Init => Inv /\ OneInv
  BY InitInv, InitOne
<1>2. Inv /\ OneInv /\ [Next]_vars => Inv' /\ OneInv'
  BY StepInv, StepOne
<1> QED BY <1>1, <1>2, PTL DEF Spec

\* Completion is reported by nothing but the end of a call the owner waits for.
LEMMA DoneIsFinish ==
  ASSUME [Next]_vars, updating, ~updating'
  PROVE  \E c \in Calls : Finish(c)
<1>1. \E c \in Calls : CallStep(c)
  BY DEF Next, Lossless, vars, ownerVars, StartUpdate, Render, Delete, CallHook, BreakRPC, SequenceProgress,
         Outdate, WatchDeletion, SequenceFault, NodeProgress, NodeFault, Tick, EvictRecord,
         Restart, Abandon
<1> QED BY <1>1 DEF CallStep, ownerVars, ReadVersion, LookupRecord, ObserveBefore, ObserveStatus,
                    ApplyConfig, RecordApply, LegacyUpgrade, LookAtUpgrade, ContinueUpgrade,
                    Settle, SettleStatus, FailRPC

\* Unless calls overlap, a machine is reported done only when its node runs the desired version:
\* not on a version read before a reboot that was still to come, nor while anything is pending that
\* would bring up another (needsUpgrade, continueUpgrade).
THEOREM DoneIsUpgraded ==
  ASSUME Sequential
  PROVE  Spec => DoneMeansUpgraded
<1>1. Inv /\ OneInv /\ [Next]_vars =>
        [(updating /\ ~updating') => \/ ImageOf[desired] \in Floating
                                     \/ TagOf[running] = TagOf[ImageOf[desired]]]_vars
  BY DoneIsFinish, FinishFacts DEF Finish, Upgradable, NeedsUpgrade
<1> QED BY <1>1, SpecOne, PTL DEF Spec, DoneMeansUpgraded

\* A step that takes the node down and a sequence past its reboot is the reboot of that sequence.
LEMMA RebootIsGood ==
  ASSUME Inv, OneInv, [Next]_vars, NEW i \in Seqs,
         seq[i].phase = "reboot", seq'[i].phase # "reboot", up, ~up'
  PROVE  TagOf[running] # TagOf[seq[i].image]
<1>1. seq' # seq /\ up' # up
  OBVIOUS
<1>2. PICK j \in Seqs : SequenceProgress(j) \/ SequenceFault(j)
  <2>1. CASE \E c \in Calls : CallHook(c) \/ CallStep(c) \/ BreakRPC(c)
    <3>1. ASSUME NEW c \in Calls, CallHook(c) \/ ReadVersion(c) \/ LookupRecord(c) \/ ObserveBefore(c)
                 \/ ObserveStatus(c) \/ RecordApply(c) \/ LookAtUpgrade(c) \/ Settle(c)
                 \/ SettleStatus(c) \/ FailRPC(c)
          PROVE  seq' = seq
      BY <3>1 DEF CallHook, ReadVersion, LookupRecord, ObserveBefore, ObserveStatus, RecordApply,
         LookAtUpgrade, Settle, SettleStatus, FailRPC, trackerVars
    <3>2. ASSUME NEW c \in Calls, ApplyConfig(c) \/ LegacyUpgrade(c) \/ BreakRPC(c)
          PROVE  seq' = seq
      BY <3>2 DEF ApplyConfig, LegacyUpgrade, BreakRPC, trackerVars
    <3>3. ASSUME NEW c \in Calls, ContinueUpgrade(c) \/ Finish(c)
          PROVE  up' = up
      BY <3>3 DEF ContinueUpgrade, Finish, nodeVars
    <3> QED BY <1>1, <2>1, <3>1, <3>2, <3>3 DEF CallStep
  <2>2. CASE \/ StartUpdate \/ Render \/ Delete \/ Tick \/ EvictRecord \/ Restart \/ Abandon
             \/ UNCHANGED vars
    BY <1>1, <2>2 DEF StartUpdate, Render, Delete, Tick, EvictRecord, Restart, Abandon, vars,
                      nodeVars, trackerVars
  <2>3. CASE NodeProgress \/ NodeFault
    BY <1>1, <2>3 DEF NodeProgress, NodeFault, trackerVars
  <2>4. CASE \E j \in Seqs : Outdate(j) \/ WatchDeletion(j)
    BY <1>1, <2>4 DEF Outdate, Expire, WatchDeletion, nodeVars
  <2> QED BY <2>1, <2>2, <2>3, <2>4 DEF Next, Lossless
<1>3. Live(j) /\ \E outcome \in Finished : EndSequence(j, outcome)
  BY <1>1, <1>2 DEF SequenceProgress, SequenceFault, SequenceStep, Connect, Pull, Install, Advance,
     InstallImage, RequestReboot, StopSequence, BreakSequence, Expire, Live, Running, Finished, nodeVars
<1>4. seq \in [Seqs -> Sequences]
  BY DEF Inv, TrackerInv, TrackerTypeOK
<1>5. i = j
  BY <1>3, <1>4 DEF EndSequence
<1>6. LiveGood(i)
  BY <1>3, <1>5 DEF OneInv, SequencesGood
<1> QED BY <1>6 DEF LiveGood, Upgradable, NeedsUpgrade

\* Unless calls overlap, no sequence reboots a node that came back on the version it is for.
THEOREM RebootsAreNeeded ==
  ASSUME Sequential
  PROVE  Spec => NoNeedlessReboot
<1>1. Inv /\ OneInv /\ [Next]_vars =>
        [\A i \in Seqs : (seq[i].phase = "reboot" /\ seq'[i].phase # "reboot" /\ up /\ ~up') =>
           TagOf[running] # TagOf[seq[i].image]]_vars
  BY RebootIsGood
<1> QED BY <1>1, SpecOne, PTL DEF Spec, NoNeedlessReboot

----------------------------------------------------------------------------
(* The hook implements the contract, if it completes only what serves:     *)
(* every other step is one of the contract's, or leaves what the owner and *)
(* the node agreed on alone, while serving may come and go.                *)

CompletesServing == \A c \in Calls : Finish(c) => ~ControlPlane \/ Absorbed(desired)

contractVars == <<desired, updating, deleting, config, running>>

LEMMA ServeImplements ==
  ASSUME UNCHANGED contractVars
  PROVE  Contract!Next
<1>1. Contract!Serve
  BY DEF Contract!Serve, contractVars, Absorbed
<1> QED BY <1>1 DEF Contract!Next

LEMMA StartUpdateAsks ==
  ASSUME Inv, StartUpdate
  PROVE  Contract!Next
<1>1. Contract!Ask
  BY DEF StartUpdate, nodeVars, Contract!Ask, Inv, OwnerDataOK, Absorbed
<1> QED BY <1>1 DEF Contract!Next

LEMMA FinishCompletes ==
  ASSUME CompletesServing, Inv, OneInv, NEW c \in Calls, Finish(c)
  PROVE  Contract!Next
<1>1. updating /\ config = desired /\ ~Upgradable(TagOf[running])
  BY FinishFacts DEF Finish
<1>2. UNCHANGED <<desired, deleting, config, running>> /\ UNCHANGED <<up, container, ready>>
  BY DEF Finish, nodeVars, apiVars
<1>3. CASE updating'
  <2>1. UNCHANGED contractVars
    BY <1>1, <1>2, <1>3 DEF contractVars, Finish, Inv, OwnerFlagsOK
  <2> QED BY <2>1, ServeImplements
<1>4. CASE ~updating'
  <2>1. updating' = FALSE
    BY <1>4 DEF Finish, Inv, OwnerFlagsOK
  <2>2. ~ControlPlane \/ Absorbed(desired)
    BY DEF CompletesServing
  <2>3. UNCHANGED Absorbed(desired)
    BY <1>2 DEF Absorbed
  <2>4. Contract!Complete
    BY <1>1, <1>2, <2>1, <2>2, <2>3 DEF Contract!Complete, Upgradable, NeedsUpgrade
  <2> QED BY <2>4 DEF Contract!Next
<1> QED BY <1>3, <1>4

\* What a call does to the node delivers the desired configuration, or nothing the contract sees.
LEMMA CallImplements ==
  ASSUME CompletesServing, Inv, OneInv,
         NEW c \in Calls, CallHook(c) \/ CallStep(c) \/ BreakRPC(c)
  PROVE  Contract!Next
<1>1. CASE Finish(c)
  BY <1>1, FinishCompletes
<1>2. CASE UNCHANGED <<config, running, ownerVars>>
  BY <1>2, ServeImplements DEF contractVars, ownerVars
<1>3. CASE (ApplyConfig(c) \/ BreakRPC(c)) /\ config' # config
  <2>1. updating /\ call[c].cfg = desired
    BY <1>3, CallKnowledge DEF ApplyConfig, BreakRPC, NodeRPCs
  <2>2. config' = desired /\ UNCHANGED <<running, ownerVars>>
    BY <1>3, <2>1 DEF ApplyConfig, BreakRPC, AcceptConfig, AcceptUpgrade, nodeVars
  <2>3. Contract!Deliver
    BY <2>1, <2>2 DEF Contract!Deliver, ownerVars, Absorbed
  <2> QED BY <2>3 DEF Contract!Next
<1>4. CASE (ApplyConfig(c) \/ BreakRPC(c)) /\ config' = config
  BY <1>2, <1>4 DEF ApplyConfig, BreakRPC, AcceptConfig, AcceptUpgrade, nodeVars
<1> QED BY <1>1, <1>2, <1>3, <1>4
        DEF CallHook, CallStep, ReadVersion, LookupRecord, ObserveBefore, ObserveStatus,
            RecordApply, LegacyUpgrade, AcceptUpgrade, LookAtUpgrade, ContinueUpgrade, Settle,
            SettleStatus, FailRPC, nodeVars

\* A node that boots comes up on the image that ran before, or on the desired one.
LEMMA NodeImplements ==
  ASSUME OneInv, NodeProgress \/ NodeFault
  PROVE  Contract!Next
<1>1. UNCHANGED <<desired, updating, deleting, config>>
  BY DEF NodeProgress, NodeFault, ownerVars, NodeStep, FallBack, SelfUpgrade, Boot, RenderPod,
         StopContainer, StartContainer, BecomeReady
<1>2. CASE running' = running
  BY <1>1, <1>2, ServeImplements DEF contractVars
<1>3. CASE running' # running
  <2>1. running' = installed
    BY <1>3 DEF NodeProgress, NodeFault, NodeStep, FallBack, SelfUpgrade, Boot, RenderPod,
                StopContainer, StartContainer, BecomeReady
  <2>2. updating /\ installed = ImageOf[desired]
    BY <1>3, <2>1 DEF OneInv, PendingExpected, Expected
  <2>3. Contract!Upgrade
    BY <1>1, <2>1, <2>2 DEF Contract!Upgrade, Absorbed
  <2> QED BY <2>3 DEF Contract!Next
<1> QED BY <1>2, <1>3

LEMMA OthersImplement ==
  ASSUME \/ Render \/ Tick \/ EvictRecord \/ Restart \/ Abandon \/ UNCHANGED vars
         \/ \E i \in Seqs : SequenceProgress(i) \/ Outdate(i) \/ WatchDeletion(i) \/ SequenceFault(i)
  PROVE  Contract!Next
<1>1. CASE Render \/ Tick \/ EvictRecord \/ Restart \/ Abandon \/ UNCHANGED vars
  <2>1. UNCHANGED contractVars
    BY <1>1 DEF Render, Tick, NodeTick, EvictRecord, Restart, Abandon, vars, nodeVars, ownerVars,
                contractVars
  <2> QED BY <2>1, ServeImplements
<1>2. ASSUME NEW i \in Seqs,
             SequenceProgress(i) \/ Outdate(i) \/ WatchDeletion(i) \/ SequenceFault(i)
      PROVE  Contract!Next
  <2>1. UNCHANGED contractVars
    BY <1>2 DEF SequenceProgress, Outdate, WatchDeletion, SequenceFault, SequenceStep, Connect, Pull,
       Install, Advance, InstallImage, RequestReboot, Reboot, StopSequence, BreakSequence, Expire,
       nodeVars, ownerVars, contractVars
  <2> QED BY <2>1, ServeImplements
<1> QED BY <1>1, <1>2

LEMMA InitImplements == Init => Contract!Init
BY DEF Init, NodeInit, Contract!Init, Absorbed

LEMMA StepImplements ==
  ASSUME CompletesServing, Inv, OneInv, [Next]_vars
  PROVE  Contract!Next
<1>1. CASE StartUpdate
  BY <1>1, StartUpdateAsks
<1>2. CASE Delete
  <2>1. Contract!Remove
    BY <1>2 DEF Delete, Contract!Remove, nodeVars, apiVars, Absorbed
  <2> QED BY <2>1 DEF Contract!Next
<1>3. CASE \E c \in Calls : CallHook(c) \/ CallStep(c) \/ BreakRPC(c)
  BY <1>3, CallImplements
<1> QED BY <1>1, <1>2, <1>3, NodeImplements, OthersImplement DEF Next, Lossless

\* On a worker, and unless calls overlap, the hook with its node, its restarts and its failures
\* does nothing the contract does not allow: it delivers and upgrades only towards what the owner
\* asked for, only while asked, and completes only with all of it there (DoUpdateMachine).
THEOREM WorkerImplementsContract ==
  ASSUME Sequential, ~ControlPlane
  PROVE  Spec => ImplementsContract
<1>1. Init => Contract!Init
  BY InitImplements
<1>2. Inv /\ OneInv /\ [Next]_vars => [Contract!Next]_(Contract!cvars)
  BY StepImplements DEF CompletesServing
<1> QED BY <1>1, <1>2, SpecOne, PTL DEF Spec, ImplementsContract, Contract!Spec
=============================================================================
