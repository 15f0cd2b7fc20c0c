---------------------------- MODULE UpdateMachine ----------------------------
(***************************************************************************)
(* The UpdateMachine runtime hook of internal/inplace: DoUpdateMachine and *)
(* continueUpgrade (updatemachine.go), and the applyTracker (apiserver.go),*)
(* for one machine, together with what surrounds them: Cluster API calling *)
(* the hook until it reports completion, CABPT re-rendering the bootstrap  *)
(* data, the deletion of the Machine, the restart of the controller, and   *)
(* the node (TalosNode) with the upgrades run in the background            *)
(* (UpgradeTracker).                                                       *)
(*                                                                         *)
(* A hook call is a process: it takes a step at every RPC to the node and  *)
(* at every use of a tracker.  Calls overlap when Cluster API gives up on  *)
(* one that is still running and calls again; the request's context is     *)
(* then done, so the RPCs of the abandoned call fail, but what it does     *)
(* with its trackers is not bound to that context.                         *)
(***************************************************************************)
EXTENDS UpgradeTracker

CONSTANTS
  Calls,          \* hook calls that may be running at once
  Floating,       \* installer images whose tag names no Talos version
  LifecycleTags,  \* Talos versions that serve the lifecycle service
  SettleWindow,   \* apiServerSettleWindow
  RecordTTL,      \* applyRecordTTL, or any time after which an age makes no difference
  CallTimeout,    \* how long Cluster API waits for a hook call
  MaxUpdates,     \* bound on the updates the owner starts
  MaxRestarts,    \* bound on the restarts of the controller
  MaxFaults       \* bound on failures, lost answers, abandoned calls and evictions together

ASSUME HookAssumption ==
  /\ None \notin Calls
  /\ Floating \subseteq Images
  /\ LifecycleTags \subseteq Tags
  /\ SettleWindow \in Nat
  /\ RecordTTL \in Nat
  /\ SettleWindow <= RecordTTL
  /\ CallTimeout \in Nat
  /\ MaxUpdates \in Nat
  /\ MaxRestarts \in Nat
  /\ MaxFaults \in Nat

VARIABLES
  desired,   \* the configuration the owner wants on the machine
  updating,  \* is the update-in-progress annotation on the Machine
  deleting,  \* does the Machine have a deletion timestamp
  secret,    \* the configuration in the bootstrap data secret
  waiting,   \* the call Cluster API waits for, or None
  call,      \* the hook calls: where each is, and its local variables
  applies,   \* applyTracker: the record of the machine, or None
  updates, restarts, faults  \* what the bounds count

ownerVars == <<desired, updating, deleting, secret, updates>>
faultVars == <<restarts, faults>>
hookVars  == <<waiting, call, applies>>
vars      == <<nodeVars, trackerVars, ownerVars, hookVars, faultVars>>

\* An applyRecord; age is the time since appliedAt, counted up to applyRecordTTL.
Records == [cfg : Configs, before : APIServerStates, age : 0 .. RecordTTL]

ASSUME RecordAssumption == None \notin Records

NoAPIServer == [rendered |-> 0, started |-> 0, ready |-> FALSE]

\* pod: the version of the static pod, read by a call of NodeClient.APIServer that has yet to read
\* its status.  spent: how long Cluster API has been waiting for the answer.
CallStates == [at     : {"idle", "version", "lookup", "observe", "observeStatus", "apply", "record",
                         "legacy", "look", "act", "settle", "settleStatus", "finish"},
               cfg    : Configs \cup {None},
               tag    : Tags \cup {None},
               pod    : Nat,
               before : APIServerStates,
               rec    : Records \cup {None},
               seen   : Snapshots,
               spent  : 0 .. CallTimeout]

Idle == [at |-> "idle", cfg |-> None, tag |-> None, pod |-> 0, before |-> NoAPIServer,
         rec |-> None, seen |-> "untracked", spent |-> 0]

\* Every variable has its type.
TypeOK ==
  /\ NodeTypeOK
  /\ TrackerTypeOK
  /\ desired \in Configs
  /\ updating \in BOOLEAN
  /\ deleting \in BOOLEAN
  /\ secret \in Configs
  /\ waiting \in Calls \cup {None}
  /\ call \in [Calls -> CallStates]
  /\ applies \in Records \cup {None}
  /\ updates \in 0 .. MaxUpdates
  /\ restarts \in 0 .. MaxRestarts
  /\ faults \in 0 .. MaxFaults

Init ==
  /\ \E c \in Configs : PodOf[c] \notin Broken /\ NodeInit(c) /\ desired = c /\ secret = c
  /\ TrackerInit
  /\ updating = FALSE
  /\ deleting = FALSE
  /\ waiting = None
  /\ call = [c \in Calls |-> Idle]
  /\ applies = None
  /\ updates = 0
  /\ restarts = 0
  /\ faults = 0

Fault == faults < MaxFaults /\ faults' = faults + 1 /\ UNCHANGED restarts

----------------------------------------------------------------------------
(* The owner of the Machine, CABPT's render, and the deletion. *)

\* The owner starts updates one after the other, never on a Machine being deleted.  A call
\* abandoned in the last update is assumed to be over by then: all it can still do takes no RPC.
StartUpdate ==
  /\ \A c \in Calls : call[c].at = "idle"
  /\ ~updating
  /\ ~deleting
  /\ updates < MaxUpdates
  /\ \E c \in Configs \ {desired} : desired' = c
  /\ updating' = TRUE
  /\ updates' = updates + 1
  /\ UNCHANGED <<deleting, secret, nodeVars, trackerVars, hookVars, faultVars>>

\* CABPT regenerates the bootstrap data for the desired spec.
Render ==
  /\ secret # desired
  /\ secret' = desired
  /\ UNCHANGED <<desired, updating, deleting, updates, nodeVars, trackerVars, hookVars, faultVars>>

Delete ==
  /\ ~deleting
  /\ deleting' = TRUE
  /\ UNCHANGED <<desired, updating, secret, updates, nodeVars, trackerVars, hookVars, faultVars>>

----------------------------------------------------------------------------
(* Steps of a hook call. *)

Goto(c, at) == call' = [call EXCEPT ![c].at = at]

\* The call returns without reporting completion; its answer may have nobody waiting for it.
Return(c) ==
  /\ call' = [call EXCEPT ![c] = Idle]
  /\ waiting' = IF waiting = c THEN None ELSE waiting

\* The context of the request lives as long as Cluster API waits for the answer.
Attended(c) == waiting = c

\* Variant: any image with a version is an upgrade.
NeedsUpgradeAlways(img, tag) == img \notin Floating

\* needsUpgrade: the desired image carries a version tag, and not the one the node runs.
NeedsUpgrade(img, tag) == img \notin Floating /\ TagOf[img] # tag

\* Variant: the secret is taken as it is.
FreshUnchecked == TRUE

\* The hash on the secret is the one of the desired inputs of the request.
Fresh == secret = desired

\* Where a call goes once the configuration is applied, and recorded if it has to be.
AfterApply(c) ==
  IF NeedsUpgrade(ImageOf[call[c].cfg], call[c].tag)
    THEN IF call[c].tag \in LifecycleTags THEN "look" ELSE "legacy"
    ELSE IF ControlPlane THEN "settle" ELSE "finish"

\* Cluster API calls the hook; a call that finds a stale secret returns and changes nothing.
CallHook(c) ==
  /\ updating
  /\ ~deleting
  /\ waiting = None
  /\ call[c].at = "idle"
  /\ Fresh
  /\ waiting' = c
  /\ call' = [call EXCEPT ![c].at = "version", ![c].cfg = secret]
  /\ UNCHANGED <<applies, nodeVars, trackerVars, ownerVars, faultVars>>

ReadVersion(c) ==
  /\ call[c].at = "version"
  /\ Attended(c)
  /\ up
  /\ call' = [call EXCEPT ![c].tag = TagOf[running],
                          ![c].at = IF ControlPlane THEN "lookup" ELSE "apply"]
  /\ UNCHANGED <<waiting, applies, nodeVars, trackerVars, ownerVars, faultVars>>

\* applies.get: the record counts only if it is for this configuration.
LookupRecord(c) ==
  /\ call[c].at = "lookup"
  /\ IF applies # None /\ applies.cfg = call[c].cfg
       THEN call' = [call EXCEPT ![c].rec = applies, ![c].at = "apply"]
       ELSE Goto(c, "observe")
  /\ UNCHANGED <<waiting, applies, nodeVars, trackerVars, ownerVars, faultVars>>

\* NodeClient.APIServer reads the static pod, and the status of its pod in another call; with no
\* static pod there is nothing else to read.
ObserveBefore(c) ==
  /\ call[c].at = "observe"
  /\ Attended(c)
  /\ up
  /\ call' = [call EXCEPT ![c].pod = rendered,
                          ![c].at = IF rendered = 0 THEN "apply" ELSE "observeStatus"]
  /\ UNCHANGED <<waiting, applies, nodeVars, trackerVars, ownerVars, faultVars>>

ObserveStatus(c) ==
  /\ call[c].at = "observeStatus"
  /\ Attended(c)
  /\ up
  /\ call' = [call EXCEPT ![c].before = APIServer(call[c].pod), ![c].pod = 0, ![c].at = "apply"]
  /\ UNCHANGED <<waiting, applies, nodeVars, trackerVars, ownerVars, faultVars>>

ApplyConfig(c) ==
  /\ call[c].at = "apply"
  /\ Attended(c)
  /\ AcceptConfig(call[c].cfg)
  /\ Goto(c, IF ControlPlane /\ call[c].rec = None THEN "record" ELSE AfterApply(c))
  /\ UNCHANGED <<waiting, applies, trackerVars, ownerVars, faultVars>>

\* Variant: the record does not say what it is of.
RecordApplyUnnamed(c) ==
  LET record == [cfg |-> None, before |-> call[c].before, age |-> 0] IN
  /\ call[c].at = "record"
  /\ applies' = record
  /\ call' = [call EXCEPT ![c].rec = record, ![c].at = AfterApply(c)]
  /\ UNCHANGED <<waiting, nodeVars, trackerVars, ownerVars, faultVars>>

\* applies.record: the apply is remembered as of now, with what was observed before it.
RecordApply(c) ==
  LET record == [cfg |-> call[c].cfg, before |-> call[c].before, age |-> 0] IN
  /\ call[c].at = "record"
  /\ applies' = record
  /\ call' = [call EXCEPT ![c].rec = record, ![c].at = AfterApply(c)]
  /\ UNCHANGED <<waiting, nodeVars, trackerVars, ownerVars, faultVars>>

\* A node before Talos 1.13 upgrades itself, and is asked to on every call.
LegacyUpgrade(c) ==
  /\ call[c].at = "legacy"
  /\ Attended(c)
  /\ AcceptUpgrade(ImageOf[call[c].cfg])
  /\ Return(c)
  /\ UNCHANGED <<applies, trackerVars, ownerVars, faultVars>>

LookAtUpgrade(c) ==
  /\ call[c].at = "look"
  /\ call' = [call EXCEPT ![c].seen = Snapshot, ![c].at = "act"]
  /\ UNCHANGED <<waiting, applies, nodeVars, trackerVars, ownerVars, faultVars>>

\* Variant: a finished sequence is taken for a finished update.
ContinueDoneIsUpdated(c) ==
  /\ call[c].at = "act"
  /\ CASE call[c].seen = "untracked" -> StartUpgrade(ImageOf[call[c].cfg]) /\ Return(c)
       [] call[c].seen \in {"failed", "overdue"} -> CancelUpgrade /\ Return(c)
       [] call[c].seen = "running" -> UNCHANGED trackerVars /\ Return(c)
       [] call[c].seen = "done" -> UNCHANGED <<trackerVars, waiting>> /\ Goto(c, "finish")
  /\ UNCHANGED <<applies, nodeVars, ownerVars, faultVars>>

\* Variant: a failed sequence is reported and never forgotten.
ContinueKeepsFailed(c) ==
  /\ call[c].at = "act"
  /\ CASE call[c].seen = "untracked" -> StartUpgrade(ImageOf[call[c].cfg])
       [] call[c].seen = "overdue" -> CancelUpgrade
       [] call[c].seen \in {"failed", "done", "running"} -> UNCHANGED trackerVars
  /\ Return(c)
  /\ UNCHANGED <<applies, nodeVars, ownerVars, faultVars>>

\* continueUpgrade acts on its snapshot, not on what the tracker holds by now.
ContinueUpgrade(c) ==
  /\ call[c].at = "act"
  /\ CASE call[c].seen = "untracked" -> StartUpgrade(ImageOf[call[c].cfg])
       [] call[c].seen \in {"failed", "overdue"} -> CancelUpgrade
       [] call[c].seen \in {"done", "running"} -> UNCHANGED trackerVars
  /\ Return(c)
  /\ UNCHANGED <<applies, nodeVars, ownerVars, faultVars>>

\* Variants: a re-render is enough; an unchanged static pod is enough at once; or never.
SettledOnRender(r, now) ==
  IF now.rendered # 0 /\ now.rendered # r.before.rendered
    THEN now.ready
    ELSE r.age >= SettleWindow /\ now.rendered # 0 /\ now.ready
SettledAtOnce(r, now) ==
  IF now.rendered # 0 /\ now.rendered # r.before.rendered
    THEN now.started > r.before.started /\ now.ready
    ELSE now.rendered # 0 /\ now.ready
SettledOnRestart(r, now) ==
  now.rendered # r.before.rendered /\ now.started > r.before.started /\ now.ready

\* apiServerSettled: has the node absorbed the configuration of record r.
Settled(r, now) ==
  IF now.rendered # 0 /\ now.rendered # r.before.rendered
    THEN now.started > r.before.started /\ now.ready
    ELSE r.age >= SettleWindow /\ now.rendered # 0 /\ now.ready

\* Without a static pod the configuration has not settled.
Settle(c) ==
  /\ call[c].at = "settle"
  /\ Attended(c)
  /\ up
  /\ IF rendered = 0
       THEN Return(c)
       ELSE call' = [call EXCEPT ![c].pod = rendered, ![c].at = "settleStatus"] /\ UNCHANGED waiting
  /\ UNCHANGED <<applies, nodeVars, trackerVars, ownerVars, faultVars>>

SettleStatus(c) ==
  /\ call[c].at = "settleStatus"
  /\ Attended(c)
  /\ up
  /\ IF Settled(call[c].rec, APIServer(call[c].pod))
       THEN Goto(c, "finish") /\ UNCHANGED waiting
       ELSE Return(c)
  /\ UNCHANGED <<applies, nodeVars, trackerVars, ownerVars, faultVars>>

\* Both trackers forget the machine, and the owner, if it listens, learns of the completion.
Finish(c) ==
  /\ call[c].at = "finish"
  /\ applies' = IF ControlPlane THEN None ELSE applies
  /\ CancelUpgrade
  /\ Return(c)
  /\ updating' = (updating /\ ~Attended(c))
  /\ UNCHANGED <<desired, deleting, secret, updates, nodeVars, faultVars>>

NodeRPCs ==
  {"version", "observe", "observeStatus", "apply", "legacy", "settle", "settleStatus"}

\* An RPC that the node, or the context of an abandoned request, does not let through.
FailRPC(c) ==
  /\ call[c].at \in NodeRPCs
  /\ ~up \/ ~Attended(c)
  /\ Return(c)
  /\ UNCHANGED <<applies, nodeVars, trackerVars, ownerVars, faultVars>>

CallStep(c) ==
  \/ ReadVersion(c)
  \/ LookupRecord(c)
  \/ ObserveBefore(c)
  \/ ObserveStatus(c)
  \/ ApplyConfig(c)
  \/ RecordApply(c)
  \/ LegacyUpgrade(c)
  \/ LookAtUpgrade(c)
  \/ ContinueUpgrade(c)
  \/ Settle(c)
  \/ SettleStatus(c)
  \/ Finish(c)
  \/ FailRPC(c)

----------------------------------------------------------------------------
(* The watcher that runs beside a sequence, time, and what goes wrong. *)

\* Variant: the watcher forgets the apply and leaves the upgrade alone.
WatchDeletionKeeps(i) ==
  /\ Live(i)
  /\ deleting
  /\ applies' = None
  /\ UNCHANGED <<waiting, call, nodeVars, trackerVars, ownerVars, faultVars>>

\* cancelOnDeletion: it cancels whatever the tracker holds for the machine.
WatchDeletion(i) ==
  /\ Live(i)
  /\ deleting
  /\ CancelUpgrade
  /\ applies' = None
  /\ UNCHANGED <<waiting, call, nodeVars, ownerVars, faultVars>>

\* Time passes for a record, when there is one.
Older(r) == IF r = None THEN None
            ELSE [r EXCEPT !.age = IF @ < RecordTTL THEN @ + 1 ELSE @]

\* Cluster API does not wait longer for an answer than CallTimeout.
Tick ==
  /\ NodeTick
  /\ waiting # None => call[waiting].spent < CallTimeout
  /\ applies' = Older(applies)
  /\ call' = [c \in Calls |-> [call[c] EXCEPT !.rec = Older(@),
                                              !.spent = IF waiting = c THEN @ + 1 ELSE @]]
  /\ UNCHANGED <<waiting, trackerVars, ownerVars, faultVars>>

\* The apply of another machine is recorded, which drops the records older than applyRecordTTL.
EvictRecord ==
  /\ Fault
  /\ applies # None
  /\ applies.age = RecordTTL
  /\ applies' = None
  /\ UNCHANGED <<waiting, call, nodeVars, trackerVars, ownerVars>>

\* The controller restarts: its calls, its goroutines and its trackers are lost.
Restart ==
  /\ restarts < MaxRestarts
  /\ restarts' = restarts + 1
  /\ LoseUpgrades
  /\ call' = [c \in Calls |-> Idle]
  /\ waiting' = None
  /\ applies' = None
  /\ UNCHANGED <<faults, nodeVars, ownerVars>>

\* Cluster API gives up waiting for an answer.
Abandon ==
  /\ Fault
  /\ waiting # None
  /\ waiting' = None
  /\ UNCHANGED <<call, applies, nodeVars, trackerVars, ownerVars>>

\* An RPC fails although the node is up; it may have taken effect all the same.
BreakRPC(c) ==
  /\ Fault
  /\ call[c].at \in NodeRPCs
  /\ Return(c)
  /\ \/ UNCHANGED nodeVars
     \/ call[c].at = "apply" /\ Attended(c) /\ AcceptConfig(call[c].cfg)
     \/ call[c].at = "legacy" /\ Attended(c) /\ AcceptUpgrade(ImageOf[call[c].cfg])
  /\ UNCHANGED <<applies, trackerVars, ownerVars>>

\* A node takes longer to boot than a call may last: it is not up again between the two reads of
\* its kube-apiserver.
BootIsLong == ~up /\ up' => \A c \in Calls : call[c].at \notin {"observeStatus", "settleStatus"}

NodeFault == Fault /\ FallBack /\ BootIsLong /\ UNCHANGED <<trackerVars, ownerVars, hookVars>>

\* A sequence fails, or hangs until upgradeTimeout ends it.
SequenceFault(i) ==
  /\ Fault
  /\ BreakSequence(i) \/ (seq[i].phase \in Running /\ Expire(i))
  /\ UNCHANGED <<ownerVars, hookVars>>

----------------------------------------------------------------------------

\* The steps of the node, and of a sequence, beside those of the hook.
NodeProgress == NodeStep /\ BootIsLong /\ UNCHANGED <<trackerVars, ownerVars, hookVars, faultVars>>

SequenceProgress(i) == SequenceStep(i) /\ UNCHANGED <<ownerVars, hookVars, faultVars>>

\* The entry of a finished sequence grows old, whatever else happens.
Outdate(i) == seq[i].phase = "done" /\ Expire(i) /\ UNCHANGED <<ownerVars, hookVars, faultVars>>

\* What loses no record of an apply.
Lossless ==
  \/ StartUpdate
  \/ Render
  \/ Delete
  \/ \E c \in Calls : CallHook(c) \/ CallStep(c)
  \/ \E i \in Seqs : \/ SequenceProgress(i)
                     \/ Outdate(i)
                     \/ WatchDeletion(i)
                     \/ SequenceFault(i)
  \/ NodeProgress
  \/ Tick
  \/ EvictRecord
  \/ Abandon
  \/ NodeFault

Next ==
  \/ Lossless
  \/ \E c \in Calls : BreakRPC(c)
  \/ Restart

Spec == Init /\ [][Next]_vars

\* Cluster API requeues a Machine whose hook has not reported completion, CABPT reconciles a
\* changed TalosConfig, calls and goroutines are scheduled, the watcher polls on a ticker, the
\* clock runs, and the node boots and starts its API server.  Nothing obliges the owner to start
\* an update or anyone to delete the Machine, and nothing obliges a fault.
Fairness ==
  /\ WF_vars(Render)
  /\ WF_vars(\E c \in Calls : CallHook(c))
  /\ \A c \in Calls : WF_vars(CallStep(c))
  /\ \A i \in Seqs : /\ WF_vars(SequenceProgress(i))
                     /\ WF_vars(Outdate(i))
                     /\ WF_vars(WatchDeletion(i))
  /\ WF_vars(NodeProgress)
  /\ WF_vars(Tick)

FairSpec == Spec /\ Fairness

\* No step loses the record of an apply, and with it what was seen of kube-apiserver before: the
\* controller does not restart within an update, and the answer of the call that changes the
\* configuration arrives.
KeepsRecord == updating => ~Restart /\ \A c \in Calls : BreakRPC(c) => config' = config

\* As FairSpec, with no other steps than such, and no restart at all.
KeepingNext ==
  \/ Lossless
  \/ \E c \in Calls : BreakRPC(c) /\ UNCHANGED config

KeepingSpec == Init /\ [][KeepingNext]_vars /\ Fairness

\* As FairSpec, with a node that may hang on every call and a clock that never reaches
\* upgradeTimeout: what is left is the code alone.
StopCancelled(i) == StopSequence(i) /\ UNCHANGED <<ownerVars, hookVars, faultVars>>

HangingSpec ==
  /\ Spec
  /\ \A c \in Calls : WF_vars(CallStep(c))
  /\ \A i \in Seqs : WF_vars(StopCancelled(i)) /\ WF_vars(WatchDeletion(i))

----------------------------------------------------------------------------
(* Properties. *)

\* However calls, restarts, failures and the deletion interleave, a sequence that nothing has told
\* to stop is the one the tracker holds: there is never a second one, and cancelling the entry
\* always reaches the goroutine that is about to reboot the node (upgrades.go, start and cancel).
LiveSequenceIsTracked == \A i \in Seqs : Live(i) => tracker = i

\* Completion is reported only for a node that runs the Talos version the desired image names: not
\* while an install or a reboot is under way, nor after the node fell back to the image before
\* (needsUpgrade, continueUpgrade).
DoneMeansUpgraded ==
  [][(updating /\ ~updating') =>
       \/ ImageOf[desired] \in Floating
       \/ TagOf[running] = TagOf[ImageOf[desired]]]_vars

\* On a control plane machine completion is reported only once kube-apiserver runs, and is ready,
\* on what the desired configuration makes of it: the owner moves on to the next machine then.
DoneMeansAbsorbed == [][(updating /\ ~updating' /\ ControlPlane) => Absorbed(desired)]_vars

\* The hook upgrades a node only to a version it does not run already: a sequence never reboots a
\* node that came back on the version it is for (needsUpgrade, continueUpgrade).
NoNeedlessReboot ==
  [][\A i \in Seqs : (seq[i].phase = "reboot" /\ seq'[i].phase # "reboot" /\ up /\ ~up') =>
       TagOf[running] # TagOf[seq[i].image]]_vars

\* The configuration of the node changes only to what the owner desires, never to the bytes of a
\* secret that CABPT has yet to regenerate (desiredConfig).
OnlyDesiredApplied == [][config' # config => config' = desired]_vars

\* An update of a machine that is not deleted completes, if its API server can start at all.
UpdateCompletes ==
  (updating /\ PodOf[desired] \notin Broken) ~> (~updating \/ deleting)

\* Once a machine is being deleted its upgrades end for good, even one that hangs on the node, and
\* even one started by a call that was under way when the deletion came: nothing is left to reboot
\* the node on its way out (cancelOnDeletion).
DeletionStopsUpgrades == <>[](deleting => \A i \in Seqs : seq[i].phase \notin Running)
=============================================================================
