----------------------------- MODULE MachinePool -----------------------------
(***************************************************************************)
(* The in-place update of a MachinePool: reconcileMachinePool of           *)
(* controllers/machinepool_inplace.go, with the instances of the pool, the *)
(* Machines that stand for them and the cache they are listed from.        *)
(*                                                                         *)
(* A pool has one TalosConfig, so one reconcile at a time.  A              *)
(* configuration stands for itself and its hash: the secret carries both   *)
(* together.  The bootstrap data has been rendered once; how that happens  *)
(* is the matter of BootstrapData.                                         *)
(***************************************************************************)
EXTENDS Naturals

CONSTANTS
  Members,   \* names of the Machines the pool may have, numbers: their order is that of the walk
  First,     \* the members it has from the start, at the first configuration
  Configs,   \* configurations the spec may render to
  Initial,   \* the first of them
  Edits,     \* from which configuration to which the spec may be edited
  Bad,       \* configurations that the nodes refuse
  None,
  MaxFaults  \* bound on failing or unanswered calls, removals of members, and restarts

ASSUME PoolAssumption ==
  /\ Members \subseteq Nat
  /\ First \subseteq Members
  /\ Initial \in Configs \ Bad
  /\ Edits \subseteq Configs \X Configs
  /\ Bad \subseteq Configs
  /\ None \notin Configs
  /\ MaxFaults \in Nat

\* A condition that has not been written says none of what it may say.
ASSUME NoVerdictAssumption == None \notin {"True", "False", "Unknown"}

VARIABLES
  spec,      \* the configuration the spec of the TalosConfig renders to
  secret,    \* the configuration in the bootstrap data secret of the pool
  node,      \* of each member: the configuration it runs, or None
  machine,   \* the Machine of each member
  cached,    \* the Machines as the cache has them
  removed,   \* the members that have been removed
  condition, \* MachinePoolInPlaceUpdate of the TalosConfig
  enabled,   \* the flag of the controller
  queued,    \* is the TalosConfig in the work queue
  timer,     \* will a RequeueAfter put it there
  rec,       \* the reconcile: where it is, and what it has read
  faults

vars == <<spec, secret, node, machine, cached, removed, condition, enabled, queued, timer, rec, faults>>
pool == <<node, machine, cached, removed>>
queue == <<queued, timer>>

Machines == [listed : BOOLEAN, addressed : BOOLEAN, applied : Configs \cup {None}]
Absent == [listed |-> FALSE, addressed |-> FALSE, applied |-> None]

\* What the condition may say; it is None before it is first written.
Verdicts == {"True", "False", "Unknown"}

Reconciles ==
  [at : {"idle", "render", "list", "walk", "record", "patch"},
   spec : Configs \cup {None},
   seen : [Members -> Machines],
   todo : SUBSET Members,
   converged : SUBSET Members,
   verdict : Verdicts \cup {None},
   then : {"nothing", "retry", "later"}]

Idle == [at |-> "idle", spec |-> None, seen |-> [m \in Members |-> Absent], todo |-> {},
         converged |-> {}, verdict |-> None, then |-> "nothing"]

\* Every variable has its type.
TypeOK ==
  /\ spec \in Configs
  /\ secret \in Configs
  /\ node \in [Members -> Configs \cup {None}]
  /\ machine \in [Members -> Machines]
  /\ cached \in [Members -> Machines]
  /\ removed \subseteq Members
  /\ condition \in Verdicts \cup {None}
  /\ enabled \in BOOLEAN
  /\ queued \in BOOLEAN
  /\ timer \in BOOLEAN
  /\ rec \in Reconciles
  /\ faults \in 0 .. MaxFaults

Init ==
  /\ spec = Initial
  /\ secret = Initial
  /\ node = [m \in Members |-> IF m \in First THEN Initial ELSE None]
  /\ machine = [m \in Members |-> IF m \in First THEN [Absent EXCEPT !.listed = TRUE] ELSE Absent]
  /\ cached = machine
  /\ removed = {}
  /\ condition = None
  /\ enabled \in BOOLEAN
  /\ queued = TRUE
  /\ timer = FALSE
  /\ rec = Idle
  /\ faults = 0

----------------------------------------------------------------------------
(* The reconcile. *)

\* The reconcile comes to an end with a verdict, whose patch is deferred.
Conclude(verdict, then) ==
  rec' = [rec EXCEPT !.at = "patch", !.verdict = verdict, !.then = then]

\* Variant: with the flag off the reconcile goes on all the same, with nothing rendered.
StartAnyhow ==
  /\ rec.at = "idle"
  /\ queued
  /\ queued' = FALSE
  /\ rec' = [rec EXCEPT !.at = "render", !.spec = IF enabled THEN spec ELSE None]
  /\ UNCHANGED <<spec, secret, pool, condition, enabled, timer, faults>>

\* With the flag off, a condition that is there becomes Unknown, and nothing else is done.
Start ==
  /\ rec.at = "idle"
  /\ queued
  /\ queued' = FALSE
  /\ IF enabled
       THEN rec' = [rec EXCEPT !.at = "render", !.spec = spec]
       ELSE Conclude(IF condition = None THEN None ELSE "Unknown", "nothing")
  /\ UNCHANGED <<spec, secret, pool, condition, enabled, timer, faults>>

\* poolBootstrapData: the secret is rendered again when it is of another configuration.
Render ==
  /\ rec.at = "render"
  /\ secret' = rec.spec
  /\ rec' = [rec EXCEPT !.at = "list"]
  /\ UNCHANGED <<spec, pool, condition, enabled, queue, faults>>

\* machinePoolMachines: the Machines of the pool, from the cache.
List ==
  /\ rec.at = "list"
  /\ LET listed == {m \in Members : cached[m].listed} IN
       IF listed = {}
         THEN Conclude("Unknown", "nothing")
         ELSE rec' = [rec EXCEPT !.at = "walk", !.seen = cached, !.todo = listed]
  /\ UNCHANGED <<spec, secret, pool, condition, enabled, queue, faults>>

\* applyToPoolMachines goes on with the first member it has not been to.
IsFirst(m) == m \in rec.todo /\ \A n \in rec.todo : m <= n
IsNext(m) == rec.at = "walk" /\ IsFirst(m)

\* The configuration of the secret, which this reconcile alone writes.
Applied == rec.spec

\* Variant: a member that has taken a configuration is not given another.
NeedsFirstApply(m) == rec.seen[m].addressed /\ rec.seen[m].applied = None

NeedsApply(m) == rec.seen[m].addressed /\ rec.seen[m].applied # Applied

\* A member that is recorded on the configuration has converged; one without an address has not.
Pass(m) ==
  /\ IsNext(m)
  /\ ~ NeedsApply(m)
  /\ rec' = [rec EXCEPT !.todo = @ \ {m},
                        !.converged = IF rec.seen[m].applied = Applied THEN @ \cup {m} ELSE @]
  /\ UNCHANGED <<spec, secret, pool, condition, enabled, queue, faults>>

\* Variant: the configuration is recorded before the node has accepted it.
ApplyRecordsFirst(m) ==
  /\ IsNext(m)
  /\ NeedsApply(m)
  /\ machine' = [machine EXCEPT ![m].applied = IF machine[m].listed THEN Applied ELSE @]
  /\ node' = [node EXCEPT ![m] = IF node[m] = None \/ Applied \in Bad THEN @ ELSE Applied]
  /\ rec' = [rec EXCEPT !.at = "record"]
  /\ UNCHANGED <<spec, secret, cached, removed, condition, enabled, queue, faults>>

Apply(m) ==
  /\ IsNext(m)
  /\ NeedsApply(m)
  /\ node[m] # None
  /\ Applied \notin Bad
  /\ node' = [node EXCEPT ![m] = Applied]
  /\ rec' = [rec EXCEPT !.at = "record"]
  /\ UNCHANGED <<spec, secret, machine, cached, removed, condition, enabled, queue, faults>>

PutRecord(m) ==
  /\ machine[m].listed
  /\ machine' = [machine EXCEPT ![m].applied = Applied]

\* The hash is recorded once the node has accepted the configuration.
Record ==
  /\ rec.at = "record"
  /\ \E m \in rec.todo :
       /\ IsFirst(m)
       /\ PutRecord(m)
       /\ rec' = [rec EXCEPT !.at = "walk", !.todo = @ \ {m}, !.converged = @ \cup {m}]
  /\ UNCHANGED <<spec, secret, node, cached, removed, condition, enabled, queue, faults>>

\* Variant: the walk goes on after a member that fails.
GoOnAfterFailure ==
  \E m \in rec.todo : IsFirst(m) /\ rec' = [rec EXCEPT !.at = "walk", !.todo = @ \ {m}]

\* The walk stops at the first member that fails, and the error brings it back.
StopAtFailure == Conclude("False", "retry")

\* A member that is gone, or that refuses the configuration.
FailMember ==
  /\ \/ \E m \in Members : IsNext(m) /\ NeedsApply(m) /\ (node[m] = None \/ Applied \in Bad)
     \/ /\ rec.at = "record"
        /\ \E m \in rec.todo : IsFirst(m) /\ ~ machine[m].listed
  /\ StopAtFailure
  /\ UNCHANGED <<spec, secret, pool, condition, enabled, queue, faults>>

\* Variant: the pool is up to date once the walk is over.
FinishAnyhow ==
  /\ rec.at = "walk"
  /\ rec.todo = {}
  /\ Conclude("True", "nothing")
  /\ UNCHANGED <<spec, secret, pool, condition, enabled, queue, faults>>

\* Variant: members that have to wait for an address are not waited for.
FinishForGood ==
  /\ rec.at = "walk"
  /\ rec.todo = {}
  /\ Conclude(IF \A m \in Members : rec.seen[m].listed => m \in rec.converged
                THEN "True" ELSE "False", "nothing")
  /\ UNCHANGED <<spec, secret, pool, condition, enabled, queue, faults>>

\* Members that wait for an address are looked at again after a while.
Finish ==
  /\ rec.at = "walk"
  /\ rec.todo = {}
  /\ IF \A m \in Members : rec.seen[m].listed => m \in rec.converged
       THEN Conclude("True", "nothing")
       ELSE Conclude("False", "later")
  /\ UNCHANGED <<spec, secret, pool, condition, enabled, queue, faults>>

PatchStatus ==
  /\ rec.at = "patch"
  /\ condition' = IF rec.verdict = None THEN condition ELSE rec.verdict
  /\ queued' = (queued \/ rec.then = "retry")
  /\ timer' = (timer \/ rec.then = "later")
  /\ rec' = Idle
  /\ UNCHANGED <<spec, secret, pool, enabled, faults>>

Step ==
  \/ Start
  \/ Render
  \/ List
  \/ \E m \in Members : Pass(m) \/ Apply(m)
  \/ Record
  \/ FailMember
  \/ Finish
  \/ PatchStatus

----------------------------------------------------------------------------
(* What fails. *)

Fault == faults < MaxFaults /\ faults' = faults + 1

\* Rendering, which may have written the secret, or listing fails: nothing is known of the members.
FailRead ==
  /\ Fault
  /\ rec.at \in {"render", "list"}
  /\ secret' \in {secret, rec.spec}
  /\ Conclude("Unknown", "retry")
  /\ UNCHANGED <<spec, pool, condition, enabled, queue>>

\* A call to a member fails, which it may have taken all the same.
FailApply ==
  /\ Fault
  /\ \E m \in Members :
       /\ IsNext(m)
       /\ NeedsApply(m)
       /\ node' \in {node, [node EXCEPT ![m] = IF @ = None \/ Applied \in Bad THEN @ ELSE Applied]}
       /\ StopAtFailure
  /\ UNCHANGED <<spec, secret, machine, cached, removed, condition, enabled, queue>>

FailRecord ==
  /\ Fault
  /\ rec.at = "record"
  /\ \/ UNCHANGED machine
     \/ \E m \in rec.todo : IsFirst(m) /\ PutRecord(m)
  /\ StopAtFailure
  /\ UNCHANGED <<spec, secret, node, cached, removed, condition, enabled, queue>>

FailPatch ==
  /\ Fault
  /\ rec.at = "patch"
  /\ rec' = Idle
  /\ queued' = TRUE
  /\ UNCHANGED <<spec, secret, pool, condition, enabled, timer>>

\* The controller restarts, perhaps with another flag, and reconciles everything.
Restart ==
  /\ Fault
  /\ rec' = Idle
  /\ queued' = TRUE
  /\ timer' = FALSE
  /\ enabled' \in BOOLEAN
  /\ UNCHANGED <<spec, secret, pool, condition>>

----------------------------------------------------------------------------
(* What happens around the reconcile. *)

\* The spec is edited; the reconcile sees it when its cache does.
EditSpec ==
  /\ \E c \in Configs : <<spec, c>> \in Edits /\ spec' = c
  /\ queued' = TRUE
  /\ UNCHANGED <<secret, pool, condition, enabled, timer, rec, faults>>

\* The infrastructure creates an instance from the secret as it is.
CreateInstance(m) ==
  /\ node[m] = None /\ m \notin removed
  /\ node' = [node EXCEPT ![m] = secret]
  /\ UNCHANGED <<spec, secret, machine, cached, removed, condition, enabled, queue, rec, faults>>

Register(m) ==
  /\ node[m] # None /\ ~ machine[m].listed
  /\ machine' = [machine EXCEPT ![m].listed = TRUE]
  /\ UNCHANGED <<spec, secret, node, cached, removed, condition, enabled, queue, rec, faults>>

ReportAddress(m) ==
  /\ machine[m].listed /\ ~ machine[m].addressed
  /\ machine' = [machine EXCEPT ![m].addressed = TRUE]
  /\ UNCHANGED <<spec, secret, node, cached, removed, condition, enabled, queue, rec, faults>>

\* A member that goes does not come back: the next one has another name.
Remove(m) ==
  /\ Fault
  /\ node[m] # None
  /\ node' = [node EXCEPT ![m] = None]
  /\ machine' = [machine EXCEPT ![m] = Absent]
  /\ removed' = removed \cup {m}
  /\ UNCHANGED <<spec, secret, cached, condition, enabled, queue, rec>>

SyncCache(m) ==
  /\ cached[m] # machine[m]
  /\ cached' = [cached EXCEPT ![m] = machine[m]]
  /\ UNCHANGED <<spec, secret, node, machine, removed, condition, enabled, queue, rec, faults>>

RequeueAfter ==
  /\ timer
  /\ timer' = FALSE
  /\ queued' = TRUE
  /\ UNCHANGED <<spec, secret, pool, condition, enabled, rec, faults>>

Quiet == ~ queued /\ ~ timer /\ rec.at = "idle"

\* The cache is resynced every ten hours, which enqueues every TalosConfig.
Resync ==
  /\ Quiet
  /\ queued' = TRUE
  /\ UNCHANGED <<spec, secret, pool, condition, enabled, timer, rec, faults>>

MemberStep(m) == CreateInstance(m) \/ Register(m) \/ ReportAddress(m) \/ SyncCache(m)

Next ==
  \/ Step
  \/ FailRead \/ FailApply \/ FailRecord \/ FailPatch \/ Restart
  \/ EditSpec
  \/ \E m \in Members : MemberStep(m) \/ Remove(m)
  \/ RequeueAfter
  \/ Resync

Spec == Init /\ [][Next]_vars

\* A worker serves the queue, timers run out, caches follow, and members boot.
FairSpec ==
  /\ Spec
  /\ WF_vars(Step) /\ WF_vars(RequeueAfter) /\ WF_vars(Resync)
  /\ \A m \in Members : WF_vars(MemberStep(m))

----------------------------------------------------------------------------
(* Properties. *)

\* A member whose Machine carries the hash of the secret runs the secret's configuration, through
\* lost answers, crashes between the two writes and edits meanwhile (applyToPoolMachine).
RecordedIsRunning ==
  \A m \in Members : machine[m].applied = secret => node[m] = secret

\* UpToDate is reported only when every member that was listed runs what the pool has rendered, or
\* is no more (MachinePoolInPlaceUpdateUpToDateReason).
UpToDateIsTrue ==
  [][rec.at = "walk" /\ rec'.at = "patch" /\ rec'.verdict = "True" =>
       \A m \in Members : rec.seen[m].listed => node[m] = secret \/ m \in removed]_vars

\* A member is given a configuration only after all members before it, of those that can be
\* reached, have taken it (applyToPoolMachines: a bad one does not take the whole pool down).
OneAfterAnother ==
  [][\A m, n \in Members :
       /\ node[m] # None
       /\ node'[m] \notin {node[m], None}
       /\ n < m
       /\ rec.seen[n].listed /\ rec.seen[n].addressed
       => node[n] = node'[m] \/ n \in removed]_vars

\* A pool that is not up to date is looked at again, and one that is not updated any more does not
\* go on reporting what it was (poolConvergenceRequeue, markMachinePoolInPlaceDisabled).
QuietVerdict ==
  Quiet => condition # "False" /\ (~ enabled => condition # "True")

\* Every member comes to run what the spec renders to, if the nodes accept it, and the condition
\* says so (reconcileMachinePool).
PoolConverges ==
  <>[](enabled /\ spec \notin Bad /\ (\E m \in Members : machine[m].listed) =>
         /\ \A m \in Members : node[m] \in {None, spec}
         /\ condition = "True")
=============================================================================
