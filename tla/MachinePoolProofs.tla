------------------------- MODULE MachinePoolProofs -------------------------
(***************************************************************************)
(* Of pools of any size, whatever fails and however often the spec is      *)
(* edited: as long as no edit brings back a configuration the pool has     *)
(* had, what is recorded of a member, and reported of the pool, is true.   *)
(*                                                                         *)
(* The argument is one about age.  A record is only ever of an older       *)
(* configuration than the node runs, or the same, and the node of an older *)
(* one than the secret, or the same; so one that agrees with the secret    *)
(* agrees with the node.  Where an edit can bring a configuration back     *)
(* that breaks down, as the run pool_reverted shows.                       *)
(***************************************************************************)
EXTENDS MachinePool, TLAPS

Transitive(R) == \A x, y, z \in Configs : <<x, y>> \in R /\ <<y, z>> \in R => <<x, z>> \in R

\* Can y be reached from x by edits: <<x, y>> is in the smallest transitive relation that holds them.
Before(x, y) ==
  \A R \in SUBSET (Configs \X Configs) : Edits \subseteq R /\ Transitive(R) => <<x, y>> \in R

\* No edit brings back a configuration that has been there.
NoWayBack == \A x \in Configs : ~ Before(x, x)

AtMost(x, y) == x = y \/ Before(x, y)

LEMMA BeforeIsTransitive ==
  ASSUME NEW x \in Configs, NEW y \in Configs, NEW z \in Configs, Before(x, y), Before(y, z)
  PROVE  Before(x, z)
<1> SUFFICES ASSUME NEW R \in SUBSET (Configs \X Configs), Edits \subseteq R, Transitive(R)
             PROVE  <<x, z>> \in R
  BY DEF Before
<1>1. <<x, y>> \in R /\ <<y, z>> \in R
  BY DEF Before
<1> QED BY <1>1 DEF Transitive

LEMMA EditIsBefore ==
  ASSUME NEW x \in Configs, NEW y \in Configs, <<x, y>> \in Edits
  PROVE  Before(x, y)
BY DEF Before

LEMMA AtMostIsTransitive ==
  ASSUME NEW x \in Configs, NEW y \in Configs, NEW z \in Configs, AtMost(x, y), AtMost(y, z)
  PROVE  AtMost(x, z)
BY BeforeIsTransitive DEF AtMost

LEMMA AtMostIsAntisymmetric ==
  ASSUME NoWayBack, NEW x \in Configs, NEW y \in Configs, AtMost(x, y), AtMost(y, x)
  PROVE  x = y
BY BeforeIsTransitive DEF AtMost, NoWayBack

----------------------------------------------------------------------------
(* Types. *)

\* What the reconcile has rendered, and what it is to render.
PhaseOK ==
  /\ rec.at \in {"render", "list", "walk", "record"} => rec.spec \in Configs
  /\ rec.at \in {"list", "walk", "record"} => rec.spec = secret
  /\ rec.at \in {"idle", "render", "list"} => rec.converged = {}

Typed == TypeOK /\ PhaseOK

LEMMA AbsentType == Absent \in Machines
BY DEF Absent, Machines

LEMMA IdleType == Idle \in Reconciles /\ Idle.at = "idle" /\ Idle.converged = {}
BY AbsentType DEF Idle, Reconciles

\* A conclusion keeps the type of the reconcile.
LEMMA ConcludeType ==
  ASSUME TypeOK, NEW v \in Verdicts \cup {None}, NEW t \in {"nothing", "retry", "later"},
         Conclude(v, t)
  PROVE  rec' \in Reconciles /\ rec'.at = "patch" /\ rec'.verdict = v /\ rec'.then = t
BY DEF Conclude, TypeOK, Reconciles

\* Recording a configuration keeps the type of the Machines.
LEMMA MachineType ==
  ASSUME TypeOK, NEW m \in Members, NEW x \in Configs, PutRecord(m), rec.spec = x
  PROVE  machine' \in [Members -> Machines]
BY DEF PutRecord, Applied, TypeOK, Machines

LEMMA TypedStep ==
  ASSUME Typed, Step
  PROVE  Typed'
<1> USE DEF Typed
<1>1. CASE Start
  <2>1. CASE enabled
    <3>1. rec' \in Reconciles /\ rec'.at = "render" /\ rec'.spec = spec /\ rec'.converged = {}
      BY ZenonT(60), <1>1, <2>1 DEF Start, TypeOK, PhaseOK, Reconciles
    <3> QED BY <1>1, <3>1 DEF Start, TypeOK, PhaseOK, pool
  <2>2. CASE ~enabled
    <3>1. rec' \in Reconciles /\ rec'.at = "patch"
      BY <1>1, <2>2, ConcludeType DEF Start, Verdicts
    <3> QED BY <1>1, <3>1 DEF Start, TypeOK, PhaseOK, pool
  <2> QED BY <2>1, <2>2 DEF TypeOK
<1>2. CASE Render
  <2>1. rec' \in Reconciles /\ rec'.at = "list" /\ rec'.spec = rec.spec /\ rec'.converged = {}
    BY <1>2 DEF Render, TypeOK, PhaseOK, Reconciles
  <2> QED BY <1>2, <2>1 DEF Render, TypeOK, PhaseOK, pool, queue
<1>3. CASE List
  <2> DEFINE listed == {m \in Members : cached[m].listed}
  <2>1. CASE listed = {}
    <3>1. rec' \in Reconciles /\ rec'.at = "patch"
      BY <1>3, <2>1, ConcludeType DEF List, Verdicts
    <3> QED BY <1>3, <3>1 DEF List, TypeOK, PhaseOK, pool, queue
  <2>2. CASE listed # {}
    <3>1. rec' = [rec EXCEPT !.at = "walk", !.seen = cached, !.todo = listed]
      BY <1>3, <2>2 DEF List
    <3>2. rec' \in Reconciles /\ rec'.at = "walk" /\ rec'.spec = rec.spec
      BY <3>1 DEF TypeOK, Reconciles
    <3> QED BY <1>3, <3>2 DEF List, TypeOK, PhaseOK, pool, queue
  <2> QED BY <2>1, <2>2
<1>4. ASSUME NEW m \in Members, Pass(m)
      PROVE  Typed'
  <2>1. rec' \in Reconciles /\ rec'.at = "walk" /\ rec'.spec = rec.spec
    BY <1>4 DEF Pass, IsNext, TypeOK, Reconciles
  <2> QED BY <1>4, <2>1 DEF Pass, IsNext, TypeOK, PhaseOK, pool, queue
<1>5. ASSUME NEW m \in Members, Apply(m)
      PROVE  Typed'
  <2>1. rec' \in Reconciles /\ rec'.at = "record" /\ rec'.spec = rec.spec
    BY <1>5 DEF Apply, IsNext, TypeOK, Reconciles
  <2>2. node' \in [Members -> Configs \cup {None}]
    BY <1>5 DEF Apply, IsNext, Applied, TypeOK, PhaseOK
  <2> QED BY <1>5, <2>1, <2>2 DEF Apply, IsNext, TypeOK, PhaseOK, queue
<1>6. CASE Record
  <2>1. PICK m \in Members :
          /\ PutRecord(m)
          /\ rec' = [rec EXCEPT !.at = "walk", !.todo = @ \ {m}, !.converged = @ \cup {m}]
    BY <1>6 DEF Record, TypeOK, Reconciles
  <2>2. rec' \in Reconciles /\ rec'.at = "walk" /\ rec'.spec = rec.spec
    BY <2>1 DEF TypeOK, Reconciles
  <2>3. machine' \in [Members -> Machines]
    BY <1>6, <2>1, MachineType DEF Record, PhaseOK
  <2> QED BY <1>6, <2>2, <2>3 DEF Record, TypeOK, PhaseOK, queue
<1>7. CASE FailMember
  <2>1. rec' \in Reconciles /\ rec'.at = "patch"
    BY <1>7, ConcludeType DEF FailMember, StopAtFailure, Verdicts
  <2> QED BY <1>7, <2>1 DEF FailMember, TypeOK, PhaseOK, pool, queue
<1>8. CASE Finish
  <2>1. rec' \in Reconciles /\ rec'.at = "patch"
    BY <1>8, ConcludeType DEF Finish, Verdicts
  <2> QED BY <1>8, <2>1 DEF Finish, TypeOK, PhaseOK, pool, queue
<1>9. CASE PatchStatus
  <2>1. condition' \in Verdicts \cup {None}
    BY <1>9 DEF PatchStatus, TypeOK, Reconciles
  <2>2. queued' \in BOOLEAN /\ timer' \in BOOLEAN
    BY <1>9 DEF PatchStatus
  <2>3. rec' = Idle /\ UNCHANGED <<spec, secret, pool, enabled, faults>>
    BY <1>9 DEF PatchStatus
  <2> QED BY <2>1, <2>2, <2>3, IdleType DEF TypeOK, PhaseOK, pool
<1> QED BY <1>1, <1>2, <1>3, <1>4, <1>5, <1>6, <1>7, <1>8, <1>9 DEF Step

LEMMA FaultType ==
  ASSUME TypeOK, Fault
  PROVE  faults' \in 0 .. MaxFaults
BY PoolAssumption DEF TypeOK, Fault

LEMMA TypedFault ==
  ASSUME Typed, FailRead \/ FailApply \/ FailRecord \/ FailPatch \/ Restart
  PROVE  Typed'
<1> USE DEF Typed
<1>1. faults' \in 0 .. MaxFaults
  BY FaultType DEF FailRead, FailApply, FailRecord, FailPatch, Restart
<1>2. CASE FailRead
  <2>1. rec' \in Reconciles /\ rec'.at = "patch"
    BY <1>2, ConcludeType DEF FailRead, Verdicts
  <2> QED BY <1>1, <1>2, <2>1 DEF FailRead, TypeOK, PhaseOK, pool, queue
<1>3. CASE FailApply
  <2>1. rec' \in Reconciles /\ rec'.at = "patch"
    BY <1>3, ConcludeType DEF FailApply, StopAtFailure, Verdicts
  <2>2. node' \in [Members -> Configs \cup {None}]
    BY <1>3 DEF FailApply, IsNext, Applied, TypeOK, PhaseOK
  <2> QED BY <1>1, <1>3, <2>1, <2>2 DEF FailApply, TypeOK, PhaseOK, queue
<1>4. CASE FailRecord
  <2>1. rec' \in Reconciles /\ rec'.at = "patch"
    BY <1>4, ConcludeType DEF FailRecord, StopAtFailure, Verdicts
  <2>2. machine' \in [Members -> Machines]
    BY <1>4, MachineType DEF FailRecord, TypeOK, PhaseOK, Reconciles
  <2> QED BY <1>1, <1>4, <2>1, <2>2 DEF FailRecord, TypeOK, PhaseOK, queue
<1>5. CASE FailPatch
  BY <1>1, <1>5, IdleType DEF FailPatch, TypeOK, PhaseOK, pool
<1>6. CASE Restart
  BY <1>1, <1>6, IdleType DEF Restart, TypeOK, PhaseOK, pool
<1> QED BY <1>2, <1>3, <1>4, <1>5, <1>6

LEMMA TypedAround ==
  ASSUME Typed,
         EditSpec \/ RequeueAfter \/ Resync \/ (\E m \in Members : MemberStep(m) \/ Remove(m))
  PROVE  Typed'
<1> USE DEF Typed
<1>1. CASE EditSpec
  BY <1>1 DEF EditSpec, TypeOK, PhaseOK, pool
<1>2. CASE RequeueAfter
  BY <1>2 DEF RequeueAfter, TypeOK, PhaseOK, pool
<1>3. CASE Resync
  BY <1>3 DEF Resync, TypeOK, PhaseOK, pool
<1>4. ASSUME NEW m \in Members, CreateInstance(m)
      PROVE  Typed'
  BY <1>4 DEF CreateInstance, TypeOK, PhaseOK, queue
<1>5. ASSUME NEW m \in Members, Register(m) \/ ReportAddress(m)
      PROVE  Typed'
  <2>1. ASSUME NEW x \in Machines
        PROVE  /\ [x EXCEPT !.listed = TRUE] \in Machines
               /\ [x EXCEPT !.addressed = TRUE] \in Machines
    BY DEF Machines
  <2>2. machine' \in [Members -> Machines]
    <3>1. machine[m] \in Machines /\ machine \in [Members -> Machines]
      BY DEF TypeOK
    <3>2. \/ machine' = [machine EXCEPT ![m] = [machine[m] EXCEPT !.listed = TRUE]]
          \/ machine' = [machine EXCEPT ![m] = [machine[m] EXCEPT !.addressed = TRUE]]
      BY <1>5 DEF Register, ReportAddress
    <3> QED BY <2>1, <3>1, <3>2
  <2> QED BY <1>5, <2>2 DEF Register, ReportAddress, TypeOK, PhaseOK, queue
<1>6. ASSUME NEW m \in Members, SyncCache(m)
      PROVE  Typed'
  BY <1>6 DEF SyncCache, TypeOK, PhaseOK, queue
<1>7. ASSUME NEW m \in Members, Remove(m)
      PROVE  Typed'
  <2>1. faults' \in 0 .. MaxFaults
    BY <1>7, FaultType DEF Remove
  <2> QED BY <1>7, <2>1, AbsentType DEF Remove, TypeOK, PhaseOK, queue
<1> QED BY <1>1, <1>2, <1>3, <1>4, <1>5, <1>6, <1>7 DEF MemberStep

LEMMA TypedNext ==
  ASSUME Typed, [Next]_vars
  PROVE  Typed'
<1>1. CASE UNCHANGED vars
  BY <1>1 DEF vars, Typed, TypeOK, PhaseOK
<1>2. CASE Next
  BY <1>2, TypedStep, TypedFault, TypedAround DEF Next
<1> QED BY <1>1, <1>2

LEMMA TypedInit == Init => Typed
<1> SUFFICES ASSUME Init PROVE Typed
  OBVIOUS
<1>1. [Absent EXCEPT !.listed = TRUE] \in Machines
  BY DEF Absent, Machines
<1>2. machine \in [Members -> Machines] /\ cached \in [Members -> Machines]
  BY <1>1, AbsentType DEF Init
<1>3. Initial \in Configs /\ 0 \in 0 .. MaxFaults
  BY PoolAssumption
<1>4. rec \in Reconciles /\ rec.at = "idle" /\ rec.converged = {}
  BY IdleType DEF Init
<1> QED BY <1>2, <1>3, <1>4 DEF Init, Typed, TypeOK, PhaseOK

\* Every variable has its type, for pools of any size and any number of faults.
THEOREM PoolTypeCorrect == Spec => []TypeOK
<1>1. Typed => TypeOK
  BY DEF Typed
<1> QED BY <1>1, TypedInit, TypedNext, PTL DEF Spec

----------------------------------------------------------------------------
(* The verdict. *)

\* A verdict that may not stay has somebody on the way to look again.
VerdictOK ==
  /\ condition = "False" => queued \/ timer \/ rec.at # "idle"
  /\ condition = "True" /\ ~ enabled => queued \/ rec.at # "idle"
  /\ rec.at \notin {"idle", "patch"} => enabled
  /\ rec.at = "patch" /\ rec.verdict = "False" => rec.then \in {"retry", "later"}
  /\ rec.at = "patch" /\ rec.verdict = None => condition = None
  /\ rec.at = "patch" /\ ~ enabled => rec.verdict # "True"

\* None is no verdict.
LEMMA NoneIsNoVerdict == None \notin Verdicts /\ Verdicts = {"True", "False", "Unknown"}
BY NoVerdictAssumption DEF Verdicts

LEMMA VerdictStep ==
  ASSUME Typed, VerdictOK, [Next]_vars
  PROVE  VerdictOK'
<1> USE DEF VerdictOK
<1>1. TypeOK
  BY DEF Typed
<1>2. CASE Start
  <2>1. CASE enabled
    BY <1>1, <1>2, <2>1 DEF Start, TypeOK, Reconciles
  <2>2. CASE ~ enabled
    <3>1. /\ rec'.at = "patch"
          /\ rec'.verdict = IF condition = None THEN None ELSE "Unknown"
      BY <1>1, <1>2, <2>2, ConcludeType DEF Start, Verdicts
    <3>2. UNCHANGED <<condition, enabled>>
      BY <1>2 DEF Start
    <3> QED BY <2>2, <3>1, <3>2, NoneIsNoVerdict
  <2> QED BY <2>1, <2>2 DEF TypeOK
<1>3. CASE Render
  BY <1>1, <1>3 DEF Render, queue, TypeOK, Reconciles
<1>4. CASE List
  <2>1. rec'.at = "walk" \/ (rec'.at = "patch" /\ rec'.verdict = "Unknown")
    BY <1>1, <1>4, ConcludeType DEF List, TypeOK, Reconciles, Verdicts
  <2> QED BY <1>4, <2>1, NoneIsNoVerdict DEF List, queue
<1>5. ASSUME NEW m \in Members, Pass(m) \/ Apply(m)
      PROVE  VerdictOK'
  <2>1. rec'.at \in {"walk", "record"} /\ UNCHANGED <<condition, enabled, queue>>
    BY <1>1, <1>5 DEF Pass, Apply, IsNext, TypeOK, Reconciles
  <2>2. rec.at = "walk"
    BY <1>5 DEF Pass, Apply, IsNext
  <2> QED BY <2>1, <2>2 DEF queue
<1>6. CASE Record
  <2>1. rec'.at = "walk"
    BY <1>1, <1>6 DEF Record, TypeOK, Reconciles
  <2> QED BY <1>6, <2>1 DEF Record, queue
<1>7. CASE FailMember
  <2>1. rec'.at = "patch" /\ rec'.verdict = "False" /\ rec'.then = "retry"
    BY <1>1, <1>7, ConcludeType DEF FailMember, StopAtFailure, Verdicts
  <2> QED BY <1>7, <2>1, NoneIsNoVerdict DEF FailMember, IsNext, queue
<1>8. CASE Finish
  <2>1. /\ rec'.at = "patch"
        /\ rec'.verdict = "True" \/ (rec'.verdict = "False" /\ rec'.then = "later")
    BY <1>1, <1>8, ConcludeType DEF Finish, Verdicts
  <2> QED BY <1>8, <2>1, NoneIsNoVerdict DEF Finish, queue
<1>9. CASE PatchStatus
  <2>1. rec'.at = "idle" /\ rec.at = "patch" /\ enabled' = enabled
    BY <1>9, IdleType DEF PatchStatus
  <2>2. condition' = IF rec.verdict = None THEN condition ELSE rec.verdict
    BY <1>9 DEF PatchStatus
  <2>3. condition' = "False" => queued' \/ timer'
    BY <1>9, <2>1, <2>2, NoneIsNoVerdict DEF PatchStatus
  <2>4. condition' = "True" => enabled
    BY <2>1, <2>2, NoneIsNoVerdict DEF PatchStatus
  <2> QED BY <2>1, <2>3, <2>4
<1>10. CASE FailRead
  <2>1. rec'.at = "patch" /\ rec'.verdict = "Unknown"
    BY <1>1, <1>10, ConcludeType DEF FailRead, Verdicts
  <2> QED BY <1>10, <2>1, NoneIsNoVerdict DEF FailRead, queue
<1>11. CASE FailApply \/ FailRecord
  <2>1. rec'.at = "patch" /\ rec'.verdict = "False" /\ rec'.then = "retry"
    BY <1>1, <1>11, ConcludeType DEF FailApply, FailRecord, StopAtFailure, Verdicts
  <2> QED BY <1>11, <2>1, NoneIsNoVerdict DEF FailApply, FailRecord, IsNext, queue
<1>12. CASE FailPatch \/ Restart
  BY <1>12, IdleType DEF FailPatch, Restart
<1>13. CASE EditSpec \/ RequeueAfter \/ Resync
  BY <1>13 DEF EditSpec, RequeueAfter, Resync
<1>14. ASSUME NEW m \in Members, MemberStep(m) \/ Remove(m)
       PROVE  VerdictOK'
  <2>1. UNCHANGED <<condition, enabled, queue, rec>>
    BY <1>14 DEF MemberStep, CreateInstance, Register, ReportAddress, SyncCache, Remove
  <2> QED BY <2>1 DEF queue
<1>15. CASE UNCHANGED vars
  BY <1>15 DEF vars
<1> QED
  BY <1>2, <1>3, <1>4, <1>5, <1>6, <1>7, <1>8, <1>9, <1>10, <1>11, <1>12, <1>13, <1>14, <1>15
  DEF Next, Step

\* A pool that is not up to date is looked at again, and one whose flag is off does not go on
\* saying that it is (poolConvergenceRequeue, markMachinePoolInPlaceDisabled).
THEOREM VerdictsDoNotLinger == Spec => []QuietVerdict
<1>1. Init => VerdictOK
  BY NoneIsNoVerdict, IdleType DEF Init, VerdictOK
<1>2. VerdictOK => QuietVerdict
  BY DEF VerdictOK, QuietVerdict, Quiet
<1> QED BY <1>1, <1>2, TypedInit, TypedNext, VerdictStep, PTL DEF Spec

----------------------------------------------------------------------------
(* What a step may do to the secret, the nodes and the records. *)

\* The secret becomes what the reconcile is to render.
LEMMA SecretEffect ==
  ASSUME Typed, [Next]_vars
  PROVE  /\ secret' = secret \/ (rec.at = "render" /\ secret' = rec.spec)
         /\ rec'.at = "render" => \/ rec'.spec = spec /\ UNCHANGED <<secret, spec>>
                                  \/ rec' = rec /\ UNCHANGED secret
         /\ UNCHANGED spec \/ (<<spec, spec'>> \in Edits /\ UNCHANGED <<secret, rec>>)
<1> USE DEF Typed
<1>1. CASE Start
  BY <1>1, ConcludeType DEF Start, Verdicts, TypeOK, Reconciles
<1>2. CASE Render
  BY <1>2 DEF Render, TypeOK, Reconciles
<1>3. CASE List
  BY <1>3, ConcludeType DEF List, Verdicts, TypeOK, Reconciles
<1>4. ASSUME NEW m \in Members, Pass(m) \/ Apply(m)
      PROVE  UNCHANGED <<secret, spec>> /\ rec'.at # "render"
  BY <1>4 DEF Pass, Apply, IsNext, TypeOK, Reconciles
<1>5. CASE Record
  BY <1>5 DEF Record, TypeOK, Reconciles
<1>6. CASE FailMember \/ Finish \/ PatchStatus
  BY <1>6, ConcludeType, IdleType DEF FailMember, Finish, PatchStatus, StopAtFailure, Verdicts
<1>7. CASE FailRead
  BY <1>7, ConcludeType DEF FailRead, Verdicts, PhaseOK
<1>8. CASE FailApply \/ FailRecord
  BY <1>8, ConcludeType DEF FailApply, FailRecord, StopAtFailure, Verdicts
<1>9. CASE FailPatch \/ Restart
  BY <1>9, IdleType DEF FailPatch, Restart
<1>10. CASE EditSpec
  BY <1>10 DEF EditSpec
<1>11. CASE RequeueAfter \/ Resync \/ UNCHANGED vars
  BY <1>11 DEF RequeueAfter, Resync, vars
<1>12. ASSUME NEW m \in Members, MemberStep(m) \/ Remove(m)
       PROVE  UNCHANGED <<secret, spec, rec>>
  BY <1>12 DEF MemberStep, CreateInstance, Register, ReportAddress, SyncCache, Remove
<1> QED
  BY <1>1, <1>2, <1>3, <1>4, <1>5, <1>6, <1>7, <1>8, <1>9, <1>10, <1>11, <1>12 DEF Next, Step

\* A node takes the configuration of the secret, from the first of the walk or as an instance is
\* created, or goes.
NodeEffect(m) ==
  \/ node'[m] = node[m]
  \/ rec.at = "walk" /\ IsFirst(m) /\ node[m] # None /\ node'[m] = secret /\ secret' = secret
  \/ node[m] = None /\ m \notin removed /\ node'[m] = secret /\ secret' = secret
  \/ node'[m] = None /\ m \in removed' /\ machine'[m] = Absent

RemovedEffect(m) ==
  /\ m \in removed => m \in removed'
  /\ m \in removed' => m \in removed \/ node'[m] = None

LEMMA NodeEffects ==
  ASSUME Typed, [Next]_vars, NEW m \in Members
  PROVE  NodeEffect(m) /\ RemovedEffect(m)
<1> USE DEF Typed
<1>1. CASE Start \/ Render \/ List \/ Record \/ FailMember \/ Finish \/ PatchStatus
  BY <1>1
  DEF Start, Render, List, Record, FailMember, Finish, PatchStatus, pool, NodeEffect, RemovedEffect
<1>2. ASSUME NEW n \in Members, Pass(n)
      PROVE  NodeEffect(m) /\ RemovedEffect(m)
  BY <1>2 DEF Pass, pool, NodeEffect, RemovedEffect
<1>3. ASSUME NEW n \in Members, Apply(n)
      PROVE  NodeEffect(m) /\ RemovedEffect(m)
  BY <1>3 DEF Apply, IsNext, Applied, TypeOK, PhaseOK, NodeEffect, RemovedEffect
<1>4. CASE FailRead \/ FailRecord \/ FailPatch \/ Restart
  BY <1>4 DEF FailRead, FailRecord, FailPatch, Restart, pool, NodeEffect, RemovedEffect
<1>5. CASE FailApply
  BY <1>5 DEF FailApply, IsNext, Applied, TypeOK, PhaseOK, NodeEffect, RemovedEffect
<1>6. CASE EditSpec \/ RequeueAfter \/ Resync \/ UNCHANGED vars
  BY <1>6 DEF EditSpec, RequeueAfter, Resync, vars, pool, NodeEffect, RemovedEffect
<1>7. ASSUME NEW n \in Members, CreateInstance(n)
      PROVE  NodeEffect(m) /\ RemovedEffect(m)
  BY <1>7 DEF CreateInstance, TypeOK, NodeEffect, RemovedEffect
<1>8. ASSUME NEW n \in Members, Register(n) \/ ReportAddress(n) \/ SyncCache(n)
      PROVE  NodeEffect(m) /\ RemovedEffect(m)
  BY <1>8 DEF Register, ReportAddress, SyncCache, NodeEffect, RemovedEffect
<1>9. ASSUME NEW n \in Members, Remove(n)
      PROVE  NodeEffect(m) /\ RemovedEffect(m)
  BY <1>9 DEF Remove, TypeOK, NodeEffect, RemovedEffect
<1> QED
  BY <1>1, <1>2, <1>3, <1>4, <1>5, <1>6, <1>7, <1>8, <1>9 DEF Next, Step, MemberStep

\* A Machine is recorded on the configuration of the secret as the first of the walk, after an
\* apply, and while it is there; otherwise its record stays or goes.
MachineEffect(m) ==
  \/ machine'[m] = machine[m]
  \/ /\ rec.at = "record" /\ m \in rec.todo /\ IsFirst(m)
     /\ machine[m].listed /\ machine'[m] = [machine[m] EXCEPT !.applied = secret]
     /\ UNCHANGED <<node, secret, removed>>
  \/ /\ machine'[m].applied = machine[m].applied
     /\ node[m] # None \/ machine[m].listed
     /\ UNCHANGED <<node, secret, removed>>
  \/ machine'[m] = Absent /\ m \in removed' /\ node'[m] = None

LEMMA MachineEffects ==
  ASSUME Typed, [Next]_vars, NEW m \in Members
  PROVE  MachineEffect(m)
<1> USE DEF Typed
<1>1. CASE Start \/ Render \/ List \/ FailMember \/ Finish \/ PatchStatus
  BY <1>1 DEF Start, Render, List, FailMember, Finish, PatchStatus, pool, MachineEffect
<1>2. ASSUME NEW n \in Members, Pass(n) \/ Apply(n)
      PROVE  MachineEffect(m)
  BY <1>2 DEF Pass, Apply, pool, MachineEffect
<1>3. CASE Record \/ FailRecord
  <2>1. rec.at = "record" /\ UNCHANGED <<node, secret, removed>>
    BY <1>3 DEF Record, FailRecord
  <2>2. CASE UNCHANGED machine
    BY <2>2 DEF MachineEffect
  <2>3. ASSUME NEW n \in rec.todo, IsFirst(n), PutRecord(n)
        PROVE  MachineEffect(m)
    <3>1. machine' = [machine EXCEPT ![n] = [machine[n] EXCEPT !.applied = secret]]
      BY <2>1, <2>3 DEF PutRecord, Applied, PhaseOK
    <3> QED BY <2>1, <2>3, <3>1 DEF MachineEffect, PutRecord, TypeOK
  <2> QED BY <1>3, <2>2, <2>3 DEF Record, FailRecord
<1>4. CASE FailRead \/ FailApply \/ FailPatch \/ Restart
  BY <1>4 DEF FailRead, FailApply, FailPatch, Restart, pool, MachineEffect
<1>5. CASE EditSpec \/ RequeueAfter \/ Resync \/ UNCHANGED vars
  BY <1>5 DEF EditSpec, RequeueAfter, Resync, vars, pool, MachineEffect
<1>6. ASSUME NEW n \in Members, CreateInstance(n) \/ SyncCache(n)
      PROVE  MachineEffect(m)
  BY <1>6 DEF CreateInstance, SyncCache, MachineEffect
<1>7. ASSUME NEW n \in Members, Register(n) \/ ReportAddress(n)
      PROVE  MachineEffect(m)
  BY <1>7 DEF Register, ReportAddress, TypeOK, Machines, MachineEffect
<1>8. ASSUME NEW n \in Members, Remove(n)
      PROVE  MachineEffect(m)
  BY <1>8 DEF Remove, TypeOK, MachineEffect
<1> QED
  BY <1>1, <1>2, <1>3, <1>4, <1>5, <1>6, <1>7, <1>8 DEF Next, Step, MemberStep

----------------------------------------------------------------------------
(* Nothing is younger than what it comes from. *)

SecretBehind ==
  /\ AtMost(secret, spec)
  /\ rec.at = "render" => AtMost(secret, rec.spec) /\ AtMost(rec.spec, spec)

NodesBehind == \A m \in Members : node[m] # None => AtMost(node[m], secret)

\* A member that is gone, or not there yet, has no record.
NoneWithoutNode ==
  \A m \in Members :
    /\ m \in removed => node[m] = None
    /\ node[m] = None => ~ machine[m].listed /\ machine[m].applied = None

\* What a node runs is at least as young as a record of it.
TrueOf(applied, m) ==
  applied # None => m \in removed \/ (node[m] # None /\ AtMost(applied, node[m]))

RecordsTrue ==
  \A m \in Members : /\ TrueOf(machine[m].applied, m)
                     /\ TrueOf(cached[m].applied, m)
                     /\ TrueOf(rec.seen[m].applied, m)

OnSecret(m) == m \in removed \/ node[m] = secret

\* Whom the walk has passed, it has found or brought on the secret; a member without an address
\* waits.
WalkTrue ==
  /\ rec.at = "record" => \A m \in rec.todo : IsFirst(m) => OnSecret(m)
  /\ rec.at \in {"walk", "record"} =>
       /\ \A m \in rec.converged : OnSecret(m)
       /\ \A m \in Members :
            rec.seen[m].listed /\ m \notin rec.todo => m \in rec.converged \/ ~ rec.seen[m].addressed

Aged == SecretBehind /\ NodesBehind /\ NoneWithoutNode /\ RecordsTrue

LEMMA SecretStep ==
  ASSUME Typed, Typed', [Next]_vars, SecretBehind
  PROVE  SecretBehind' /\ AtMost(secret, secret')
<1>1. spec \in Configs /\ secret \in Configs /\ spec' \in Configs /\ secret' \in Configs
  BY DEF Typed, TypeOK
<1>2. rec.at = "render" => rec.spec \in Configs
  BY DEF Typed, PhaseOK
<1>3. AtMost(secret, secret')
  BY SecretEffect DEF SecretBehind, AtMost
<1>4. AtMost(secret', spec)
  BY SecretEffect DEF SecretBehind
<1>5. AtMost(spec, spec')
  BY <1>1, SecretEffect, EditIsBefore DEF AtMost
<1>6. AtMost(secret', spec')
  BY <1>1, <1>4, <1>5, AtMostIsTransitive
<1>7. ASSUME rec'.at = "render"
      PROVE  AtMost(secret', rec'.spec) /\ AtMost(rec'.spec, spec')
  <2>1. CASE rec'.spec = spec /\ UNCHANGED <<secret, spec>>
    BY <2>1 DEF SecretBehind, AtMost
  <2>2. CASE rec' = rec /\ UNCHANGED secret
    <3>1. AtMost(secret, rec.spec) /\ AtMost(rec.spec, spec)
      BY <1>7, <2>2 DEF SecretBehind
    <3>2. AtMost(rec.spec, spec')
      BY <1>1, <1>2, <1>5, <1>7, <2>2, <3>1, AtMostIsTransitive
    <3> QED BY <2>2, <3>1, <3>2
  <2> QED BY <1>7, <2>1, <2>2, SecretEffect
<1> QED BY <1>3, <1>6, <1>7 DEF SecretBehind

\* Nodes only go on to younger configurations.
NodesGoOn ==
  \A m \in Members :
    node[m] # None => m \in removed' \/ (node'[m] # None /\ AtMost(node[m], node'[m]))

LEMMA NodeStep ==
  ASSUME Typed, Typed', [Next]_vars, NodesBehind, NoneWithoutNode, AtMost(secret, secret')
  PROVE  NodesBehind' /\ NodesGoOn
<1>1. secret \in Configs /\ secret' \in Configs /\ None \notin Configs
  BY PoolAssumption DEF Typed, TypeOK
<1>2. ASSUME NEW m \in Members
      PROVE  /\ node'[m] # None => AtMost(node'[m], secret')
             /\ node[m] # None => m \in removed' \/ (node'[m] # None /\ AtMost(node[m], node'[m]))
  <2>1. node[m] # None => node[m] \in Configs /\ AtMost(node[m], secret)
    BY DEF NodesBehind, Typed, TypeOK
  <2>2. node[m] # None => AtMost(node[m], secret')
    BY <1>1, <2>1, AtMostIsTransitive
  <2>3. NodeEffect(m)
    BY NodeEffects
  <2> QED BY <1>1, <2>1, <2>2, <2>3 DEF NodeEffect, AtMost
<1> QED BY <1>2 DEF NodesBehind, NodesGoOn

LEMMA NoneStep ==
  ASSUME Typed, Typed', [Next]_vars, NoneWithoutNode
  PROVE  NoneWithoutNode'
<1>1. ASSUME NEW m \in Members
      PROVE  /\ (m \in removed' => node'[m] = None)
             /\ node'[m] = None => ~ machine'[m].listed /\ machine'[m].applied = None
  <2>1. NodeEffect(m) /\ RemovedEffect(m) /\ MachineEffect(m)
    BY NodeEffects, MachineEffects
  <2>2. /\ m \in removed => node[m] = None
        /\ node[m] = None => ~ machine[m].listed /\ machine[m].applied = None
    BY DEF NoneWithoutNode
  <2>3. secret # None
    BY PoolAssumption DEF Typed, TypeOK
  <2> QED BY <2>1, <2>2, <2>3 DEF NodeEffect, RemovedEffect, MachineEffect, Absent
<1> QED BY <1>1 DEF NoneWithoutNode

\* What a record says of a node stays true, as the node goes on.
LEMMA TruthStays ==
  ASSUME Typed, Typed', [Next]_vars, NodesGoOn, NEW m \in Members, NEW x \in Configs \cup {None},
         TrueOf(x, m)
  PROVE  x # None => m \in removed' \/ (node'[m] # None /\ AtMost(x, node'[m]))
<1> SUFFICES ASSUME x # None, m \notin removed'
             PROVE  node'[m] # None /\ AtMost(x, node'[m])
  OBVIOUS
<1>1. m \notin removed
  BY NodeEffects DEF RemovedEffect
<1>2. node[m] # None /\ AtMost(x, node[m])
  BY <1>1 DEF TrueOf
<1>3. node'[m] # None /\ AtMost(node[m], node'[m])
  BY <1>2 DEF NodesGoOn
<1>4. node[m] \in Configs /\ node'[m] \in Configs
  BY <1>2, <1>3 DEF Typed, TypeOK
<1> QED BY <1>2, <1>3, <1>4, AtMostIsTransitive

\* What the cache shows of a Machine, and what a walk has seen of it, it has been.
LEMMA CopyEffects ==
  ASSUME Typed, [Next]_vars, NEW m \in Members
  PROVE  /\ cached'[m] = cached[m] \/ (cached'[m] = machine[m] /\ UNCHANGED machine)
         /\ \/ rec'.seen = rec.seen
            \/ rec'.seen = cached
            \/ rec'.seen[m] = Absent
<1> USE DEF Typed
<1>1. CASE Start
  BY <1>1 DEF Start, Conclude, pool, TypeOK, Reconciles
<1>2. CASE Render
  BY <1>2 DEF Render, pool, TypeOK, Reconciles
<1>3. CASE List
  BY <1>3 DEF List, Conclude, pool, TypeOK, Reconciles
<1>4. ASSUME NEW n \in Members, Pass(n) \/ Apply(n)
      PROVE  UNCHANGED cached /\ rec'.seen = rec.seen
  BY <1>4 DEF Pass, Apply, pool, TypeOK, Reconciles
<1>5. CASE Record
  BY <1>5 DEF Record, TypeOK, Reconciles
<1>6. CASE FailMember \/ Finish
  BY <1>6 DEF FailMember, Finish, StopAtFailure, Conclude, pool, TypeOK, Reconciles
<1>7. CASE PatchStatus \/ FailPatch \/ Restart
  BY <1>7 DEF PatchStatus, FailPatch, Restart, Idle, pool
<1>8. CASE FailRead \/ FailApply \/ FailRecord
  BY <1>8 DEF FailRead, FailApply, FailRecord, StopAtFailure, Conclude, pool, TypeOK, Reconciles
<1>9. CASE EditSpec \/ RequeueAfter \/ Resync \/ UNCHANGED vars
  BY <1>9 DEF EditSpec, RequeueAfter, Resync, vars, pool
<1>10. ASSUME NEW n \in Members,
              CreateInstance(n) \/ Register(n) \/ ReportAddress(n) \/ Remove(n)
       PROVE  UNCHANGED <<cached, rec>>
  BY <1>10 DEF CreateInstance, Register, ReportAddress, Remove
<1>11. ASSUME NEW n \in Members, SyncCache(n)
       PROVE  /\ cached'[m] = cached[m] \/ (cached'[m] = machine[m] /\ UNCHANGED machine)
              /\ UNCHANGED rec
  BY <1>11 DEF SyncCache, TypeOK
<1> QED
  BY <1>1, <1>2, <1>3, <1>4, <1>5, <1>6, <1>7, <1>8, <1>9, <1>10, <1>11
  DEF Next, Step, MemberStep

LEMMA RecordsStep ==
  ASSUME Typed, Typed', [Next]_vars, Aged, NodesGoOn, WalkTrue
  PROVE  RecordsTrue'
<1>1. ASSUME NEW m \in Members
      PROVE  /\ machine[m].applied \in Configs \cup {None}
             /\ cached[m].applied \in Configs \cup {None}
             /\ rec.seen[m].applied \in Configs \cup {None}
  BY DEF Typed, TypeOK, Machines, Reconciles
<1>2. ASSUME NEW m \in Members
      PROVE  /\ TrueOf(machine[m].applied, m)
             /\ TrueOf(cached[m].applied, m)
             /\ TrueOf(rec.seen[m].applied, m)
  BY DEF Aged, RecordsTrue
<1> DEFINE StillTrue(x, m) ==
             x # None => m \in removed' \/ (node'[m] # None /\ AtMost(x, node'[m]))
<1>3. ASSUME NEW m \in Members
      PROVE  /\ StillTrue(machine[m].applied, m)
             /\ StillTrue(cached[m].applied, m)
             /\ StillTrue(rec.seen[m].applied, m)
  BY <1>1, <1>2, TruthStays
<1>4. ASSUME NEW m \in Members
      PROVE  StillTrue(machine'[m].applied, m)
  <2>1. MachineEffect(m)
    BY MachineEffects
  <2>2. CASE machine'[m] = machine[m] \/ machine'[m].applied = machine[m].applied
    BY <1>3, <2>2
  <2>3. CASE machine'[m] = Absent
    BY <2>3 DEF Absent
  <2>4. CASE /\ rec.at = "record" /\ m \in rec.todo /\ IsFirst(m)
             /\ machine[m].listed /\ machine'[m] = [machine[m] EXCEPT !.applied = secret]
             /\ UNCHANGED <<node, secret, removed>>
    <3>1. node[m] # None /\ m \notin removed
      BY <2>4 DEF Aged, NoneWithoutNode
    <3>2. node[m] = secret
      BY <2>4, <3>1 DEF WalkTrue, OnSecret
    <3>3. machine'[m].applied = secret
      BY <2>4 DEF Typed, TypeOK, Machines
    <3> QED BY <2>4, <3>1, <3>2, <3>3 DEF AtMost
  <2> QED BY <2>1, <2>2, <2>3, <2>4 DEF MachineEffect
<1>5. ASSUME NEW m \in Members
      PROVE  StillTrue(cached'[m].applied, m) /\ StillTrue(rec'.seen[m].applied, m)
  <2>1. cached'[m] = cached[m] \/ cached'[m] = machine[m]
    BY CopyEffects
  <2>2. rec'.seen = rec.seen \/ rec'.seen = cached \/ rec'.seen[m] = Absent
    BY CopyEffects
  <2>3. StillTrue(Absent.applied, m)
    BY DEF Absent
  <2> QED BY <1>3, <2>1, <2>2, <2>3
<1> QED BY <1>4, <1>5 DEF RecordsTrue, TrueOf

LEMMA OnSecretStays ==
  ASSUME NoWayBack, Typed, Typed', [Next]_vars, NodesBehind', NodesGoOn, UNCHANGED secret,
         NEW m \in Members, OnSecret(m)
  PROVE  OnSecret(m)'
<1>1. RemovedEffect(m)
  BY NodeEffects
<1>2. CASE m \in removed'
  BY <1>2 DEF OnSecret
<1>3. CASE m \notin removed'
  <2>1. node[m] = secret
    BY <1>1, <1>3 DEF OnSecret, RemovedEffect
  <2>2. secret \in Configs /\ secret # None
    BY PoolAssumption DEF Typed, TypeOK
  <2>3. node'[m] # None /\ AtMost(secret, node'[m])
    BY <1>3, <2>1, <2>2 DEF NodesGoOn
  <2>4. node'[m] \in Configs /\ AtMost(node'[m], secret)
    BY <2>3 DEF NodesBehind, Typed, TypeOK
  <2> QED BY <2>2, <2>3, <2>4, AtMostIsAntisymmetric DEF OnSecret
<1> QED BY <1>2, <1>3

\* A walk that stays where it is stays true.
LEMMA WalkStays ==
  ASSUME NoWayBack, Typed, Typed', [Next]_vars, NodesBehind', NodesGoOn, WalkTrue,
         UNCHANGED <<rec, secret>>
  PROVE  WalkTrue'
<1>1. \A m \in Members : OnSecret(m) => OnSecret(m)'
  BY OnSecretStays
<1>2. rec.todo \subseteq Members /\ rec.converged \subseteq Members
  BY DEF Typed, TypeOK, Reconciles
<1> QED BY <1>1, <1>2 DEF WalkTrue, IsFirst

LEMMA FirstIsOne ==
  ASSUME TypeOK, NEW m \in Members, NEW n \in Members, IsFirst(m), IsFirst(n)
  PROVE  m = n
BY PoolAssumption DEF IsFirst

LEMMA WalkStep ==
  ASSUME NoWayBack, Typed, Typed', [Next]_vars, Aged, NodesBehind', NodesGoOn, WalkTrue
  PROVE  WalkTrue'
<1>1. TypeOK /\ PhaseOK
  BY DEF Typed
<1>2. /\ rec.todo \subseteq Members /\ rec.converged \subseteq Members
      /\ rec \in Reconciles
  BY <1>1 DEF TypeOK, Reconciles
<1>3. CASE rec'.at \notin {"walk", "record"}
  BY <1>3 DEF WalkTrue
<1>4. CASE Start
  <2>1. rec'.at \in {"render", "patch"}
    BY <1>1, <1>4, ConcludeType DEF Start, TypeOK, Reconciles, Verdicts
  <2> QED BY <1>3, <2>1
<1>5. CASE Render
  <2>1. rec'.at = "list"
    BY <1>2, <1>5 DEF Render, Reconciles
  <2> QED BY <1>3, <2>1
<1>6. CASE List
  <2>1. CASE {m \in Members : cached[m].listed} = {}
    <3>1. rec'.at = "patch"
      BY <1>1, <1>6, <2>1, ConcludeType DEF List, Verdicts
    <3> QED BY <1>3, <3>1
  <2>2. CASE {m \in Members : cached[m].listed} # {}
    <3>1. rec' = [rec EXCEPT !.at = "walk", !.seen = cached,
                             !.todo = {m \in Members : cached[m].listed}]
      BY <1>6, <2>2 DEF List
    <3>2. /\ rec'.at = "walk" /\ rec'.converged = {}
          /\ rec'.seen = cached /\ rec'.todo = {m \in Members : cached[m].listed}
      BY <1>1, <1>2, <1>6, <3>1 DEF List, PhaseOK, Reconciles
    <3> QED BY <3>2 DEF WalkTrue
  <2> QED BY <2>1, <2>2
<1>7. ASSUME NEW m \in Members, Pass(m)
      PROVE  WalkTrue'
  <2>1. rec.at = "walk" /\ IsFirst(m) /\ ~ NeedsApply(m) /\ UNCHANGED <<secret, node, removed>>
    BY <1>7 DEF Pass, IsNext, pool
  <2>2. /\ rec'.at = "walk" /\ rec'.seen = rec.seen /\ rec'.todo = rec.todo \ {m}
        /\ rec'.converged = IF rec.seen[m].applied = secret THEN rec.converged \cup {m}
                                                            ELSE rec.converged
    BY <1>1, <1>2, <1>7, <2>1 DEF Pass, Applied, PhaseOK, Reconciles
  <2>3. rec.seen[m].applied = secret => OnSecret(m)
    <3> SUFFICES ASSUME rec.seen[m].applied = secret, m \notin removed
                 PROVE  node[m] = secret
      BY DEF OnSecret
    <3>1. secret \in Configs /\ secret # None
      BY <1>1, PoolAssumption DEF TypeOK
    <3>2. node[m] # None /\ AtMost(secret, node[m])
      BY <3>1 DEF Aged, RecordsTrue, TrueOf
    <3>3. node[m] \in Configs /\ AtMost(node[m], secret)
      BY <1>1, <3>2 DEF Aged, NodesBehind, TypeOK
    <3> QED BY <3>1, <3>2, <3>3, AtMostIsAntisymmetric
  <2>4. \A n \in Members : OnSecret(n) => OnSecret(n)'
    BY <2>1 DEF OnSecret
  <2>5. rec.seen[m].applied = secret \/ ~ rec.seen[m].addressed
    BY <1>1, <2>1 DEF NeedsApply, Applied, PhaseOK
  <2> QED BY <1>2, <2>1, <2>2, <2>3, <2>4, <2>5 DEF WalkTrue
<1>8. ASSUME NEW m \in Members, Apply(m)
      PROVE  WalkTrue'
  <2>1. /\ rec.at = "walk" /\ IsFirst(m) /\ UNCHANGED <<secret, removed>>
        /\ node' = [node EXCEPT ![m] = secret]
    BY <1>1, <1>8 DEF Apply, IsNext, Applied, PhaseOK
  <2>2. /\ rec'.at = "record" /\ rec'.seen = rec.seen /\ rec'.todo = rec.todo
        /\ rec'.converged = rec.converged
    BY <1>2, <1>8 DEF Apply, Reconciles
  <2>3. OnSecret(m)'
    BY <1>1, <2>1 DEF OnSecret, TypeOK
  <2>4. \A n \in Members : OnSecret(n) => OnSecret(n)'
    BY <2>1, OnSecretStays
  <2>5. \A n \in rec'.todo : IsFirst(n)' => n = m
    BY <1>1, <1>2, <2>1, <2>2, FirstIsOne DEF IsFirst
  <2> QED BY <1>2, <2>1, <2>2, <2>3, <2>4, <2>5 DEF WalkTrue
<1>9. CASE Record
  <2>1. PICK m \in rec.todo :
          /\ IsFirst(m)
          /\ machine[m].listed
          /\ rec' = [rec EXCEPT !.at = "walk", !.todo = @ \ {m}, !.converged = @ \cup {m}]
    BY <1>9 DEF Record, PutRecord
  <2>2. /\ rec'.at = "walk" /\ rec'.seen = rec.seen /\ rec'.todo = rec.todo \ {m}
        /\ rec'.converged = rec.converged \cup {m}
    BY <1>2, <2>1 DEF Reconciles
  <2>3. rec.at = "record" /\ UNCHANGED <<secret, node, removed>>
    BY <1>9 DEF Record
  <2>4. OnSecret(m)
    BY <2>1, <2>3 DEF WalkTrue
  <2>5. \A n \in Members : OnSecret(n) => OnSecret(n)'
    BY <2>3 DEF OnSecret
  <2> QED BY <1>2, <2>2, <2>3, <2>4, <2>5 DEF WalkTrue
<1>10. CASE FailMember \/ Finish \/ PatchStatus \/ FailRead \/ FailApply \/ FailRecord \/ FailPatch
              \/ Restart
  <2>1. rec'.at \in {"patch", "idle"}
    BY <1>1, <1>10, ConcludeType, IdleType
    DEF FailMember, Finish, PatchStatus, FailRead, FailApply, FailRecord, FailPatch, Restart,
        StopAtFailure, Verdicts
  <2> QED BY <1>3, <2>1
<1>11. CASE EditSpec \/ RequeueAfter \/ Resync \/ UNCHANGED vars
  <2>1. UNCHANGED <<rec, secret>>
    BY <1>11 DEF EditSpec, RequeueAfter, Resync, vars
  <2> QED BY <2>1, WalkStays
<1>12. ASSUME NEW m \in Members, MemberStep(m) \/ Remove(m)
       PROVE  WalkTrue'
  <2>1. UNCHANGED <<rec, secret>>
    BY <1>12 DEF MemberStep, CreateInstance, Register, ReportAddress, SyncCache, Remove
  <2> QED BY <2>1, WalkStays
<1> QED
  BY <1>4, <1>5, <1>6, <1>7, <1>8, <1>9, <1>10, <1>11, <1>12 DEF Next, Step

----------------------------------------------------------------------------
(* What is recorded and reported is true. *)

\* The inductive invariant.
Inv == Typed /\ Aged /\ WalkTrue

LEMMA InvInit == Init => Inv
<1> SUFFICES ASSUME Init PROVE Inv
  OBVIOUS
<1>1. Typed
  BY TypedInit
<1>2. secret = spec /\ rec.at = "idle"
  BY IdleType DEF Init
<1>3. SecretBehind
  BY <1>2 DEF SecretBehind, AtMost
<1>4. \A m \in Members : node[m] \in {None, secret}
  BY DEF Init
<1>5. NodesBehind
  BY <1>4 DEF NodesBehind, AtMost
<1>6. Initial # None
  BY PoolAssumption
<1>7. NoneWithoutNode
  BY <1>6 DEF Init, NoneWithoutNode, Absent
<1>8. \A m \in Members : /\ machine[m].applied = None /\ cached[m].applied = None
                         /\ rec.seen[m].applied = None
  BY DEF Init, Idle, Absent
<1> QED BY <1>1, <1>2, <1>3, <1>5, <1>7, <1>8 DEF Inv, Aged, RecordsTrue, TrueOf, WalkTrue

LEMMA InvStep ==
  ASSUME NoWayBack, Inv, [Next]_vars
  PROVE  Inv' /\ NodesGoOn
<1> USE DEF Inv
<1>1. Typed'
  BY TypedNext
<1>2. SecretBehind' /\ AtMost(secret, secret')
  BY <1>1, SecretStep DEF Aged
<1>3. NodesBehind' /\ NodesGoOn
  BY <1>1, <1>2, NodeStep DEF Aged
<1>4. NoneWithoutNode'
  BY <1>1, NoneStep DEF Aged
<1>5. RecordsTrue'
  BY <1>1, <1>3, RecordsStep
<1>6. WalkTrue'
  BY <1>1, <1>3, WalkStep
<1> QED BY <1>1, <1>2, <1>3, <1>4, <1>5, <1>6 DEF Aged

LEMMA AlwaysInv ==
  ASSUME NoWayBack
  PROVE  Spec => []Inv
BY InvInit, InvStep, PTL DEF Spec

\* While no edit brings a configuration back, a member whose Machine carries the hash of the secret
\* runs the secret's configuration, through lost answers, crashes and edits (applyToPoolMachine).
THEOREM RecordsAreTrue ==
  ASSUME NoWayBack
  PROVE  Spec => []RecordedIsRunning
<1>1. Inv => RecordedIsRunning
  <2> SUFFICES ASSUME Inv, NEW m \in Members, machine[m].applied = secret
               PROVE  node[m] = secret
    BY DEF RecordedIsRunning
  <2>1. secret \in Configs /\ secret # None
    BY PoolAssumption DEF Inv, Typed, TypeOK
  <2>2. node[m] # None /\ AtMost(secret, node[m])
    BY <2>1 DEF Inv, Aged, RecordsTrue, TrueOf, NoneWithoutNode
  <2>3. node[m] \in Configs /\ AtMost(node[m], secret)
    BY <2>2 DEF Inv, Typed, TypeOK, Aged, NodesBehind
  <2> QED BY <2>1, <2>2, <2>3, AtMostIsAntisymmetric
<1> QED BY <1>1, AlwaysInv, PTL

\* A walk is concluded by its end, or by a failure.
LEMMA HowWalksEnd ==
  ASSUME Typed, Next, rec.at = "walk", rec'.at = "patch"
  PROVE  Finish \/ rec'.verdict = "False"
<1> USE DEF Typed
<1>1. CASE Start \/ Render \/ List \/ Record \/ PatchStatus \/ FailRead \/ FailRecord \/ FailPatch
  BY <1>1 DEF Start, Render, List, Record, PatchStatus, FailRead, FailRecord, FailPatch
<1>2. ASSUME NEW m \in Members, Pass(m) \/ Apply(m)
      PROVE  FALSE
  BY <1>2 DEF Pass, Apply, TypeOK, Reconciles
<1>3. CASE FailMember \/ FailApply
  BY <1>3, ConcludeType DEF FailMember, FailApply, StopAtFailure, Verdicts
<1>4. CASE Restart
  BY <1>4, IdleType DEF Restart
<1>5. CASE EditSpec \/ RequeueAfter \/ Resync
  BY <1>5 DEF EditSpec, RequeueAfter, Resync
<1>6. ASSUME NEW m \in Members, MemberStep(m) \/ Remove(m)
      PROVE  FALSE
  BY <1>6 DEF MemberStep, CreateInstance, Register, ReportAddress, SyncCache, Remove
<1> QED BY <1>1, <1>2, <1>3, <1>4, <1>5, <1>6 DEF Next, Step

\* While no edit brings a configuration back, UpToDate is reported only when every member that was
\* listed runs what the pool has rendered, or is no more.
THEOREM UpToDateIsSo ==
  ASSUME NoWayBack
  PROVE  Spec => UpToDateIsTrue
<1> DEFINE Truth ==
      rec.at = "walk" /\ rec'.at = "patch" /\ rec'.verdict = "True" =>
        \A m \in Members : rec.seen[m].listed => node[m] = secret \/ m \in removed
<1>1. Inv /\ [Next]_vars => [Truth]_vars
  <2> SUFFICES ASSUME Inv, Next, rec.at = "walk", rec'.at = "patch", rec'.verdict = "True",
                      NEW m \in Members, rec.seen[m].listed
               PROVE  node[m] = secret \/ m \in removed
    OBVIOUS
  <2>1. Finish
    BY HowWalksEnd DEF Inv
  <2>2. m \in rec.converged
    <3>1. CASE \A n \in Members : rec.seen[n].listed => n \in rec.converged
      BY <3>1
    <3>2. CASE ~ \A n \in Members : rec.seen[n].listed => n \in rec.converged
      BY <2>1, <3>2, ConcludeType DEF Finish, Inv, Typed, Verdicts
    <3> QED BY <3>1, <3>2
  <2> QED BY <2>2 DEF Inv, WalkTrue, OnSecret
<1> QED BY <1>1, AlwaysInv, PTL DEF Spec, UpToDateIsTrue

\* While no edit brings a configuration back, a member is given one only after all members before
\* it, of those that can be reached, have taken it (applyToPoolMachines).
THEOREM OneByOne ==
  ASSUME NoWayBack
  PROVE  Spec => OneAfterAnother
<1> DEFINE InTurn ==
      \A m, n \in Members :
        /\ node[m] # None
        /\ node'[m] \notin {node[m], None}
        /\ n < m
        /\ rec.seen[n].listed /\ rec.seen[n].addressed
        => node[n] = node'[m] \/ n \in removed
<1>1. Inv /\ [Next]_vars => [InTurn]_vars
  <2> SUFFICES ASSUME Inv, Next, NEW m \in Members, NEW n \in Members,
                      node[m] # None, node'[m] \notin {node[m], None}, n < m,
                      rec.seen[n].listed, rec.seen[n].addressed
               PROVE  node[n] = node'[m] \/ n \in removed
    OBVIOUS
  <2>1. rec.at = "walk" /\ IsFirst(m) /\ node'[m] = secret
    BY NodeEffects DEF NodeEffect, Inv
  <2>2. n \notin rec.todo
    BY <2>1, PoolAssumption DEF IsFirst
  <2>3. OnSecret(n)
    BY <2>1, <2>2 DEF Inv, WalkTrue
  <2> QED BY <2>1, <2>3 DEF OnSecret
<1> QED BY <1>1, AlwaysInv, PTL DEF Spec, OneAfterAnother
=============================================================================
