------------------------- MODULE ClusterSecretsProofs -------------------------
(***************************************************************************)
(* Of any number of machines that race for the secrets of their cluster,   *)
(* all come from one bundle, and none can boot before the CA is there.     *)
(*                                                                         *)
(* OneBundle is not inductive: what a reconcile is about to write comes    *)
(* from the bundle it holds.  One that has got past the creation holds the *)
(* cluster's; one that is about to create it holds some bundle.            *)
(* Neither is QuietIsProvided: a machine that has something to do yet is   *)
(* in the queue, or a reconcile of it is under way.                        *)
(***************************************************************************)
EXTENDS ClusterSecrets, TLAPS

\* Where a reconcile is when it holds the bundle of the cluster.
Holding == {"ca", "createCA", "data", "get", "createClient", "update"}

Good(r, b) ==
  /\ r.at = "create" => r.bundle # None
  /\ r.at \in Holding => r.bundle = b /\ b # None

AllGood == \A m \in Machines : Good(rec[m], bundle)

\* Nobody writes bootstrap data before the CA is there.
CAFirst == \A m \in Machines : rec[m].at = "data" => ca # None

\* Only the control plane sees to the talosconfig.
RolesKept == \A m \in Machines : rec[m].at \in ClientSteps => m \in ControlPlanes

\* The inductive invariant.
Inv == TypeOK /\ AllGood /\ RolesKept /\ OneBundle /\ DataImpliesCA /\ CAFirst

----------------------------------------------------------------------------
(* Types. *)

\* A machine no reconcile is under way for is in a state of a reconcile.
LEMMA IdleIsReconcile == Idle \in Reconciles
BY DEF Idle, Reconciles

\* Writing the talosconfig keeps the types, if the reconcile holds a bundle.
LEMMA PutClientType ==
  ASSUME TypeOK, NEW m \in Machines, rec[m].bundle # None, PutClient(m)
  PROVE  client' \in ClientConfigs /\ rec' \in [Machines -> Reconciles]
<1>1. ClientConfigOf(m) \in ClientConfigs
  BY DEF ClientConfigOf, ClientConfigs, TypeOK, Reconciles
<1>2. ASSUME NEW n \in Machines
      PROVE  [rec[n] EXCEPT !.current = FALSE] \in Reconciles
  BY DEF TypeOK, Reconciles
<1>3. client' \in ClientConfigs
  BY <1>1 DEF PutClient
<1>4. \A n \in Machines : (IF n = m THEN Idle ELSE [rec[n] EXCEPT !.current = FALSE]) \in Reconciles
  BY <1>2, IdleIsReconcile
<1>5. rec' \in [Machines -> Reconciles]
  BY <1>4 DEF PutClient
<1> QED
  BY <1>3, <1>5

\* The steps of one reconcile keep the types.
LEMMA TypeStep ==
  ASSUME TypeOK, AllGood, RolesKept, NEW m \in Machines, Step(m)
  PROVE  TypeOK'
<1> USE SecretsAssumption, IdleIsReconcile DEF TypeOK
<1>1. CASE Start(m)
  <2> DEFINE next == CASE m \notin ready -> "load"
                       [] m \in ready \cap ControlPlanes -> "list"
                       [] OTHER -> "idle"
  <2>1. next \in {"idle", "load", "list"}
    OBVIOUS
  <2> HIDE DEF next
  <2>2. [rec[m] EXCEPT !.at = next] \in Reconciles
    BY <2>1 DEF Reconciles
  <2>3. rec' = [rec EXCEPT ![m] = [rec[m] EXCEPT !.at = next]]
    BY <1>1 DEF Start, Goto, next
  <2>4. rec' \in [Machines -> Reconciles]
    BY <2>2, <2>3
  <2> QED BY <1>1, <2>4 DEF Start
<1>2. CASE LoadBundle(m)
  <2>1. ASSUME NEW b \in Bundles, NEW p \in {"ca", "create"},
               rec' = [rec EXCEPT ![m].bundle = b, ![m].at = p]
        PROVE  rec' \in [Machines -> Reconciles]
    BY <2>1 DEF Reconciles
  <2>2. rec' \in [Machines -> Reconciles]
    BY <1>2, <2>1 DEF LoadBundle
  <2> QED BY <1>2, <2>2 DEF LoadBundle
<1>3. CASE CreateBundle(m)
  BY <1>3 DEF CreateBundle, Goto, Reconciles
<1>4. CASE LookForCA(m)
  BY <1>4 DEF LookForCA, Goto, Reconciles
<1>5. CASE CreateCA(m)
  BY <1>5 DEF CreateCA, PutCA, Goto, Reconciles
<1>6. CASE WriteData(m)
  BY <1>6 DEF WriteData, PutData, Done, Reconciles
<1>7. CASE ListMachines(m)
  BY <1>7 DEF ListMachines, Reconciles
<1>8. CASE LoadBundleAgain(m)
  BY <1>8 DEF LoadBundleAgain, Reconciles
<1>9. CASE GetClient(m)
  BY ZenonT(60), <1>9 DEF GetClient, Reconciles
<1>10. CASE CreateClient(m)
  <2>1. rec[m].bundle # None
    BY <1>10 DEF CreateClient, AllGood, Good, Holding
  <2>2. client' \in ClientConfigs /\ rec' \in [Machines -> Reconciles]
    BY <1>10, <2>1, PutClientType DEF CreateClient
  <2>3. m \in ControlPlanes
    BY <1>10 DEF CreateClient, RolesKept, ClientSteps
  <2> QED BY <1>10, <2>2, <2>3 DEF CreateClient, Report
<1>11. CASE CreateClientTooLate(m)
  BY <1>11 DEF CreateClientTooLate, Done
<1>12. CASE UpdateClient(m)
  <2>1. rec[m].bundle # None
    BY <1>12 DEF UpdateClient, AllGood, Good, Holding
  <2>2. /\ client' \in ClientConfigs \cup {None}
        /\ rec' \in [Machines -> Reconciles]
    BY <1>12, <2>1, PutClientType DEF UpdateClient, Done
  <2>3. m \in ControlPlanes
    BY <1>12 DEF UpdateClient, RolesKept, ClientSteps
  <2> QED BY <1>12, <2>2, <2>3 DEF UpdateClient, Report
<1> QED
  BY <1>1, <1>2, <1>3, <1>4, <1>5, <1>6, <1>7, <1>8, <1>9, <1>10, <1>11, <1>12 DEF Step

----------------------------------------------------------------------------
(* One bundle. *)

Shared == AllGood /\ RolesKept /\ OneBundle /\ DataImpliesCA /\ CAFirst

\* The steps of one reconcile keep the secrets of the cluster together.
LEMMA SharedStep ==
  ASSUME Inv, NEW m \in Machines, Step(m), TypeOK'
  PROVE  Shared'
<1> USE SecretsAssumption
        DEF Inv, Shared, TypeOK, AllGood, Good, Holding, RolesKept, ClientSteps, OneBundle,
            DataImpliesCA, CAFirst, Reconciles
<1>1. CASE Start(m)
  <2> DEFINE next == CASE m \notin ready -> "load"
                       [] m \in ready \cap ControlPlanes -> "list"
                       [] OTHER -> "idle"
  <2>1. next \in {"idle", "load", "list"} /\ (next = "list" => m \in ControlPlanes)
    OBVIOUS
  <2> HIDE DEF next
  <2>2. rec' = [rec EXCEPT ![m].at = next]
    BY <1>1 DEF Start, Goto, next
  <2> QED BY <1>1, <2>1, <2>2 DEF Start
<1>2. CASE LoadBundle(m)
  <2>1. CASE bundle # None
    <3>1. rec' = [rec EXCEPT ![m].bundle = bundle, ![m].at = "ca"]
      BY <1>2, <2>1 DEF LoadBundle
    <3> QED BY <1>2, <2>1, <3>1 DEF LoadBundle
  <2>2. CASE bundle = None
    <3>1. PICK b \in Bundles : rec' = [rec EXCEPT ![m].bundle = b, ![m].at = "create"]
      BY <1>2, <2>2 DEF LoadBundle
    <3>2. rec'[m].at = "create" /\ rec'[m].bundle = b /\ b # None
      BY <3>1
    <3>3. \A n \in Machines \ {m} : rec'[n] = rec[n]
      BY <3>1
    <3>4. AllGood'
      BY <1>2, <3>2, <3>3 DEF LoadBundle
    <3>5. RolesKept' /\ CAFirst'
      BY ZenonT(60), <1>2, <3>2, <3>3 DEF LoadBundle
    <3>6. OneBundle' /\ DataImpliesCA'
      BY <1>2 DEF LoadBundle
    <3> QED BY <3>4, <3>5, <3>6
  <2> QED BY <2>1, <2>2
<1>3. CASE CreateBundle(m)
  <2>1. CASE bundle # None
    BY <1>3, <2>1 DEF CreateBundle, Goto
  <2>2. CASE bundle = None
    <3>1. bundle' = rec[m].bundle /\ rec' = [rec EXCEPT ![m].at = "ca"] /\ bundle' # None
      BY <1>3, <2>2 DEF CreateBundle, Goto
    <3>2. (\A n \in Machines : data[n] = None) /\ ca = None /\ client = None
      BY <2>2 DEF ClientConfigs
    <3>3. AllGood' /\ RolesKept' /\ CAFirst'
      BY <1>3, <2>2, <3>1 DEF CreateBundle
    <3>4. OneBundle' /\ DataImpliesCA'
      BY <1>3, <3>2 DEF CreateBundle
    <3> QED BY <3>3, <3>4
  <2> QED BY <2>1, <2>2
<1>4. CASE LookForCA(m)
  BY <1>4 DEF LookForCA, Goto
<1>5. CASE CreateCA(m)
  BY <1>5 DEF CreateCA, PutCA, Goto
<1>6. CASE WriteData(m)
  BY <1>6 DEF WriteData, PutData, Done, Idle
<1>7. CASE ListMachines(m)
  BY <1>7 DEF ListMachines
<1>8. CASE LoadBundleAgain(m)
  BY <1>8 DEF LoadBundleAgain
<1>9. CASE GetClient(m)
  BY <1>9 DEF GetClient
<1>10. CASE CreateClient(m)
  BY <1>10 DEF CreateClient, PutClient, ClientConfigOf, Idle
<1>11. CASE CreateClientTooLate(m)
  BY <1>11 DEF CreateClientTooLate, Done, Idle
<1>12. CASE UpdateClient(m)
  <2>1. UNCHANGED <<bundle, ca, data>> /\ rec[m].at = "update"
    BY <1>12 DEF UpdateClient
  <2>2. CASE PutClient(m)
    <3>1. /\ client' = [bundle |-> rec[m].bundle, endpoints |-> rec[m].endpoints]
          /\ rec'[m] = Idle
          /\ \A n \in Machines \ {m} : rec'[n] = [rec[n] EXCEPT !.current = FALSE]
      BY <2>2 DEF PutClient, ClientConfigOf
    <3>2. \A n \in Machines \ {m} : rec'[n].at = rec[n].at /\ rec'[n].bundle = rec[n].bundle
      BY <3>1
    <3>3. OneBundle' /\ DataImpliesCA'
      BY <2>1, <3>1
    <3> QED BY <2>1, <3>1, <3>2, <3>3 DEF Idle
  <2>3. CASE Done(m) /\ UNCHANGED client
    BY <2>1, <2>3 DEF Done, Idle
  <2> QED BY <1>12, <2>2, <2>3 DEF UpdateClient
<1> QED
  BY <1>1, <1>2, <1>3, <1>4, <1>5, <1>6, <1>7, <1>8, <1>9, <1>10, <1>11, <1>12 DEF Step

\* What a failing call may have done is what the call would have done.
LEMMA FailStepKeeps ==
  ASSUME Inv, NEW m \in Machines, FailStep(m)
  PROVE  TypeOK' /\ Shared'
<1> USE SecretsAssumption, IdleIsReconcile DEF Inv
<1>1. /\ faults' \in 0 .. MaxFaults /\ ready' = ready /\ addressed' = addressed
      /\ queued' \subseteq Machines /\ reported' \subseteq ControlPlanes
  BY DEF FailStep, Fault, Requeue, TypeOK
<1> DEFINE Kept == UNCHANGED <<bundle, ca, client, data>>
<1>2. CASE Done(m) /\ Kept
  <2>1. TypeOK'
    BY <1>1, <1>2 DEF TypeOK, Done
  <2>2. Shared'
    BY <1>2 DEF Shared, Done, Idle, TypeOK, AllGood, Good, Holding, RolesKept, ClientSteps, OneBundle,
                DataImpliesCA, CAFirst
  <2> QED BY <2>1, <2>2
<1>3. CASE Done(m) /\ LostAnswer(m) /\ UNCHANGED client
  <2>1. ASSUME rec[m].at = "create", bundle = None, bundle' = rec[m].bundle,
               UNCHANGED <<ca, data>>
        PROVE  TypeOK' /\ Shared'
    <3>1. bundle' \in Bundles /\ bundle' # None
      BY <2>1 DEF TypeOK, Reconciles, AllGood, Good
    <3>2. TypeOK'
      BY <1>1, <1>3, <2>1, <3>1 DEF TypeOK, Done
    <3>3. (\A n \in Machines : data[n] = None) /\ ca = None /\ client = None
      BY <2>1 DEF OneBundle, TypeOK, ClientConfigs
    <3>4. AllGood' /\ RolesKept' /\ CAFirst'
      BY <1>3, <2>1 DEF Done, Idle, TypeOK, AllGood, Good, Holding, RolesKept, ClientSteps, CAFirst
    <3>5. OneBundle' /\ DataImpliesCA'
      BY <1>3, <2>1, <3>3 DEF OneBundle, DataImpliesCA
    <3> QED BY <3>2, <3>4, <3>5 DEF Shared
  <2>2. ASSUME rec[m].at = "createCA", PutCA(m), UNCHANGED <<bundle, data>>
        PROVE  TypeOK' /\ Shared'
    <3>1. TypeOK'
      BY <1>1, <1>3, <2>2 DEF TypeOK, Done, PutCA, Reconciles
    <3>2. Shared'
      BY <1>3, <2>2 DEF Shared, Done, Idle, PutCA, TypeOK, AllGood, Good, Holding, RolesKept,
                        ClientSteps, OneBundle, DataImpliesCA, CAFirst
    <3> QED BY <3>1, <3>2
  <2>3. ASSUME rec[m].at = "data", PutData(m), UNCHANGED <<bundle, ca>>
        PROVE  TypeOK' /\ Shared'
    <3>1. TypeOK'
      BY <1>1, <1>3, <2>3 DEF TypeOK, Done, PutData, Reconciles
    <3>2. Shared'
      BY <1>3, <2>3 DEF Shared, Done, Idle, PutData, TypeOK, AllGood, Good, Holding, RolesKept,
                        ClientSteps, OneBundle, DataImpliesCA, CAFirst
    <3> QED BY <3>1, <3>2
  <2> QED BY <1>3, <2>1, <2>2, <2>3 DEF LostAnswer
<1>4. CASE /\ rec[m].at \in {"createClient", "update"}
           /\ PutClient(m)
           /\ UNCHANGED <<bundle, ca, data>>
  <2>1. rec[m].bundle # None
    BY <1>4 DEF AllGood, Good, Holding
  <2>2. client' \in ClientConfigs /\ rec' \in [Machines -> Reconciles]
    BY <1>4, <2>1, PutClientType
  <2>3. TypeOK'
    BY <1>1, <1>4, <2>2 DEF TypeOK
  <2>4. Shared'
    BY <1>4 DEF Shared, PutClient, ClientConfigOf, Idle, TypeOK, Reconciles, AllGood, Good, Holding,
                RolesKept, ClientSteps, OneBundle, DataImpliesCA, CAFirst
  <2> QED BY <2>3, <2>4
<1> QED
  BY <1>2, <1>3, <1>4 DEF FailStep

\* What happens around the reconciles touches no secret.
LEMMA OthersKeep ==
  ASSUME Inv, Restart \/ Resync \/ (\E m \in Machines : ReportAddress(m)) \/ UNCHANGED vars
  PROVE  Inv'
<1> USE SecretsAssumption, IdleIsReconcile
        DEF Inv, TypeOK, AllGood, Good, Holding, RolesKept, ClientSteps, OneBundle, DataImpliesCA,
            CAFirst
<1>1. CASE Restart
  BY <1>1 DEF Restart, Fault, Idle
<1>2. CASE Resync
  BY <1>2 DEF Resync
<1>3. CASE \E m \in Machines : ReportAddress(m)
  BY <1>3 DEF ReportAddress
<1>4. CASE UNCHANGED vars
  BY <1>4 DEF vars
<1> QED
  BY <1>1, <1>2, <1>3, <1>4

\* A new cluster has no secrets.
LEMMA InvInit == Init => Inv
<1> SUFFICES ASSUME Init
             PROVE  Inv
  OBVIOUS
<1>1. TypeOK
  BY SecretsAssumption, IdleIsReconcile DEF Init, TypeOK
<1>2. \A m \in Machines : rec[m].at = "idle"
  BY DEF Init, Idle
<1>3. AllGood /\ RolesKept /\ CAFirst
  BY <1>2 DEF AllGood, Good, Holding, RolesKept, ClientSteps, CAFirst
<1>4. OneBundle /\ DataImpliesCA
  BY DEF Init, OneBundle, DataImpliesCA
<1> QED BY <1>1, <1>3, <1>4 DEF Inv

\* Every step keeps the invariant.
LEMMA InvStep == Inv /\ [Next]_vars => Inv'
<1> SUFFICES ASSUME Inv, [Next]_vars
             PROVE  Inv'
  OBVIOUS
<1>1. ASSUME NEW m \in Machines, Step(m)
      PROVE  Inv'
  <2>1. TypeOK'
    BY <1>1, TypeStep DEF Inv
  <2>2. Shared'
    BY <1>1, <2>1, SharedStep
  <2> QED BY <2>1, <2>2 DEF Inv, Shared
<1>2. ASSUME NEW m \in Machines, FailStep(m)
      PROVE  Inv'
  BY <1>2, FailStepKeeps DEF Inv, Shared
<1> QED
  BY <1>1, <1>2, OthersKeep DEF Next

----------------------------------------------------------------------------
(* Nobody is forgotten. *)

\* A machine that is ready has its data, and the talosconfig outlives whoever has found it.
Established ==
  /\ \A m \in ready : data[m] # None
  /\ \A m \in Machines : rec[m].at = "update" => client # None
  /\ \A m \in Machines : rec[m].at \in ClientSteps => m \in ready

Waiting(m) == m \in queued \/ rec[m].at # "idle"

\* Whoever has something to do yet is waiting.
NobodyForgotten ==
  /\ \A m \in Machines : Waiting(m) \/ m \in ready
  /\ \A m \in ControlPlanes : Waiting(m) \/ client # None

Provided == Established /\ NobodyForgotten

\* Writing the talosconfig makes it be there.
LEMMA ClientIsThere ==
  ASSUME Inv, NEW m \in Machines, rec[m].at \in {"createClient", "update"}, PutClient(m)
  PROVE  client' # None
<1>1. rec[m].bundle \in Bundles /\ rec[m].endpoints \in SUBSET ControlPlanes
  BY DEF Inv, TypeOK, Reconciles, AllGood, Good, Holding
<1>2. ClientConfigOf(m) \in [bundle : Bundles, endpoints : SUBSET ControlPlanes]
  BY <1>1 DEF ClientConfigOf
<1> QED BY <1>2, NoneAssumption DEF PutClient

\* A step that leaves the other reconciles where they are, undoes nothing, and leaves the machine
\* waiting or with nothing to do, forgets nobody.
LEMMA StepForgetsNobody ==
  ASSUME TypeOK, Provided, NEW m \in Machines,
         rec' \in [Machines -> Reconciles],
         \A n \in Machines \ {m} : rec'[n].at = rec[n].at,
         queued \ {m} \subseteq queued', ready \subseteq ready', ready' \subseteq Machines,
         \A n \in Machines : data[n] # None => data'[n] # None,
         client # None => client' # None,
         m \in ready' => data'[m] # None,
         \A n \in ready' \ {m} : n \in ready,
         rec'[m].at = "update" => client' # None,
         rec'[m].at \in ClientSteps => m \in ready',
         Waiting(m)' \/ (m \in ready' /\ (m \in ControlPlanes => client' # None))
  PROVE  Provided'
BY SecretsAssumption DEF Provided, Established, NobodyForgotten, Waiting, TypeOK

\* Where a step leaves the reconciles.
LEMMA GotoMoves ==
  ASSUME TypeOK, NEW m \in Machines, NEW p, Goto(m, p)
  PROVE  rec'[m].at = p /\ \A n \in Machines \ {m} : rec'[n].at = rec[n].at
BY DEF TypeOK, Goto, Reconciles

LEMMA DoneMoves ==
  ASSUME TypeOK, NEW m \in Machines, Done(m) \/ PutClient(m)
  PROVE  rec'[m].at = "idle" /\ \A n \in Machines \ {m} : rec'[n].at = rec[n].at
<1>1. CASE Done(m)
  BY <1>1 DEF TypeOK, Done, Idle
<1>2. CASE PutClient(m)
  <2>1. rec'[m] = Idle
    BY <1>2 DEF PutClient
  <2>2. ASSUME NEW n \in Machines \ {m}
        PROVE  rec'[n].at = rec[n].at
    <3>1. rec'[n] = [rec[n] EXCEPT !.current = FALSE]
      BY <1>2 DEF PutClient
    <3>2. rec[n] \in Reconciles
      BY DEF TypeOK
    <3> QED BY <3>1, <3>2 DEF Reconciles
  <2> QED BY <2>1, <2>2 DEF Idle
<1> QED BY <1>1, <1>2

LEMMA ProvidedStep ==
  ASSUME Inv, Provided, TypeOK', NEW m \in Machines, Step(m)
  PROVE  Provided'
<1>1. TypeOK /\ TypeOK' /\ RolesKept
  BY DEF Inv
<1>2. /\ m \in ready => data[m] # None
      /\ rec[m].at \in ClientSteps => m \in ready
  BY DEF Provided, Established
<1> USE DEF TypeOK, ClientSteps
<1>3. CASE Start(m)
  <2>1. queued' = queued \ {m} /\ UNCHANGED <<client, data, ready>>
    BY <1>3 DEF Start
  <2>2. CASE m \notin ready
    <3>1. Goto(m, "load")
      BY <1>3, <2>2 DEF Start
    <3> QED BY <1>1, <1>2, <2>1, <3>1, GotoMoves, StepForgetsNobody DEF Waiting
  <2>3. CASE m \in ready \cap ControlPlanes
    <3>1. Goto(m, "list")
      BY <1>3, <2>3 DEF Start
    <3> QED BY <1>1, <1>2, <2>1, <2>3, <3>1, GotoMoves, StepForgetsNobody DEF Waiting
  <2>4. CASE m \in ready \ ControlPlanes
    <3>1. Goto(m, "idle")
      BY <1>3, <2>4 DEF Start
    <3> QED BY <1>1, <1>2, <2>1, <2>4, <3>1, GotoMoves, StepForgetsNobody DEF Waiting
  <2> QED BY <2>2, <2>3, <2>4
<1>4. CASE LoadBundle(m)
  <2>1. PICK b \in Bundles, p \in {"ca", "create"} :
          rec' = [rec EXCEPT ![m].bundle = b, ![m].at = p]
    BY <1>1, <1>4 DEF LoadBundle
  <2>2. rec'[m].at = p /\ \A n \in Machines \ {m} : rec'[n].at = rec[n].at
    BY <1>1, <2>1
  <2> QED BY <1>1, <1>2, <1>4, <2>2, StepForgetsNobody DEF LoadBundle, Waiting
<1>5. CASE CreateBundle(m)
  <2>1. rec'[m].at \in {"ca", "load"} /\ \A n \in Machines \ {m} : rec'[n].at = rec[n].at
    BY <1>1, <1>5, GotoMoves DEF CreateBundle
  <2> QED BY <1>1, <1>2, <1>5, <2>1, StepForgetsNobody DEF CreateBundle, Waiting
<1>6. CASE LookForCA(m)
  <2>1. rec'[m].at \in {"createCA", "data"} /\ \A n \in Machines \ {m} : rec'[n].at = rec[n].at
    BY <1>1, <1>6, GotoMoves DEF LookForCA
  <2> QED BY <1>1, <1>2, <1>6, <2>1, StepForgetsNobody DEF LookForCA, Waiting
<1>7. CASE CreateCA(m)
  <2>1. rec'[m].at = "data" /\ \A n \in Machines \ {m} : rec'[n].at = rec[n].at
    BY <1>1, <1>7, GotoMoves DEF CreateCA
  <2> QED BY <1>1, <1>2, <1>7, <2>1, StepForgetsNobody DEF CreateCA, Waiting
<1>8. CASE WriteData(m)
  <2>1. rec'[m].at = "idle" /\ \A n \in Machines \ {m} : rec'[n].at = rec[n].at
    BY <1>1, <1>8, DoneMoves DEF WriteData
  <2>2. rec[m].bundle # None
    BY <1>8 DEF WriteData, Inv, AllGood, Good, Holding
  <2>3. data'[m] # None /\ \A n \in Machines : data[n] # None => data'[n] # None
    BY <1>1, <1>8, <2>2 DEF WriteData, PutData
  <2> QED BY <1>1, <1>8, <2>1, <2>3, StepForgetsNobody DEF WriteData, Waiting
<1>9. CASE ListMachines(m)
  <2>1. rec'[m].at = "bundle" /\ \A n \in Machines \ {m} : rec'[n].at = rec[n].at
    BY <1>1, <1>9 DEF ListMachines
  <2> QED BY <1>1, <1>2, <1>9, <2>1, StepForgetsNobody DEF ListMachines, Waiting
<1>10. CASE LoadBundleAgain(m)
  <2>1. rec'[m].at = "get" /\ \A n \in Machines \ {m} : rec'[n].at = rec[n].at
    BY <1>1, <1>10 DEF LoadBundleAgain
  <2> QED BY <1>1, <1>2, <1>10, <2>1, StepForgetsNobody DEF LoadBundleAgain, Waiting
<1>11. CASE GetClient(m)
  <2>1. /\ rec'[m].at = IF client = None THEN "createClient" ELSE "update"
        /\ \A n \in Machines \ {m} : rec'[n].at = rec[n].at
    BY <1>1, <1>11 DEF GetClient
  <2> QED BY <1>1, <1>2, <1>11, <2>1, StepForgetsNobody DEF GetClient, Waiting
<1>12. CASE CreateClient(m)
  <2>1. client' # None
    BY <1>12, ClientIsThere DEF CreateClient
  <2>2. rec'[m].at = "idle" /\ \A n \in Machines \ {m} : rec'[n].at = rec[n].at
    BY <1>1, <1>12, DoneMoves DEF CreateClient
  <2>3. m \in ready /\ UNCHANGED <<data, ready>> /\ queued \subseteq queued'
    BY <1>2, <1>12 DEF CreateClient, Report
  <2> QED BY <1>1, <1>2, <2>1, <2>2, <2>3, StepForgetsNobody DEF Waiting
<1>13. CASE CreateClientTooLate(m)
  <2>1. rec'[m].at = "idle" /\ \A n \in Machines \ {m} : rec'[n].at = rec[n].at
    BY <1>1, <1>13, DoneMoves DEF CreateClientTooLate
  <2> QED BY <1>1, <1>2, <1>13, <2>1, StepForgetsNobody DEF CreateClientTooLate, Waiting
<1>14. CASE UpdateClient(m)
  <2>1. client' # None
    BY <1>14, ClientIsThere DEF UpdateClient, Provided, Established
  <2>2. rec'[m].at = "idle" /\ \A n \in Machines \ {m} : rec'[n].at = rec[n].at
    BY <1>1, <1>14, DoneMoves DEF UpdateClient
  <2>3. m \in ready /\ UNCHANGED <<data, ready>> /\ queued \subseteq queued'
    BY <1>2, <1>14 DEF UpdateClient, Report
  <2> QED BY <1>1, <1>2, <2>1, <2>2, <2>3, StepForgetsNobody DEF Waiting
<1> QED
  BY <1>3, <1>4, <1>5, <1>6, <1>7, <1>8, <1>9, <1>10, <1>11, <1>12, <1>13, <1>14 DEF Step

\* A reconcile that fails is queued.
LEMMA ProvidedFail ==
  ASSUME Inv, Provided, TypeOK', NEW m \in Machines, FailStep(m)
  PROVE  Provided'
<1>1. TypeOK /\ (m \in ready => data[m] # None)
  BY DEF Inv, Provided, Established
<1>2. m \in queued' /\ queued \subseteq queued' /\ ready' = ready
  BY DEF FailStep, Requeue
<1>3. rec'[m].at = "idle" /\ \A n \in Machines \ {m} : rec'[n].at = rec[n].at
  BY <1>1, DoneMoves DEF FailStep
<1>4. client # None => client' # None
  BY ClientIsThere DEF FailStep
<1>5. \A n \in Machines : data[n] # None => data'[n] # None
  <2>1. CASE PutData(m)
    BY <1>1, <2>1 DEF PutData, TypeOK
  <2>2. CASE UNCHANGED data
    BY <2>2
  <2> QED BY <2>1, <2>2 DEF FailStep, LostAnswer
<1>6. rec' \in [Machines -> Reconciles] /\ ready \subseteq Machines
  BY <1>1 DEF TypeOK
<1>7. m \in ready => data'[m] # None
  BY <1>1, <1>5
<1> QED
  BY <1>1, <1>2, <1>3, <1>4, <1>5, <1>6, <1>7, StepForgetsNobody DEF Waiting, ClientSteps

LEMMA ProvidedOthers ==
  ASSUME Inv, Provided,
         Restart \/ Resync \/ (\E m \in Machines : ReportAddress(m)) \/ UNCHANGED vars
  PROVE  Provided'
<1> USE SecretsAssumption
        DEF Provided, Established, NobodyForgotten, Waiting, ClientSteps
<1>1. TypeOK
  BY DEF Inv
<1>2. CASE Restart
  BY <1>1, <1>2 DEF Restart, Idle, TypeOK
<1>3. CASE Resync
  BY <1>1, <1>3 DEF Resync, TypeOK
<1>4. CASE \E m \in Machines : ReportAddress(m)
  BY <1>1, <1>4 DEF ReportAddress, TypeOK
<1>5. CASE UNCHANGED vars
  BY <1>5 DEF vars
<1> QED BY <1>2, <1>3, <1>4, <1>5

LEMMA AlwaysProvided == Spec => [](Inv /\ Provided)
<1>1. Init => Inv /\ Provided
  <2> SUFFICES ASSUME Init PROVE Provided
    BY InvInit
  <2> QED
    BY SecretsAssumption
    DEF Init, Idle, Provided, Established, NobodyForgotten, Waiting, ClientSteps
<1>2. Inv /\ Provided /\ [Next]_vars => Inv' /\ Provided'
  <2> SUFFICES ASSUME Inv, Provided, [Next]_vars PROVE Inv' /\ Provided'
    OBVIOUS
  <2>1. Inv' /\ TypeOK'
    BY InvStep DEF Inv
  <2>2. Provided'
    BY <2>1, ProvidedStep, ProvidedFail, ProvidedOthers DEF Next
  <2> QED BY <2>1, <2>2
<1> QED BY <1>1, <1>2, PTL DEF Spec

----------------------------------------------------------------------------
(* The theorems. *)

\* The inductive invariant holds in every behaviour.
THEOREM AlwaysInv == Spec => []Inv
BY InvInit, InvStep, PTL DEF Spec

\* Every variable has its type, for any number of machines, bundles and faults.
THEOREM SecretsTypeCorrect == Spec => []TypeOK
<1>1. Inv => TypeOK
  BY DEF Inv
<1> QED BY <1>1, AlwaysInv, PTL

\* All machines of a cluster, its CA and its talosconfig come from one bundle, however many
\* reconciles race for it, fail half way or are repeated (getSecretsBundle, writeK8sCASecret).
THEOREM AllFromOneBundle == Spec => []OneBundle
<1>1. Inv => OneBundle
  BY DEF Inv
<1> QED BY <1>1, AlwaysInv, PTL

\* No machine can boot before the CA of its cluster is there (genConfigs).
THEOREM CABeforeData == Spec => []DataImpliesCA
<1>1. Inv => DataImpliesCA
  BY DEF Inv
<1> QED BY <1>1, AlwaysInv, PTL

\* Once every event has been handled, every machine has its bootstrap data and the cluster its
\* talosconfig: whatever fails, nobody who needs another reconcile is forgotten (Reconcile).
THEOREM NothingIsForgotten == Spec => []QuietIsProvided
<1>1. Inv /\ Provided => QuietIsProvided
  BY SecretsAssumption
  DEF Inv, TypeOK, Provided, Established, NobodyForgotten, Waiting, Quiet, QuietIsProvided
<1> QED BY <1>1, AlwaysProvided, PTL
=============================================================================
