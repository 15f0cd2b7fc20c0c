---------------------------- MODULE ClusterSecrets ----------------------------
(***************************************************************************)
(* The secrets all machines of a cluster share, made by whichever of their *)
(* reconciles comes first: the secrets bundle (getSecretsBundle), the CA   *)
(* (writeK8sCASecret) and the talosconfig with the addresses of the        *)
(* control plane (reconcileClientConfig), all of controllers/secrets.go.   *)
(*                                                                         *)
(* There is a TalosConfig, and at most one reconcile at a time, for each   *)
(* machine; reconciles of different machines overlap.  Every secret is     *)
(* read from the API server, never from a cache.  A bundle that NewBundle  *)
(* returns is one that nobody holds; one that nobody holds any more may be *)
(* returned again, which nobody can tell.  "addressed" and "data" are what *)
(* the caches show: what they do not show yet has not happened here.       *)
(***************************************************************************)
EXTENDS Naturals

CONSTANTS
  Machines,      \* the machines of the cluster
  ControlPlanes, \* those of the control plane
  Bundles,       \* secrets bundles that may be generated
  None,
  MaxFaults      \* bound on failing or unanswered writes and reads, and restarts

ASSUME SecretsAssumption ==
  /\ ControlPlanes \subseteq Machines
  /\ None \notin Bundles
  /\ MaxFaults \in Nat

\* None is no talosconfig either.
ASSUME NoneAssumption == None \notin [bundle : Bundles, endpoints : SUBSET ControlPlanes]

VARIABLES
  bundle,     \* the bundle in secret <cluster>-talos, or None
  ca,         \* the bundle the CA in secret <cluster>-ca is of, or None
  client,     \* secret <cluster>-talosconfig, or None
  data,       \* of each machine: the bundle its bootstrap data is rendered from, or None
  ready,      \* the machines whose TalosConfig says that the data has been created
  addressed,  \* the control plane machines that have reported an address
  queued,     \* the TalosConfigs in the work queue
  rec,        \* the reconcile of each machine: where it is, and what it has read
  reported,   \* the machines whose ClientConfigAvailable condition is true
  faults

vars == <<bundle, ca, client, data, ready, addressed, queued, rec, reported, faults>>

ClientConfigs == [bundle : Bundles, endpoints : SUBSET ControlPlanes]

\* current: does the talosconfig still have the resource version the reconcile has read.
Reconciles == [at : {"idle", "load", "create", "ca", "createCA", "data", "list", "bundle", "get",
                     "createClient", "update"},
               bundle : Bundles \cup {None},
               endpoints : SUBSET ControlPlanes,
               current : BOOLEAN]

Idle == [at |-> "idle", bundle |-> None, endpoints |-> {}, current |-> FALSE]

\* Every variable has its type.
TypeOK ==
  /\ bundle \in Bundles \cup {None}
  /\ ca \in Bundles \cup {None}
  /\ client \in ClientConfigs \cup {None}
  /\ data \in [Machines -> Bundles \cup {None}]
  /\ ready \subseteq Machines
  /\ addressed \subseteq ControlPlanes
  /\ queued \subseteq Machines
  /\ rec \in [Machines -> Reconciles]
  /\ reported \subseteq ControlPlanes
  /\ faults \in 0 .. MaxFaults

Init ==
  /\ bundle = None
  /\ ca = None
  /\ client = None
  /\ data = [m \in Machines |-> None]
  /\ ready = {}
  /\ addressed = {}
  /\ queued = Machines
  /\ rec = [m \in Machines |-> Idle]
  /\ reported = {}
  /\ faults = 0

----------------------------------------------------------------------------
(* A reconcile. *)

Goto(m, at) == rec' = [rec EXCEPT ![m].at = at]
Done(m) == rec' = [rec EXCEPT ![m] = Idle]

\* Variant: a worker sees to the talosconfig too.
StartAnyRole(m) ==
  /\ rec[m].at = "idle"
  /\ m \in queued
  /\ queued' = queued \ {m}
  /\ Goto(m, IF m \in ready THEN "list" ELSE "load")
  /\ UNCHANGED <<bundle, ca, client, data, ready, addressed, reported, faults>>

\* A TalosConfig that is not ready gets its data; one that is sees to the talosconfig, if it is of
\* the control plane.
Start(m) ==
  /\ rec[m].at = "idle"
  /\ m \in queued
  /\ queued' = queued \ {m}
  /\ Goto(m, CASE m \notin ready -> "load"
               [] m \in ready \cap ControlPlanes -> "list"
               [] OTHER -> "idle")
  /\ UNCHANGED <<bundle, ca, client, data, ready, addressed, reported, faults>>

\* The bundles somebody holds; no secret refers to one that is not the cluster's.
Held == {bundle} \cup {rec[m].bundle : m \in Machines}

\* getSecretsBundle: the bundle of the cluster, or one generated to become it.
LoadBundle(m) ==
  /\ rec[m].at = "load"
  /\ IF bundle # None
       THEN rec' = [rec EXCEPT ![m].bundle = bundle, ![m].at = "ca"]
       ELSE \E b \in Bundles \ Held :
              rec' = [rec EXCEPT ![m].bundle = b, ![m].at = "create"]
  /\ UNCHANGED <<bundle, ca, client, data, ready, addressed, queued, reported, faults>>

\* Variant: the loser of the race to create the bundle goes on with its own.
CreateBundleKeepsOwn(m) ==
  /\ rec[m].at = "create"
  /\ bundle' = IF bundle = None THEN rec[m].bundle ELSE bundle
  /\ Goto(m, "ca")
  /\ UNCHANGED <<ca, client, data, ready, addressed, queued, reported, faults>>

\* The first to create the bundle wins; the others go back and load it.
CreateBundle(m) ==
  /\ rec[m].at = "create"
  /\ IF bundle = None
       THEN bundle' = rec[m].bundle /\ Goto(m, "ca")
       ELSE UNCHANGED bundle /\ Goto(m, "load")
  /\ UNCHANGED <<ca, client, data, ready, addressed, queued, reported, faults>>

\* writeK8sCASecret: a CA that exists is left alone, whoever made it and when.
LookForCA(m) ==
  /\ rec[m].at = "ca"
  /\ Goto(m, IF ca = None THEN "createCA" ELSE "data")
  /\ UNCHANGED <<bundle, ca, client, data, ready, addressed, queued, reported, faults>>

\* Variant: a failure to create the CA is not one of the reconcile.
PutCAMaybe(m) == ca' \in {ca, IF ca = None THEN rec[m].bundle ELSE ca}

PutCA(m) == ca' = IF ca = None THEN rec[m].bundle ELSE ca

CreateCA(m) ==
  /\ rec[m].at = "createCA"
  /\ PutCA(m)
  /\ Goto(m, "data")
  /\ UNCHANGED <<bundle, client, data, ready, addressed, queued, reported, faults>>

\* Bootstrap data that is there is left as it is.
PutData(m) == data' = [data EXCEPT ![m] = IF @ = None THEN rec[m].bundle ELSE @]

\* The bootstrap data is written, and the status that says so brings the next reconcile.
WriteData(m) ==
  /\ rec[m].at = "data"
  /\ PutData(m)
  /\ ready' = ready \cup {m}
  /\ queued' = queued \cup {m}
  /\ Done(m)
  /\ UNCHANGED <<bundle, ca, client, addressed, reported, faults>>

\* reconcileClientConfig: first the addresses, then the bundle, then the secret.
ListMachines(m) ==
  /\ rec[m].at = "list"
  /\ rec' = [rec EXCEPT ![m].endpoints = addressed, ![m].at = "bundle"]
  /\ UNCHANGED <<bundle, ca, client, data, ready, addressed, queued, reported, faults>>

\* A bundle that is missing is an error here, not something to generate.
LoadBundleAgain(m) ==
  /\ rec[m].at = "bundle"
  /\ bundle # None
  /\ rec' = [rec EXCEPT ![m].bundle = bundle, ![m].at = "get"]
  /\ UNCHANGED <<bundle, ca, client, data, ready, addressed, queued, reported, faults>>

GetClient(m) ==
  /\ rec[m].at = "get"
  /\ rec' = [rec EXCEPT ![m].at = IF client = None THEN "createClient" ELSE "update",
                        ![m].current = client # None]
  /\ UNCHANGED <<bundle, ca, client, data, ready, addressed, queued, reported, faults>>

ClientConfigOf(m) == [bundle |-> rec[m].bundle, endpoints |-> rec[m].endpoints]

\* Every write has a client certificate of its own, so that it makes what every other reconcile has
\* read of the secret outdated, the endpoints being the same or not.
PutClient(m) ==
  /\ client' = ClientConfigOf(m)
  /\ rec' = [n \in Machines |-> IF n = m THEN Idle ELSE [rec[n] EXCEPT !.current = FALSE]]

\* The condition is set to true; when it was not, that change of the TalosConfig enqueues it.
Report(m) ==
  /\ reported' = reported \cup {m}
  /\ queued' = IF m \in reported THEN queued ELSE queued \cup {m}

CreateClient(m) ==
  /\ rec[m].at = "createClient"
  /\ client = None
  /\ PutClient(m)
  /\ Report(m)
  /\ UNCHANGED <<bundle, ca, data, ready, addressed, faults>>

\* A secret created meanwhile is an error, which shows in the condition, and is retried.
CreateClientTooLate(m) ==
  /\ rec[m].at = "createClient"
  /\ client # None
  /\ Done(m)
  /\ reported' = reported \ {m}
  /\ queued' = queued \cup {m}
  /\ UNCHANGED <<bundle, ca, client, data, ready, addressed, faults>>

\* Variant: a talosconfig that exists is left as it is.
UpdateClientNot(m) ==
  /\ rec[m].at = "update"
  /\ Done(m)
  /\ Report(m)
  /\ UNCHANGED <<bundle, ca, client, data, ready, addressed, faults>>

\* A conflict is ignored.
UpdateClient(m) ==
  /\ rec[m].at = "update"
  /\ IF rec[m].current THEN PutClient(m) ELSE Done(m) /\ UNCHANGED client
  /\ Report(m)
  /\ UNCHANGED <<bundle, ca, data, ready, addressed, faults>>

Step(m) ==
  \/ Start(m)
  \/ LoadBundle(m)
  \/ CreateBundle(m)
  \/ LookForCA(m)
  \/ CreateCA(m)
  \/ WriteData(m)
  \/ ListMachines(m)
  \/ LoadBundleAgain(m)
  \/ GetClient(m)
  \/ CreateClient(m)
  \/ CreateClientTooLate(m)
  \/ UpdateClient(m)

----------------------------------------------------------------------------
(* What happens around the reconciles. *)

\* A machine that has booted reports its address, and its TalosConfig is enqueued.
ReportAddress(m) ==
  /\ m \in ControlPlanes \ addressed
  /\ data[m] # None
  /\ addressed' = addressed \cup {m}
  /\ queued' = queued \cup {m}
  /\ UNCHANGED <<bundle, ca, client, data, ready, rec, reported, faults>>

Fault == faults < MaxFaults /\ faults' = faults + 1

\* Variant: a reconcile that fails is not retried.
RequeueNot(m) == UNCHANGED queued

\* A reconcile that fails is retried.
Requeue(m) == queued' = queued \cup {m}

ClientSteps == {"list", "bundle", "get", "createClient", "update"}

\* What a failing call may have done all the same.
LostAnswer(m) ==
  \/ rec[m].at = "create" /\ bundle = None /\ bundle' = rec[m].bundle /\ UNCHANGED <<ca, data>>
  \/ rec[m].at = "createCA" /\ PutCA(m) /\ UNCHANGED <<bundle, data>>
  \/ rec[m].at = "data" /\ PutData(m) /\ UNCHANGED <<bundle, ca>>

\* A call fails, or takes effect and its answer is lost.
FailStep(m) ==
  /\ Fault
  /\ rec[m].at # "idle"
  /\ \/ Done(m) /\ UNCHANGED <<bundle, ca, client, data>>
     \/ Done(m) /\ LostAnswer(m) /\ UNCHANGED client
     \/ /\ \/ rec[m].at = "createClient" /\ client = None
           \/ rec[m].at = "update" /\ rec[m].current
        /\ PutClient(m)
        /\ UNCHANGED <<bundle, ca, data>>
  /\ reported' = IF rec[m].at \in ClientSteps THEN reported \ {m} ELSE reported
  /\ Requeue(m)
  /\ UNCHANGED <<ready, addressed>>

\* The controller restarts and reconciles every TalosConfig.
Restart ==
  /\ Fault
  /\ rec' = [m \in Machines |-> Idle]
  /\ queued' = Machines
  /\ UNCHANGED <<bundle, ca, client, data, ready, addressed, reported>>

\* Every event has been handled.
Quiet == queued = {} /\ \A m \in Machines : rec[m].at = "idle"

\* The caches are resynced every ten hours, which enqueues every TalosConfig.
Resync ==
  /\ Quiet
  /\ queued' = Machines
  /\ UNCHANGED <<bundle, ca, client, data, ready, addressed, rec, reported, faults>>

Next ==
  \/ \E m \in Machines : Step(m) \/ ReportAddress(m) \/ FailStep(m)
  \/ Restart
  \/ Resync

Spec == Init /\ [][Next]_vars

\* The work queue is served by ten workers, so every reconcile goes on; machines boot; the caches
\* are resynced.
FairSpec ==
  /\ Spec
  /\ \A m \in Machines : WF_vars(Step(m)) /\ WF_vars(ReportAddress(m))
  /\ WF_vars(Resync)

----------------------------------------------------------------------------
(* Properties. *)

\* All machines of a cluster, its CA and its talosconfig come from one bundle, whichever reconciles
\* raced for it, failed half way or were repeated (getSecretsBundle, writeK8sCASecret).
OneBundle ==
  /\ \A m \in Machines : data[m] # None => data[m] = bundle
  /\ ca # None => ca = bundle
  /\ client # None => client.bundle = bundle

\* A machine that can boot belongs to a cluster whose kubeconfig can be generated (genConfigs).
DataImpliesCA == \A m \in Machines : data[m] # None => ca # None

\* Once every event has been handled, every machine has its bootstrap data and the cluster its
\* talosconfig: no failure, conflict or lost answer drops a machine from the queue for good
\* (Reconcile).
QuietIsProvided ==
  Quiet => /\ ready = Machines
           /\ \A m \in Machines : data[m] # None
           /\ ControlPlanes # {} => client # None

\* The talosconfig comes to list every address of the control plane and stays so, though a reconcile
\* that has listed them earlier may write last, and one that has listed them later may lose its
\* write to a conflict (reconcileClientConfig): the next resync is what puts it right.
EndpointsConverge ==
  ControlPlanes # {} => <>[](client # None /\ client.endpoints = ControlPlanes)
=============================================================================
