------------------------------ MODULE TalosNode ------------------------------
(***************************************************************************)
(* One Talos node, as the in-place update drives it through NodeClient     *)
(* (internal/inplace/talos.go).  Talos, the kubelet and kube-apiserver are *)
(* not part of the repository: what they do here is what the code in       *)
(* internal/inplace says of them and relies on.                            *)
(*                                                                         *)
(* Time is counted in units of five seconds, and only where the code       *)
(* depends on how long the node takes: Talos re-renders the kube-apiserver *)
(* static pod within TalosLag of a configuration, and the kubelet replaces *)
(* the running pod within KubeletLag of a re-render.                       *)
(***************************************************************************)
EXTENDS Naturals

CONSTANTS
  Configs,       \* rendered machine configurations
  Images,        \* installer images
  Tags,          \* Talos versions
  Pods,          \* kube-apiserver static pods
  ImageOf,       \* the installer image a configuration names
  PodOf,         \* the static pod Talos renders for a configuration
  TagOf,         \* the Talos version an installer image installs
  Broken,        \* the static pods kube-apiserver cannot start on
  ControlPlane,  \* does the node run a kube-apiserver
  TalosLag,
  KubeletLag,
  None           \* no configuration, image, pod or record

ASSUME NodeAssumption ==
  /\ ImageOf \in [Configs -> Images]
  /\ PodOf \in [Configs -> Pods]
  /\ TagOf \in [Images -> Tags]
  /\ Broken \subseteq Pods
  /\ ControlPlane \in BOOLEAN
  /\ TalosLag \in Nat
  /\ KubeletLag \in Nat
  /\ None \notin Configs \cup Images \cup Tags \cup Pods

VARIABLES
  up,         \* does the Talos API answer
  config,     \* the configuration Talos accepted last
  running,    \* the image the node runs
  installed,  \* the image it boots next
  selfUpgrade,\* the image a machine-service upgrade is installing, or None
  rendered,   \* version of the static pod resource, 0 while there is none
  pod,        \* the static pod rendered
  container,  \* the pod the running kube-apiserver container was started from
  started,    \* how many kube-apiserver containers were started
  ready,      \* does the running pod have the Ready condition
  renderAge,  \* time since Talos accepted a configuration it has not rendered
  kubeletAge  \* time since a re-render the kubelet has not acted upon

apiVars  == <<rendered, pod, container, started, ready, renderAge, kubeletAge>>
nodeVars == <<up, config, running, installed, selfUpgrade, apiVars>>

NodeFlagsOK == up \in BOOLEAN /\ ready \in BOOLEAN

NodeDataOK ==
  /\ config \in Configs
  /\ running \in Images
  /\ installed \in Images
  /\ selfUpgrade \in Images \cup {None}
  /\ rendered \in Nat
  /\ pod \in Pods \cup {None}
  /\ container \in Pods \cup {None}
  /\ started \in Nat
  /\ renderAge \in 0 .. TalosLag
  /\ kubeletAge \in 0 .. KubeletLag

NodeTypeOK == NodeFlagsOK /\ NodeDataOK

\* A node that has been running configuration c, and the image it names, for long.
NodeInit(c) ==
  /\ up = TRUE
  /\ config = c
  /\ running = ImageOf[c]
  /\ installed = ImageOf[c]
  /\ selfUpgrade = None
  /\ IF ControlPlane
       THEN rendered = 1 /\ pod = PodOf[c] /\ container = PodOf[c] /\ started = 1 /\ ready = TRUE
       ELSE rendered = 0 /\ pod = None /\ container = None /\ started = 0 /\ ready = FALSE
  /\ renderAge = 0
  /\ kubeletAge = 0

\* Talos has to re-render a static pod that exists; the kubelet has to replace one that runs.
RenderPending  == up /\ pod # None /\ pod # PodOf[config]
ReplacePending == up /\ container # None /\ container # pod

\* What NodeClient.APIServer reports, having read the static pod at version v before it lists the
\* status of the pod that runs: the start time of a container that does not run is zero.
APIServer(v) ==
  [rendered |-> v, started |-> IF container = None THEN 0 ELSE started, ready |-> ready]
APIServerStates == [rendered : Nat, started : Nat, ready : BOOLEAN]

\* The node is going down: everything that lives in its memory is lost.
GoDown ==
  /\ up' = FALSE
  /\ rendered' = 0
  /\ pod' = None
  /\ container' = None
  /\ ready' = FALSE
  /\ renderAge' = 0
  /\ kubeletAge' = 0
  /\ UNCHANGED started

\* ApplyConfiguration in AUTO mode: Talos decides whether a changed configuration reboots.
AcceptConfig(c) ==
  /\ up
  /\ config' = c
  /\ \/ /\ renderAge' = IF c = config THEN renderAge ELSE 0
        /\ UNCHANGED <<up, rendered, pod, container, started, ready, kubeletAge>>
     \/ c # config /\ GoDown
  /\ UNCHANGED <<running, installed, selfUpgrade>>

\* The machine service's upgrade: the node installs and reboots on its own.
AcceptUpgrade(i) ==
  /\ up
  /\ selfUpgrade' = IF selfUpgrade = None THEN i ELSE selfUpgrade
  /\ UNCHANGED <<up, config, running, installed, apiVars>>

InstallImage(i) ==
  /\ up
  /\ installed' = i
  /\ UNCHANGED <<up, config, running, selfUpgrade, apiVars>>

Reboot ==
  /\ up
  /\ GoDown
  /\ UNCHANGED <<config, running, installed, selfUpgrade>>

----------------------------------------------------------------------------
(* Steps of the node itself. *)

SelfUpgrade ==
  /\ up
  /\ selfUpgrade # None
  /\ installed' = selfUpgrade
  /\ selfUpgrade' = None
  /\ GoDown
  /\ UNCHANGED <<config, running>>

Boot ==
  /\ ~up
  /\ up' = TRUE
  /\ running' = installed
  /\ selfUpgrade' = None
  /\ UNCHANGED <<config, installed, apiVars>>

\* The new image does not come up and Talos falls back to the one that ran before.
FallBack ==
  /\ ~up
  /\ installed # running
  /\ up' = TRUE
  /\ installed' = running
  /\ selfUpgrade' = None
  /\ UNCHANGED <<config, running, apiVars>>

RenderPod ==
  /\ ControlPlane
  /\ up
  /\ pod # PodOf[config]
  /\ pod' = PodOf[config]
  /\ rendered' = rendered + 1
  /\ renderAge' = 0
  /\ kubeletAge' = 0
  /\ UNCHANGED <<up, config, running, installed, selfUpgrade, container, started, ready>>

StopContainer ==
  /\ ReplacePending
  /\ container' = None
  /\ ready' = FALSE
  /\ kubeletAge' = 0
  /\ UNCHANGED <<up, config, running, installed, selfUpgrade, rendered, pod, started, renderAge>>

StartContainer ==
  /\ up
  /\ pod # None
  /\ container = None
  /\ container' = pod
  /\ started' = started + 1
  /\ UNCHANGED <<up, config, running, installed, selfUpgrade, rendered, pod, ready, renderAge,
                 kubeletAge>>

BecomeReady ==
  /\ up
  /\ container # None
  /\ container \notin Broken
  /\ ~ready
  /\ ready' = TRUE
  /\ UNCHANGED <<up, config, running, installed, selfUpgrade, rendered, pod, container, started,
                 renderAge, kubeletAge>>

\* The lags are upper bounds: time does not pass a deadline before the step it is for.
NodeTick ==
  /\ RenderPending => renderAge < TalosLag
  /\ ReplacePending => kubeletAge < KubeletLag
  /\ renderAge' = IF RenderPending THEN renderAge + 1 ELSE renderAge
  /\ kubeletAge' = IF ReplacePending THEN kubeletAge + 1 ELSE kubeletAge
  /\ UNCHANGED <<up, config, running, installed, selfUpgrade, rendered, pod, container, started,
                 ready>>

NodeStep ==
  \/ SelfUpgrade
  \/ Boot
  \/ RenderPod
  \/ StopContainer
  \/ StartContainer
  \/ BecomeReady

\* Does the node's API server run what configuration c makes of it.
Absorbed(c) == up /\ container = PodOf[c] /\ ready
=============================================================================
