---------------------------- MODULE UpdateContract ----------------------------
(***************************************************************************)
(* What an in-place update of one machine promises its owner, with nothing *)
(* of how the hook brings it about: what the owner asks for, what the node *)
(* accepted and runs, and whether it serves.                               *)
(***************************************************************************)
CONSTANTS Configs, ImageOf, TagOf, Floating

VARIABLES
  desired,   \* the configuration the owner wants
  updating,  \* does the owner wait for the update
  deleting,  \* is the machine on its way out
  config,    \* the configuration the node accepted last
  running,   \* the installer image the node runs
  serving    \* does the node serve what the owner counts on, as desired wants it

cvars == <<desired, updating, deleting, config, running, serving>>

Init ==
  /\ desired \in Configs
  /\ config = desired
  /\ running = ImageOf[desired]
  /\ updating = FALSE
  /\ deleting = FALSE
  /\ serving \in BOOLEAN

\* Whether the node serves comes and goes with whatever else happens.
Ask ==
  /\ ~updating
  /\ ~deleting
  /\ updating' = TRUE
  /\ desired' \in Configs
  /\ serving' \in BOOLEAN
  /\ UNCHANGED <<deleting, config, running>>

\* The node changes only towards what the owner asked for, and only while it is asked to.
Deliver ==
  /\ updating
  /\ config' = desired
  /\ serving' \in BOOLEAN
  /\ UNCHANGED <<desired, updating, deleting, running>>

Upgrade ==
  /\ updating
  /\ running' = ImageOf[desired]
  /\ serving' \in BOOLEAN
  /\ UNCHANGED <<desired, updating, deleting, config>>

Serve ==
  /\ serving' \in BOOLEAN
  /\ UNCHANGED <<desired, updating, deleting, config, running>>

\* The owner may go on to the next machine: this one has all it was asked for, and serves.
Complete ==
  /\ updating
  /\ config = desired
  /\ ImageOf[desired] \in Floating \/ TagOf[running] = TagOf[ImageOf[desired]]
  /\ serving
  /\ updating' = FALSE
  /\ UNCHANGED <<desired, deleting, config, running, serving>>

Remove ==
  /\ deleting' = TRUE
  /\ UNCHANGED <<desired, updating, config, running, serving>>

Next == Ask \/ Deliver \/ Upgrade \/ Serve \/ Complete \/ Remove

Spec == Init /\ [][Next]_cvars
=============================================================================
