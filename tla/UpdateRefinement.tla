--------------------------- MODULE UpdateRefinement ---------------------------
(***************************************************************************)
(* The hook implements the contract.  A worker serves as far as the hook   *)
(* is concerned; a control plane machine serves once its kube-apiserver    *)
(* runs, and is ready, on what the desired configuration makes of it.      *)
(***************************************************************************)
EXTENDS UpdateMachine

Contract == INSTANCE UpdateContract WITH serving <- ~ControlPlane \/ Absorbed(desired)

\* Every behaviour of the hook, its node and its faults is one the contract allows
\* (DoUpdateMachine and everything it relies on).
ImplementsContract == Contract!Spec
=============================================================================
