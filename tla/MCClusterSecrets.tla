-------------------------- MODULE MCClusterSecrets --------------------------
(***************************************************************************)
(* Small instances of ClusterSecrets.                                      *)
(***************************************************************************)
EXTENDS ClusterSecrets

CONSTANTS m1, m2, w1   \* machines: two of the control plane, and a worker

MCMachines == {m1, m2, w1}
MCControlPlanes == {m1, m2}

=============================================================================
