---------------------------- MODULE MCMachinePool ----------------------------
(***************************************************************************)
(* Small instances of MachinePool: two members, one of which joins, and a  *)
(* spec edited from a to b and to c, where the nodes refuse b, or from a   *)
(* to b and back.                                                          *)
(***************************************************************************)
EXTENDS MachinePool

CONSTANTS a, b, c   \* configurations

Onward == {<<a, b>>, <<a, c>>, <<b, c>>}
Back == {<<a, b>>, <<b, a>>}
=============================================================================
