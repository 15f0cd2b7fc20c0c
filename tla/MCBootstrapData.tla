--------------------------- MODULE MCBootstrapData ---------------------------
(***************************************************************************)
(* A small instance of BootstrapData: a spec without spec.imageFactory,    *)
(* two with the same schematic and a bare minor, and one with a full       *)
(* version.                                                                *)
(***************************************************************************)
EXTENDS BootstrapData

MCSpecs == {"plain", "minor", "minorPatched", "full"}
MCInputsOf == [s \in MCSpecs |-> CASE s = "plain" -> None
                                   [] s \in {"minor", "minorPatched"} -> "v1.14"
                                   [] s = "full" -> "v1.14.2"]
MCBareMinors == {"v1.14"}
=============================================================================
