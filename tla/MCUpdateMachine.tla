--------------------------- MODULE MCUpdateMachine ---------------------------
(***************************************************************************)
(* Small instances of UpdateMachine.  Version tags, images, configurations *)
(* and static pods are short strings; what differs between the runs is     *)
(* given in their cfg files.                                               *)
(***************************************************************************)
EXTENDS UpdateRefinement

CONSTANT Mix   \* which configurations the instance has

\* Two versions of Talos with the lifecycle service, and one without.
MCTags == {"v1.12", "v1.13", "v1.14"}
MCLifecycleTags == {"v1.13", "v1.14"}

\* "13x" is 1.13 with another schematic, "old" a 1.12; "latest" carries no version.
MCImages == {"old", "13", "13x", "14", "latest"}
MCFloating == {"latest"}
MCTagOf == [i \in MCImages |-> CASE i = "old" -> "v1.12"
                                 [] i \in {"13", "13x"} -> "v1.13"
                                 [] i \in {"14", "latest"} -> "v1.14"]

\* A configuration is named for its image and, after the dot, its kube-apiserver pod.
MCConfigs == CASE Mix = "versions"  -> {"old.a", "13.a", "14.a", "latest.a"}
               [] Mix = "upgrade"   -> {"13.a", "14.a"}
               [] Mix = "schematic" -> {"13.a", "13x.a"}
               [] Mix = "apiserver" -> {"13.a", "13.b", "13.x"}
               [] Mix = "both"      -> {"13.a", "14.a", "14.b", "14.x"}

MCImageOf == [c \in MCConfigs |-> CASE c = "old.a" -> "old"
                                    [] c \in {"13.a", "13.b", "13.x"} -> "13"
                                    [] c = "13x.a" -> "13x"
                                    [] c \in {"14.a", "14.b", "14.x"} -> "14"
                                    [] c = "latest.a" -> "latest"]
MCPods == {"a", "b", "x"}
MCBroken == {"x"}
MCPodOf == [c \in MCConfigs |-> CASE c \in {"13.b", "14.b"} -> "b"
                                  [] c \in {"13.x", "14.x"} -> "x"
                                  [] OTHER -> "a"]
=============================================================================
