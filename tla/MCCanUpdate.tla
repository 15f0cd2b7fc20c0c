----------------------------- MODULE MCCanUpdate -----------------------------
(***************************************************************************)
(* A small instance of CanUpdate: of each object a listed value, a listed  *)
(* object with two fields, a listed field of an object that is not, and    *)
(* fields that are not listed.                                             *)
(***************************************************************************)
EXTENDS CanUpdate, Functions

MCNames ==
  {"spec", "template", "generateType", "version", "providerID", "name", "namespace",
   "imageFactory", "extensions", "overlay", "templateRef", "bootOptions", "isoURL", "bootMode",
   "templateInline", "hardwareAffinity", "configPatches", "strategicPatches", "data", "hostname",
   "talosVersion"}

S(f) == <<"spec", f>>
SS(f, g) == <<"spec", f, g>>

MCValues ==
  [machine |-> S("version") :> {1, 2} @@ S("providerID") :> {1},
   bootstrap |-> S("generateType") :> {1, 2}
                 @@ SS("imageFactory", "extensions") :> {1} @@ SS("imageFactory", "overlay") :> {1},
   infra |-> SS("templateRef", "name") :> {1} @@ SS("templateRef", "namespace") :> {1}
             @@ SS("bootOptions", "isoURL") :> {1} @@ SS("bootOptions", "bootMode") :> {1}]

MCFixed ==
  [machine |-> {S("providerID")}, bootstrap |-> {S("generateType")},
   infra |-> {SS("bootOptions", "bootMode")}]

Empty == <<"spec">> :> Object

MachineOf(template, bootstrap) ==
  [template |-> template, machine |-> Empty, bootstrap |-> bootstrap, infra |-> Empty]

\* A provider the policy knows; one it does not, whose machine has no bootstrap config; a machine
\* kind in place of a template; and a template of templates.
MCMachines ==
  {MachineOf(<<"TinkerbellMachine", "Template">>, SetField(Empty, S("generateType"), 1)),
   MachineOf(<<"OtherMachine", "Template">>, Absent),
   MachineOf(<<"TinkerbellMachine">>, Absent),
   MachineOf(<<"TinkerbellMachine", "Template", "Template">>, Absent)}
=============================================================================
