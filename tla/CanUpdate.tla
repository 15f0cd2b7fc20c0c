------------------------------ MODULE CanUpdate ------------------------------
(***************************************************************************)
(* What can be updated in place: the merge patches the hooks               *)
(* CanUpdateMachine and CanUpdateMachineSet answer with (canupdate.go,     *)
(* patch.go, policy.go of internal/inplace), and what Cluster API makes of *)
(* them: it applies them, and replaces the Machine when the result is not  *)
(* what is desired.                                                        *)
(*                                                                         *)
(* An object is a function from the paths it has to their values: a path   *)
(* is a sequence of field names, and one that has fields below it has the  *)
(* value Object.  A list is a value.  The paths of an object are closed    *)
(* under prefixes, as those of a JSON document are, and whether a path is  *)
(* an object is a matter of its schema.  A kind is a sequence of words.    *)
(***************************************************************************)
EXTENDS Naturals, Sequences, SequencesExt

CONSTANTS
  Names,     \* of fields
  Values,    \* of each object: the paths that may be set, and the values they may be set to
  Fixed,     \* of each object: paths that no update of a running machine can move
  Machines,  \* what a machine may be at first: records of the three objects, and of the kind of
             \* template the infrastructure machine is made from
  Object,    \* the value of a path with fields below it
  Null,      \* in a patch: the path is to be removed
  MaxEdits   \* bound on the edits between two decisions

Path == Seq(Names) \ {<<>>}

Objects == {"machine", "bootstrap", "infra"}

\* An object that is not there: one that is has at least a spec.
Absent == <<>>

VARIABLES
  current,  \* the machine as it is
  desired,  \* the machine as it should be
  edits

vars == <<current, desired, edits>>

----------------------------------------------------------------------------
(* Objects and patches. *)

Below(doc, p) == {q \in DOMAIN doc : IsPrefix(p, q)}
Nested(doc, p) == [q \in Below(doc, p) |-> doc[q]]
Parents(p) == {SubSeq(p, 1, i) : i \in 1 .. Len(p) - 1}

NoPatch == <<>>

Differ(cur, des, p) == Nested(cur, p) # Nested(des, p)

\* The patch that sets each of these paths to what is desired, or removes it.
PatchOf(des, changed) ==
  LET gone == changed \ DOMAIN des
      set == UNION {Below(des, p) : p \in changed \ gone}
  IN  [q \in gone \cup set \cup UNION {Parents(p) : p \in changed} |->
         CASE q \in gone -> Null
           [] q \notin gone /\ q \in DOMAIN des -> des[q]
           [] OTHER -> Object]

\* Variants: a path that is gone is left out of the patch; a listed path takes the whole field of the
\* spec along that it is in.
MergePatchWithoutNull(cur, des, paths) ==
  PatchOf(des, {p \in paths : Differ(cur, des, p) /\ p \in DOMAIN des})
MergePatchForFields(cur, des, paths) ==
  PatchOf(des, {f \in {SubSeq(p, 1, 2) : p \in paths} : Differ(cur, des, f)})

\* Only the listed paths that differ are in the patch.
MergePatchForPaths(cur, des, paths) == PatchOf(des, {p \in paths : Differ(cur, des, p)})

\* An object that is absent on either side yields no patch.
PatchBetween(cur, des, paths) ==
  IF Absent \in {cur, des} THEN NoPatch ELSE MergePatchForPaths(cur, des, paths)

\* RFC 7396: a null removes, an object is merged, anything else replaces.
Patched(doc, patch) ==
  IF doc = Absent THEN Absent
  ELSE LET gone == {q \in DOMAIN doc \cup DOMAIN patch :
                      \E p \in DOMAIN patch : patch[p] = Null /\ IsPrefix(p, q)}
       IN  [q \in (DOMAIN doc \cup DOMAIN patch) \ gone |->
              IF q \in DOMAIN patch THEN patch[q] ELSE doc[q]]

----------------------------------------------------------------------------
(* The policy. *)

machinePaths == {<<"spec", "version">>}

\* Variant: the role of a machine is taken for one more input of its configuration.
talosConfigPathsAndRole ==
  {<<"spec", f>> : f \in {"configPatches", "strategicPatches", "data", "hostname", "talosVersion",
                          "imageFactory", "generateType"}}

talosConfigPaths ==
  {<<"spec", f>> : f \in {"configPatches", "strategicPatches", "data", "hostname", "talosVersion",
                          "imageFactory"}}

\* Of an infrastructure provider that is not known, no path may change.
infraPathsFor(kind) ==
  IF kind = <<"TinkerbellMachine">>
    THEN {<<"spec", "templateInline">>, <<"spec", "templateRef">>, <<"spec", "hardwareAffinity">>,
          <<"spec", "bootOptions", "isoURL">>}
    ELSE {}

Listed(kind) == [machine |-> machinePaths, bootstrap |-> talosConfigPaths,
                 infra |-> infraPathsFor(kind)]

templateSpecPrefix == <<"spec", "template", "spec">>

prefixPaths(paths) == {templateSpecPrefix \o Tail(p) : p \in paths}

NoKind == <<>>

\* What Cluster API makes from a template: a machine of its kind but for the suffix, if it has one.
Stamped(kind) == IF kind # NoKind /\ Last(kind) = "Template" THEN Front(kind) ELSE kind

\* Variant: the policy is looked up by the kind of the template.
templatedGroupKindUncut(kind) == kind

\* A kind without the suffix, or of nothing else, names no machine kind.
templatedGroupKind(kind) ==
  IF Len(kind) > 1 /\ Last(kind) = "Template" THEN Front(kind) ELSE NoKind

DoCanUpdateMachine(cur, des) ==
  [o \in Objects |-> PatchBetween(cur[o], des[o], Listed(Stamped(des.template))[o])]

\* The objects a template keeps under its spec.template.
Template(doc) ==
  IF doc = Absent THEN Absent
  ELSE LET under == {<<"spec", "template">> \o q : q \in DOMAIN doc} IN
       [q \in under \cup {<<"spec">>, <<"spec", "template">>} |->
          IF q \in under THEN doc[SubSeq(q, 3, Len(q))] ELSE Object]

DoCanUpdateMachineSet(cur, des) ==
  [o \in Objects |-> PatchBetween(Template(cur[o]), Template(des[o]),
                                 prefixPaths(Listed(templatedGroupKind(des.template))[o]))]

\* Cluster API: the patched objects have to be the desired ones.
Suffices(cur, des, patches) == \A o \in Objects : Patched(cur[o], patches[o]) = des[o]

InPlace == Suffices(current, desired, DoCanUpdateMachine(current, desired))

----------------------------------------------------------------------------
(* The owner's side. *)

\* What encoding/json makes of an object: its paths are closed under prefixes, and those that lead
\* to a listed path are objects.
IsDocument(doc, paths) ==
  /\ doc = [q \in DOMAIN doc |-> doc[q]]
  /\ DOMAIN doc \subseteq Path
  /\ <<"spec">> \in DOMAIN doc
  /\ \A q \in DOMAIN doc : Parents(q) \subseteq DOMAIN doc /\ doc[q] # Null
  /\ \A l \in paths : \A p \in Parents(l) \cap DOMAIN doc : doc[p] = Object

ASSUME CanUpdateAssumption ==
  /\ {"spec", "template", "generateType"} \subseteq Names
  /\ \A m \in Machines :
       /\ m = [x \in Objects \cup {"template"} |-> m[x]]
       /\ \A o \in Objects :
            /\ Listed(Stamped(m.template))[o] \subseteq Path
            /\ m[o] = Absent \/ IsDocument(m[o], Listed(Stamped(m.template))[o])
  /\ DOMAIN Values = Objects /\ DOMAIN Fixed = Objects
  /\ \A o \in Objects : Fixed[o] \subseteq Path
  /\ \A o \in Objects : \A p \in DOMAIN Values[o] :
       /\ p \in Path
       /\ Null \notin Values[o][p]
       /\ \A m \in Machines : \A l \in Listed(Stamped(m.template))[o] : p \notin Parents(l)
  /\ Object # Null
  /\ MaxEdits \in Nat

\* The machine as it is and as it should be are from one template and have the same objects, and
\* every object is a document.
TypeOK ==
  /\ current.template \in {m.template : m \in Machines}
  /\ desired.template = current.template
  /\ \A machine \in {current, desired} : machine = [x \in Objects \cup {"template"} |-> machine[x]]
  /\ \A o \in Objects :
       \/ current[o] = Absent /\ desired[o] = Absent
       \/ \A machine \in {current, desired} : IsDocument(machine[o], Listed(Stamped(current.template))[o])
  /\ edits \in 0 .. MaxEdits

Init ==
  /\ current \in Machines
  /\ desired = current
  /\ edits = 0

SetField(doc, p, v) ==
  [q \in DOMAIN doc \cup Parents(p) \cup {p} |->
     CASE q = p -> v
       [] q # p /\ q \in DOMAIN doc -> doc[q]
       [] OTHER -> Object]

RemoveField(doc, p) == [q \in DOMAIN doc \ Below(doc, p) |-> doc[q]]

\* A field of the desired objects is set, or removed with all below it.
Edit(o) ==
  /\ edits < MaxEdits
  /\ desired[o] # Absent
  /\ \/ \E p \in DOMAIN Values[o] : \E v \in Values[o][p] :
          desired' = [desired EXCEPT ![o] = SetField(@, p, v)]
     \/ \E p \in DOMAIN desired[o] :
          Len(p) > 1 /\ desired' = [desired EXCEPT ![o] = RemoveField(@, p)]
  /\ edits' = edits + 1
  /\ UNCHANGED current

\* The owner looks at what has been edited: the machine is updated in place, or another takes its
\* place.
Decide ==
  /\ edits > 0
  /\ current' = desired
  /\ edits' = 0
  /\ UNCHANGED desired

UpdateInPlace == InPlace /\ Decide
Replace == ~ InPlace /\ Decide

Next ==
  \/ \E o \in Objects : Edit(o)
  \/ UpdateInPlace
  \/ Replace

Spec == Init /\ [][Next]_vars

----------------------------------------------------------------------------
(* Properties. *)

\* What no update of a running machine can move does not move in place, whatever else is edited
\* with it (talosConfigPaths, infraPolicies).
FixedIsKept ==
  [][UpdateInPlace =>
       \A o \in Objects : \A p \in Fixed[o] :
         current[o] # Absent => Nested(current[o], p) = Nested(current'[o], p)]_vars

Within(p, paths) == \E l \in paths : IsPrefix(l, p)

\* Reference: beyond the listed paths the objects agree, but for what leads to a listed field that is
\* set.
Confined(cur, des, paths) ==
  LET leadsTo(p) == \E l \in paths \cap DOMAIN des : p \in Parents(l)
      same(p) == p \in DOMAIN cur /\ p \in DOMAIN des /\ cur[p] = des[p]
      new(p) == p \notin DOMAIN cur /\ leadsTo(p)
  IN  \A p \in DOMAIN cur \cup DOMAIN des : Within(p, paths) \/ same(p) \/ new(p)

\* Nothing below a listed path is dropped, unless the path itself is.
DropsWhole(cur, des, paths) == \A l \in paths \cap DOMAIN des : Below(cur, l) \subseteq Below(des, l)

Present == {o \in Objects : current[o] # Absent}
ListedOf(o) == Listed(Stamped(desired.template))[o]

\* Nothing but what is listed has been edited; and that without dropping part of it.
OnlyListed == \A o \in Present : Confined(current[o], desired[o], ListedOf(o))
NoneInPart == \A o \in Present : DropsWhole(current[o], desired[o], ListedOf(o))

\* An update in place changes nothing but what the policy lists; a field beside a listed one, in an
\* object that is not listed, is not moved along with it (mergePatchForPaths, setNested).
OnlyListedInPlace == InPlace => OnlyListed

\* Listed fields that are set, changed or cleared, in any combination, are updated in place, as long
\* as no object among them is left with fewer fields (mergePatchForPaths).
SetOrClearedInPlace == OnlyListed /\ NoneInPart => InPlace

\* The patch moves the listed paths to their desired values, so that an edit confined to them is
\* made in place.
ListedEditsInPlace == OnlyListed => InPlace

\* A MachineSet is answered as the Machine it stamps out would be; but when its infrastructure
\* template is not of a kind that names a machine kind, no infrastructure change is in place
\* (DoCanUpdateMachineSet, templatedGroupKind).
TemplatesAgree ==
  LET cur == [o \in Objects |-> Template(current[o])]
      des == [o \in Objects |-> Template(desired[o])]
  IN  Suffices(cur, des, DoCanUpdateMachineSet(current, desired)) <=>
        /\ InPlace
        /\ templatedGroupKind(desired.template) = NoKind => current["infra"] = desired["infra"]
=============================================================================
