--------------------------- MODULE CanUpdateProofs ---------------------------
(***************************************************************************)
(* Proofs about CanUpdate: an update is in place exactly when the edit is  *)
(* confined to the listed paths, templates are answered as what they stamp *)
(* out, and what the policy does not list is never edited in place.        *)
(*                                                                         *)
(* All of it rests on two facts.  An object is a document: with a path it  *)
(* holds every path the path lies below, as an object.  Listed paths are   *)
(* apart: none lies below another.  Then the patch the hook answers with   *)
(* is what the two objects differ in below the listed paths, and applying  *)
(* it moves the current object there and nowhere else.                     *)
(***************************************************************************)
EXTENDS CanUpdate, SequenceTheorems, TLAPS

----------------------------------------------------------------------------
(* IsPrefix and Parents. *)

LEMMA PrefixPointwise ==
  ASSUME NEW s \in Seq(Names), NEW t \in Seq(Names)
  PROVE  IsPrefix(s, t) <=> Len(s) <= Len(t) /\ \A i \in 1 .. Len(s) : s[i] = t[i]
<1>1. Len(s) \in Nat /\ Len(t) \in Nat
  OBVIOUS
<1>2. CASE Len(s) <= Len(t)
  <2>1. /\ SubSeq(s, 1, Len(s)) \in Seq(Names)
        /\ SubSeq(t, 1, Len(s)) \in Seq(Names)
        /\ Len(SubSeq(s, 1, Len(s))) = Len(s)
        /\ Len(SubSeq(t, 1, Len(s))) = Len(s)
    BY <1>1, <1>2
  <2>2. \A i \in 1 .. Len(s) : SubSeq(s, 1, Len(s))[i] = s[i] /\ SubSeq(t, 1, Len(s))[i] = t[i]
    BY <1>1, <1>2
  <2> QED
    BY <1>1, <1>2, <2>1, <2>2 DEF IsPrefix
<1>3. CASE ~(Len(s) <= Len(t))
  BY <1>3 DEF IsPrefix
<1> QED BY <1>2, <1>3

LEMMA PrefixReflexive ==
  ASSUME NEW s \in Seq(Names)
  PROVE  IsPrefix(s, s)
BY PrefixPointwise

LEMMA PrefixTransitive ==
  ASSUME NEW s \in Seq(Names), NEW t \in Seq(Names), NEW u \in Seq(Names),
         IsPrefix(s, t), IsPrefix(t, u)
  PROVE  IsPrefix(s, u)
<1>1. Len(s) \in Nat /\ Len(t) \in Nat /\ Len(u) \in Nat
  OBVIOUS
<1> QED BY <1>1, PrefixPointwise

LEMMA PrefixesCompare ==
  ASSUME NEW s \in Seq(Names), NEW t \in Seq(Names), NEW u \in Seq(Names),
         IsPrefix(s, u), IsPrefix(t, u)
  PROVE  IsPrefix(s, t) \/ IsPrefix(t, s)
<1>1. Len(s) \in Nat /\ Len(t) \in Nat /\ Len(u) \in Nat
  OBVIOUS
<1>2. CASE Len(s) <= Len(t)
  BY <1>1, <1>2, PrefixPointwise
<1>3. CASE Len(t) <= Len(s)
  BY <1>1, <1>3, PrefixPointwise
<1> QED BY <1>1, <1>2, <1>3

LEMMA PrefixAntisymmetric ==
  ASSUME NEW s \in Seq(Names), NEW t \in Seq(Names), IsPrefix(s, t), IsPrefix(t, s)
  PROVE  s = t
<1>1. Len(s) \in Nat /\ Len(t) \in Nat /\ Len(s) = Len(t)
  BY PrefixPointwise
<1> QED BY <1>1, PrefixPointwise

\* The parents of a path are its prefixes, but for itself and the empty one.
LEMMA ParentsArePrefixes ==
  ASSUME NEW t \in Seq(Names)
  PROVE  Parents(t) = {s \in Path : IsPrefix(s, t) /\ s # t}
<1>0. Len(t) \in Nat
  OBVIOUS
<1>1. ASSUME NEW i \in 1 .. Len(t) - 1
      PROVE  SubSeq(t, 1, i) \in Path /\ IsPrefix(SubSeq(t, 1, i), t) /\ SubSeq(t, 1, i) # t
  <2>1. SubSeq(t, 1, i) \in Seq(Names) /\ Len(SubSeq(t, 1, i)) = i
    BY <1>0
  <2>2. \A j \in 1 .. i : SubSeq(t, 1, i)[j] = t[j]
    BY <1>0
  <2>3. SubSeq(t, 1, i) # <<>> /\ SubSeq(t, 1, i) # t
    BY <1>0, <2>1
  <2>4. IsPrefix(SubSeq(t, 1, i), t)
    <3>1. Len(SubSeq(t, 1, i)) <= Len(t)
      BY <1>0, <2>1
    <3> QED
      BY <2>1, <2>2, <3>1, PrefixPointwise, Zenon
  <2> QED BY <2>1, <2>3, <2>4 DEF Path
<1>2. ASSUME NEW s \in Path, IsPrefix(s, t), s # t
      PROVE  s \in Parents(t)
  <2>1. s \in Seq(Names) /\ Len(s) \in Nat /\ Len(s) <= Len(t)
    BY <1>2, PrefixPointwise DEF Path
  <2>2. s = SubSeq(s, 1, Len(s))
    BY <2>1
  <2>3. s = SubSeq(t, 1, Len(s))
    BY <1>2, <2>2 DEF IsPrefix
  <2>4. Len(s) # 0
    BY <2>1 DEF Path
  <2>5. Len(s) # Len(t)
    <3>1. t = SubSeq(t, 1, Len(t))
      OBVIOUS
    <3> QED BY <1>2, <2>3, <3>1
  <2>6. Len(s) \in 1 .. Len(t) - 1
    BY <1>0, <2>1, <2>4, <2>5
  <2> QED BY <2>3, <2>6 DEF Parents
<1> QED BY <1>1, <1>2 DEF Parents

----------------------------------------------------------------------------
(* Documents. *)

\* A list of paths none of which leads to another.
Apart(paths) ==
  /\ paths \subseteq Path
  /\ \A l, k \in paths : IsPrefix(l, k) => l = k

\* A document has what leads to its paths.
LEMMA PrefixesAreThere ==
  ASSUME NEW doc, NEW paths, IsDocument(doc, paths),
         NEW q \in DOMAIN doc, NEW p \in Path, IsPrefix(p, q)
  PROVE  p \in DOMAIN doc
<1>1. q \in Seq(Names) /\ Parents(q) \subseteq DOMAIN doc
  BY DEF IsDocument, Path
<1> QED BY <1>1, ParentsArePrefixes

LEMMA DocumentIsThere ==
  ASSUME NEW doc, NEW paths, IsDocument(doc, paths)
  PROVE  doc # Absent
<1>1. DOMAIN Absent = {}
  BY DEF Absent
<1> QED BY <1>1 DEF IsDocument

\* Documents agree below a path when they have the same paths and values there.
LEMMA NestedEqual ==
  ASSUME NEW cur, NEW des, NEW l
  PROVE  Nested(cur, l) = Nested(des, l) <=>
           /\ Below(cur, l) = Below(des, l)
           /\ \A q \in Below(cur, l) : cur[q] = des[q]
<1>1. /\ DOMAIN Nested(cur, l) = Below(cur, l)
      /\ DOMAIN Nested(des, l) = Below(des, l)
  BY DEF Nested
<1>2. /\ \A q \in Below(cur, l) : Nested(cur, l)[q] = cur[q]
      /\ \A q \in Below(des, l) : Nested(des, l)[q] = des[q]
  BY DEF Nested
<1>3. ASSUME Nested(cur, l) = Nested(des, l)
      PROVE  /\ Below(cur, l) = Below(des, l)
             /\ \A q \in Below(cur, l) : cur[q] = des[q]
  <2>1. Below(cur, l) = Below(des, l)
    BY <1>1, <1>3
  <2>2. ASSUME NEW q \in Below(cur, l) PROVE cur[q] = des[q]
    <3>1. cur[q] = Nested(cur, l)[q] /\ des[q] = Nested(des, l)[q]
      BY <1>2, <2>1, <2>2
    <3> QED BY <1>3, <3>1
  <2> QED BY <2>1, <2>2
<1>4. ASSUME Below(cur, l) = Below(des, l), \A q \in Below(cur, l) : cur[q] = des[q]
      PROVE  Nested(cur, l) = Nested(des, l)
  BY <1>4 DEF Nested
<1> QED BY <1>3, <1>4

----------------------------------------------------------------------------
(* Patches. *)

Changed(cur, des, paths) == {p \in paths : Nested(cur, p) # Nested(des, p)}
Gone(cur, des, paths) == Changed(cur, des, paths) \ DOMAIN des
Leading(cur, des, paths) == UNION {Parents(p) : p \in Changed(cur, des, paths)}
Put(cur, des, paths) ==
  UNION {Below(des, p) : p \in Changed(cur, des, paths) \ Gone(cur, des, paths)}

\* The patch, by its parts.
Touched(cur, des, paths) ==
  Gone(cur, des, paths) \cup Put(cur, des, paths) \cup Leading(cur, des, paths)

LEMMA PatchIs ==
  ASSUME NEW cur, NEW des, NEW paths
  PROVE  MergePatchForPaths(cur, des, paths) =
           [q \in Touched(cur, des, paths) |->
              CASE q \in Gone(cur, des, paths) -> Null
                [] q \notin Gone(cur, des, paths) /\ q \in DOMAIN des -> des[q]
                [] OTHER -> Object]
BY DEF MergePatchForPaths, PatchOf, Differ, Touched, Gone, Changed, Put, Leading

\* What is removed with it.
Removed(cur, des, paths) ==
  {q \in DOMAIN cur \cup Touched(cur, des, paths) : \E l \in Gone(cur, des, paths) : IsPrefix(l, q)}

\* The object it is applied to, which it takes as far as the listed paths go.
Moved(cur, des, paths) ==
  [q \in (DOMAIN cur \cup Touched(cur, des, paths)) \ Removed(cur, des, paths) |->
     CASE q \in Touched(cur, des, paths) /\ q \in DOMAIN des -> des[q]
       [] q \in Touched(cur, des, paths) /\ q \notin DOMAIN des -> Object
       [] OTHER -> cur[q]]

LEMMA PatchedIs ==
  ASSUME NEW cur, NEW des, NEW paths, Apart(paths),
         IsDocument(cur, paths), IsDocument(des, paths), Object # Null
  PROVE  Patched(cur, MergePatchForPaths(cur, des, paths)) = Moved(cur, des, paths)
<1> DEFINE patch == MergePatchForPaths(cur, des, paths)
           gone == {q \in DOMAIN cur \cup DOMAIN patch :
                      \E p \in DOMAIN patch : patch[p] = Null /\ IsPrefix(p, q)}
<1>1. patch = [q \in Touched(cur, des, paths) |->
                 CASE q \in Gone(cur, des, paths) -> Null
                   [] q \notin Gone(cur, des, paths) /\ q \in DOMAIN des -> des[q]
                   [] OTHER -> Object]
  BY PatchIs, Zenon
<1>2. Patched(cur, patch) = [q \in (DOMAIN cur \cup DOMAIN patch) \ gone |->
                               IF q \in DOMAIN patch THEN patch[q] ELSE cur[q]]
  BY DocumentIsThere DEF Patched
<1> HIDE DEF patch
<1>3. \A q \in DOMAIN patch : patch[q] = Null <=> q \in Gone(cur, des, paths)
  <2>1. \A q \in DOMAIN des : des[q] # Null
    BY DEF IsDocument
  <2> QED BY <2>1, <1>1
<1>4. Gone(cur, des, paths) \subseteq DOMAIN patch /\ DOMAIN patch = Touched(cur, des, paths)
  BY <1>1 DEF Touched
<1>5. gone = Removed(cur, des, paths)
  BY <1>3, <1>4 DEF Removed
<1>6. Gone(cur, des, paths) \subseteq Removed(cur, des, paths)
  <2> SUFFICES ASSUME NEW q \in Gone(cur, des, paths) PROVE q \in Removed(cur, des, paths)
    OBVIOUS
  <2>1. q \in Seq(Names)
    BY DEF Gone, Changed, Apart, Path
  <2> QED BY <2>1, PrefixReflexive DEF Removed, Touched
<1> HIDE DEF gone
<1>7. Patched(cur, patch) = Moved(cur, des, paths)
  BY <1>1, <1>2, <1>4, <1>5, <1>6 DEF Moved
<1> QED BY <1>7 DEF patch

\* What is listed and gone was there, and is so no more with all below it.
LEMMA GoneWasThere ==
  ASSUME NEW cur, NEW des, NEW paths, Apart(paths),
         IsDocument(cur, paths), IsDocument(des, paths),
         NEW l \in paths
  PROVE  /\ l \notin DOMAIN cur => Below(cur, l) = {}
         /\ l \in DOMAIN cur => l \in Below(cur, l)
         /\ l \in Gone(cur, des, paths) <=> l \in DOMAIN cur /\ l \notin DOMAIN des
<1>1. l \in Path /\ l \in Seq(Names)
  BY DEF Apart, Path
<1>2. ASSUME NEW doc, IsDocument(doc, paths)
      PROVE  /\ l \notin DOMAIN doc => Below(doc, l) = {}
             /\ l \in DOMAIN doc => l \in Below(doc, l)
  BY <1>1, <1>2, PrefixesAreThere, PrefixReflexive DEF Below
<1>3. l \in DOMAIN cur /\ l \notin DOMAIN des => Below(cur, l) # Below(des, l)
  BY <1>2 DEF Below
<1>4. l \notin DOMAIN cur /\ l \notin DOMAIN des => Nested(cur, l) = Nested(des, l)
  BY <1>2, NestedEqual
<1>5. l \in DOMAIN cur /\ l \notin DOMAIN des => Nested(cur, l) # Nested(des, l)
  BY <1>3, NestedEqual
<1> QED BY <1>2, <1>4, <1>5 DEF Gone, Changed

\* A path that leads to a listed one is not listed itself, nor below one that is.
LEMMA LeadingIsOutside ==
  ASSUME NEW paths, Apart(paths), NEW l \in paths, NEW p \in Parents(l)
  PROVE  p \in Path /\ IsPrefix(p, l) /\ ~Within(p, paths)
<1>1. l \in Seq(Names)
  BY DEF Apart, Path
<1>2. p \in Path /\ p \in Seq(Names) /\ IsPrefix(p, l) /\ p # l
  BY <1>1, ParentsArePrefixes DEF Path
<1>3. ASSUME NEW k \in paths, IsPrefix(k, p) PROVE FALSE
  <2>1. k \in Seq(Names)
    BY DEF Apart, Path
  <2>2. IsPrefix(k, l)
    BY <1>1, <1>2, <1>3, <2>1, PrefixTransitive
  <2>3. k = l
    BY <2>2 DEF Apart
  <2> QED BY <1>1, <1>2, <1>3, <2>3, PrefixAntisymmetric
<1> QED BY <1>2, <1>3 DEF Within

\* What a merge patch can bring about.
Movable(cur, des, paths) == Confined(cur, des, paths) /\ DropsWhole(cur, des, paths)

\* An edit confined to the listed paths is reached by the patch.
LEMMA ConfinedIsReached ==
  ASSUME NEW cur, NEW des, NEW paths, Apart(paths),
         IsDocument(cur, paths), IsDocument(des, paths), Object # Null,
         Movable(cur, des, paths)
  PROVE  Patched(cur, MergePatchForPaths(cur, des, paths)) = des
<1> DEFINE T == Touched(cur, des, paths)
           R == Removed(cur, des, paths)
           G == Gone(cur, des, paths)
<1>1. /\ DOMAIN cur \subseteq Path /\ DOMAIN des \subseteq Path
      /\ paths \subseteq Path
      /\ Path \subseteq Seq(Names)
  BY DEF IsDocument, Apart, Path
<1>2. \A p \in DOMAIN cur \cup DOMAIN des :
        \/ Within(p, paths)
        \/ p \in DOMAIN cur /\ p \in DOMAIN des /\ cur[p] = des[p]
        \/ p \notin DOMAIN cur /\ \E l \in paths \cap DOMAIN des : p \in Parents(l)
  BY DEF Movable, Confined
<1>3. \A l \in paths \cap DOMAIN des : Below(cur, l) \subseteq Below(des, l)
  BY DEF Movable, DropsWhole
<1>4. \A l \in paths : l \in G <=> l \in DOMAIN cur /\ l \notin DOMAIN des
  BY GoneWasThere
<1>5. \A l \in paths, q \in DOMAIN cur : IsPrefix(l, q) => l \in DOMAIN cur
  BY <1>1, PrefixesAreThere
<1>6. \A l \in paths, q \in DOMAIN des : IsPrefix(l, q) => l \in DOMAIN des
  BY <1>1, PrefixesAreThere
<1>7. ASSUME NEW q \in DOMAIN cur \cup T, q \notin R
      PROVE  q \in DOMAIN des
  <2>1. ASSUME NEW l \in Changed(cur, des, paths), q \in Parents(l)
        PROVE  q \in DOMAIN des
    <3>1. l \in paths /\ q \in Path /\ IsPrefix(q, l) /\ ~Within(q, paths)
      BY <2>1, LeadingIsOutside DEF Changed
    <3>2. CASE l \in DOMAIN des
      BY <3>1, <3>2, PrefixesAreThere
    <3>3. CASE l \notin DOMAIN des
      <4>1. l \in DOMAIN cur
        BY <1>4, <2>1, <3>1, <3>3 DEF Gone
      <4>2. q \in DOMAIN cur
        BY <3>1, <4>1, PrefixesAreThere
      <4> QED BY <1>2, <3>1, <4>2
    <3> QED BY <3>2, <3>3
  <2>2. q \in G => q \in R
    <3> SUFFICES ASSUME q \in G PROVE q \in R
      OBVIOUS
    <3>1. IsPrefix(q, q)
      BY <1>1, PrefixReflexive DEF Gone, Changed
    <3> QED BY <3>1 DEF Removed
  <2>3. q \in Put(cur, des, paths) => q \in DOMAIN des
    BY DEF Put, Below
  <2>4. CASE q \in DOMAIN cur
    <3>1. ASSUME NEW l \in paths, IsPrefix(l, q) PROVE q \in DOMAIN des
      <4>1. l \in DOMAIN cur
        BY <1>5, <2>4, <3>1
      <4>2. l \notin G
        BY <1>7, <3>1 DEF Removed
      <4>3. q \in Below(cur, l) /\ l \in DOMAIN des
        BY <1>4, <2>4, <3>1, <4>1, <4>2 DEF Below
      <4> QED BY <1>3, <4>3 DEF Below
    <3> QED BY <1>2, <2>4, <3>1 DEF Within
  <2> QED BY <1>7, <2>1, <2>2, <2>3, <2>4 DEF Touched, Leading
<1>8. ASSUME NEW q \in DOMAIN des
      PROVE  /\ q \in DOMAIN cur \cup T
             /\ q \notin R
             /\ q \notin T => q \in DOMAIN cur /\ cur[q] = des[q]
  <2>1. q \notin R
    <3> SUFFICES ASSUME NEW l \in G, IsPrefix(l, q) PROVE FALSE
      BY DEF Removed
    <3>1. l \in paths /\ l \notin DOMAIN des
      BY DEF Gone, Changed
    <3> QED BY <1>6, <3>1
  <2>2. ASSUME NEW l \in paths, IsPrefix(l, q)
        PROVE  q \in T \/ (q \in DOMAIN cur /\ cur[q] = des[q])
    <3>1. l \in DOMAIN des /\ q \in Below(des, l)
      BY <1>6, <2>2 DEF Below
    <3>2. CASE l \in Changed(cur, des, paths)
      BY <3>1, <3>2 DEF Touched, Put, Gone
    <3>3. CASE l \notin Changed(cur, des, paths)
      <4>1. Nested(cur, l) = Nested(des, l)
        BY <3>3 DEF Changed
      <4>2. Below(cur, l) = Below(des, l) /\ \A r \in Below(cur, l) : cur[r] = des[r]
        BY <4>1, NestedEqual
      <4> QED BY <3>1, <4>2 DEF Below
    <3> QED BY <3>2, <3>3
  <2>3. ASSUME q \notin DOMAIN cur, NEW l \in paths \cap DOMAIN des, q \in Parents(l)
        PROVE  q \in T
    <3>1. q \in Path /\ IsPrefix(q, l)
      BY <2>3, LeadingIsOutside
    <3>2. l \notin DOMAIN cur
      BY <2>3, <3>1, PrefixesAreThere
    <3>3. l \in Below(des, l) /\ l \notin Below(cur, l)
      BY <3>2, GoneWasThere DEF Below
    <3>4. l \in Changed(cur, des, paths)
      BY <3>3, NestedEqual DEF Changed
    <3> QED BY <2>3, <3>4 DEF Touched, Leading
  <2> QED BY <1>2, <2>1, <2>2, <2>3 DEF Within
<1>9. des = [q \in DOMAIN des |-> des[q]]
  BY DEF IsDocument
<1>10. (DOMAIN cur \cup T) \ R = DOMAIN des
  BY <1>7, <1>8
<1>11. Patched(cur, MergePatchForPaths(cur, des, paths)) = Moved(cur, des, paths)
  BY PatchedIs
<1>12. Moved(cur, des, paths) =
         [q \in (DOMAIN cur \cup T) \ R |->
            CASE q \in T /\ q \in DOMAIN des -> des[q]
              [] q \in T /\ q \notin DOMAIN des -> Object
              [] OTHER -> cur[q]]
  BY DEF Moved
<1> HIDE DEF T, R
<1> QED BY <1>8, <1>9, <1>10, <1>11, <1>12

\* And only such an edit is.
LEMMA ReachedIsConfined ==
  ASSUME NEW cur, NEW des, NEW paths, Apart(paths),
         IsDocument(cur, paths), IsDocument(des, paths), Object # Null,
         Patched(cur, MergePatchForPaths(cur, des, paths)) = des
  PROVE  Movable(cur, des, paths)
<1> DEFINE T == Touched(cur, des, paths)
           R == Removed(cur, des, paths)
           G == Gone(cur, des, paths)
<1>1. /\ DOMAIN cur \subseteq Path /\ DOMAIN des \subseteq Path
      /\ paths \subseteq Path
      /\ Path \subseteq Seq(Names)
  BY DEF IsDocument, Apart, Path
<1>0. Patched(cur, MergePatchForPaths(cur, des, paths)) = Moved(cur, des, paths)
  BY PatchedIs
<1>2. des = [q \in (DOMAIN cur \cup T) \ R |->
               CASE q \in T /\ q \in DOMAIN des -> des[q]
                 [] q \in T /\ q \notin DOMAIN des -> Object
                 [] OTHER -> cur[q]]
  BY <1>0 DEF Moved
<1> HIDE DEF T, R
<1>3. /\ DOMAIN des = (DOMAIN cur \cup T) \ R
      /\ \A q \in DOMAIN des : q \notin T => des[q] = cur[q]
  BY <1>2
<1> USE DEF T, R
<1>4. \A l \in paths : l \in G <=> l \in DOMAIN cur /\ l \notin DOMAIN des
  BY GoneWasThere
<1>5. ASSUME NEW l \in paths \cap DOMAIN des, NEW q \in Below(cur, l)
      PROVE  q \in Below(des, l)
  <2>1. q \in DOMAIN cur /\ IsPrefix(l, q)
    BY DEF Below
  <2>2. ASSUME NEW k \in G, IsPrefix(k, q) PROVE FALSE
    <3>1. k \in paths /\ k \notin DOMAIN des
      BY DEF Gone, Changed
    <3>2. l \in Seq(Names) /\ k \in Seq(Names) /\ q \in Seq(Names)
      BY <1>1, <2>1, <3>1
    <3>3. IsPrefix(l, k) \/ IsPrefix(k, l)
      BY <2>1, <2>2, <3>2, PrefixesCompare
    <3> QED BY <3>1, <3>3 DEF Apart
  <2>3. q \notin R
    BY <2>2 DEF Removed
  <2> QED BY <1>3, <2>1, <2>3 DEF Below
<1>6. ASSUME NEW p \in DOMAIN cur \cup DOMAIN des, ~Within(p, paths)
      PROVE  \/ p \in DOMAIN cur /\ p \in DOMAIN des /\ cur[p] = des[p]
             \/ p \notin DOMAIN cur /\ \E l \in paths \cap DOMAIN des : p \in Parents(l)
  <2>1. p \notin R
    BY <1>6 DEF Removed, Gone, Changed, Within
  <2>2. p \in DOMAIN des
    BY <1>3, <2>1
  <2>3. p \in T => \E l \in Changed(cur, des, paths) : p \in Parents(l)
    <3>1. p \notin G
      <4> SUFFICES ASSUME p \in G PROVE FALSE
        OBVIOUS
      <4>1. p \in paths /\ IsPrefix(p, p)
        BY <1>1, PrefixReflexive DEF Gone, Changed
      <4> QED BY <1>6, <4>1 DEF Within
    <3>2. p \notin Put(cur, des, paths)
      BY <1>6 DEF Put, Changed, Below, Within
    <3> QED BY <3>1, <3>2 DEF Touched, Leading
  <2>4. CASE p \in DOMAIN cur
    <3>1. CASE p \notin T
      BY <1>3, <2>2, <2>4, <3>1
    <3>2. CASE p \in T
      <4>1. PICK l \in paths : p \in Parents(l)
        BY <2>3, <3>2 DEF Changed
      <4>2. cur[p] = Object /\ des[p] = Object
        BY <2>2, <2>4, <4>1 DEF IsDocument
      <4> QED BY <2>2, <2>4, <4>2
    <3> QED BY <3>1, <3>2
  <2>5. CASE p \notin DOMAIN cur
    <3>1. PICK l \in Changed(cur, des, paths) : p \in Parents(l)
      BY <1>3, <2>2, <2>3, <2>5
    <3>2. l \in paths /\ p \in Path /\ IsPrefix(p, l)
      BY <3>1, LeadingIsOutside DEF Changed
    <3>3. l \notin DOMAIN cur
      BY <2>5, <3>2, PrefixesAreThere
    <3>4. l \in DOMAIN des
      BY <1>4, <3>2, <3>3 DEF Gone
    <3> QED BY <2>5, <3>1, <3>2, <3>4
  <2> QED BY <2>4, <2>5
<1> QED BY <1>5, <1>6 DEF Movable, Confined, DropsWhole

----------------------------------------------------------------------------
(* The policy. *)

\* Every listed path begins with "spec", and none leads to another.
LEMMA ListedIsApart ==
  ASSUME NEW m \in Machines, NEW o \in Objects
  PROVE  /\ Apart(Listed(Stamped(m.template))[o])
         /\ \A l \in Listed(Stamped(m.template))[o] : Len(l) > 1 /\ l[1] = "spec"
<1> DEFINE kind == Stamped(m.template)
           paths == Listed(kind)[o]
<1>1. paths \subseteq Path /\ Path \subseteq Seq(Names)
  BY CanUpdateAssumption DEF Path
<1>2. /\ o = "machine" => paths = machinePaths
      /\ o = "bootstrap" => paths = talosConfigPaths
      /\ o = "infra" => paths = infraPathsFor(kind)
  BY DEF Listed
<1> DEFINE long == <<"spec", "bootOptions", "isoURL">>
<1>3. \A l \in paths : \/ l = long
                       \/ Len(l) = 2 /\ l[1] = "spec" /\ l[2] # "bootOptions" /\ l = <<"spec", l[2]>>
  BY <1>2 DEF Objects, machinePaths, talosConfigPaths, infraPathsFor
<1>4. Len(long) = 3 /\ long[1] = "spec" /\ long[2] = "bootOptions"
  OBVIOUS
<1> HIDE DEF kind, paths, long
<1>5. ASSUME NEW l \in paths, NEW k \in paths, IsPrefix(l, k)
      PROVE  l = k
  <2>1. /\ l \in Seq(Names) /\ k \in Seq(Names)
        /\ Len(l) <= Len(k)
        /\ \A i \in 1 .. Len(l) : l[i] = k[i]
    BY <1>1, <1>5, PrefixPointwise
  <2>2. Len(l) >= 2
    BY <1>3, <1>4
  <2>3. l[2] = k[2]
    BY <2>1, <2>2
  <2> QED BY <1>3, <1>4, <2>1, <2>3
<1>6. \A l \in paths : Len(l) > 1 /\ l[1] = "spec"
  BY <1>3, <1>4
<1> QED BY <1>1, <1>5, <1>6 DEF Apart, paths, kind

----------------------------------------------------------------------------
(* Edits keep documents documents. *)

LEMMA SetFieldKeepsDocument ==
  ASSUME NEW doc, NEW paths, IsDocument(doc, paths), NEW p \in Path, NEW v, v # Null,
         Object # Null, \A l \in paths : p \notin Parents(l)
  PROVE  IsDocument(SetField(doc, p, v), paths)
<1> DEFINE new == SetField(doc, p, v)
<1>1. new = [q \in DOMAIN doc \cup Parents(p) \cup {p} |->
               CASE q = p -> v [] q # p /\ q \in DOMAIN doc -> doc[q] [] OTHER -> Object]
  BY DEF SetField
<1> HIDE DEF new
<1>2. /\ DOMAIN new = DOMAIN doc \cup Parents(p) \cup {p}
      /\ new = [q \in DOMAIN new |-> new[q]]
  BY <1>1
<1>3. p \in Seq(Names) /\ Path \subseteq Seq(Names)
  BY DEF Path
<1>4. Parents(p) \subseteq Path
  BY <1>3, ParentsArePrefixes
<1>5. DOMAIN new \subseteq Path /\ <<"spec">> \in DOMAIN new
  BY <1>2, <1>4 DEF IsDocument, Path
<1>6. ASSUME NEW q \in DOMAIN new PROVE Parents(q) \subseteq DOMAIN new
  <2>1. CASE q \in Parents(p)
    <3> SUFFICES ASSUME NEW r \in Parents(q) PROVE r \in Parents(p)
      BY <1>2
    <3>1. q \in Seq(Names) /\ IsPrefix(q, p) /\ q # p
      BY <1>3, <1>4, <2>1, ParentsArePrefixes
    <3>2. r \in Path /\ r \in Seq(Names) /\ IsPrefix(r, q) /\ r # q
      BY <1>3, <3>1, ParentsArePrefixes
    <3>3. IsPrefix(r, p)
      BY <1>3, <3>1, <3>2, PrefixTransitive
    <3>4. r # p
      BY <1>3, <3>1, <3>2, PrefixAntisymmetric
    <3> QED BY <1>3, <3>2, <3>3, <3>4, ParentsArePrefixes
  <2> QED BY <1>2, <2>1 DEF IsDocument
<1>7. \A q \in DOMAIN new : new[q] # Null
  BY <1>1 DEF IsDocument
<1>8. ASSUME NEW l \in paths, NEW q \in Parents(l) \cap DOMAIN new PROVE new[q] = Object
  BY <1>1 DEF IsDocument
<1> QED BY <1>2, <1>5, <1>6, <1>7, <1>8 DEF IsDocument, new

LEMMA RemoveFieldKeepsDocument ==
  ASSUME NEW doc, NEW paths, IsDocument(doc, paths), NEW p \in DOMAIN doc, Len(p) > 1
  PROVE  IsDocument(RemoveField(doc, p), paths)
<1> DEFINE new == RemoveField(doc, p)
<1>1. new = [q \in DOMAIN doc \ Below(doc, p) |-> doc[q]]
  BY DEF RemoveField
<1> HIDE DEF new
<1>2. /\ DOMAIN new = DOMAIN doc \ Below(doc, p)
      /\ new = [q \in DOMAIN new |-> new[q]]
      /\ \A q \in DOMAIN new : new[q] = doc[q]
  BY <1>1
<1>3. DOMAIN doc \subseteq Seq(Names)
  BY DEF IsDocument, Path
<1>4. <<"spec">> \in DOMAIN new
  <2>1. <<"spec">> \in Seq(Names) /\ Len(<<"spec">>) = 1 /\ Len(p) \in Nat
    BY <1>3, CanUpdateAssumption
  <2>2. ~IsPrefix(p, <<"spec">>)
    BY <2>1 DEF IsPrefix
  <2> QED BY <1>2, <2>2 DEF IsDocument, Below
<1>5. ASSUME NEW q \in DOMAIN new, NEW r \in Parents(q) PROVE r \in DOMAIN new
  <2>1. q \in Seq(Names) /\ r \in DOMAIN doc
    BY <1>2, <1>3 DEF IsDocument
  <2>2. IsPrefix(r, q)
    BY <2>1, ParentsArePrefixes
  <2>3. IsPrefix(p, r) => IsPrefix(p, q)
    BY <1>3, <2>1, <2>2, PrefixTransitive
  <2> QED BY <1>2, <2>1, <2>3 DEF Below
<1> QED BY <1>2, <1>4, <1>5 DEF IsDocument, new

LEMMA InitType == Init => TypeOK
<1> SUFFICES ASSUME Init PROVE TypeOK
  OBVIOUS
<1>1. /\ current \in Machines
      /\ current = [x \in Objects \cup {"template"} |-> current[x]]
      /\ \A o \in Objects : current[o] = Absent \/ IsDocument(current[o], Listed(Stamped(current.template))[o])
  BY CanUpdateAssumption DEF Init
<1>2. desired = current /\ edits \in 0 .. MaxEdits
  BY CanUpdateAssumption DEF Init
<1> QED BY <1>1, <1>2 DEF TypeOK

LEMMA StepType ==
  ASSUME TypeOK, [Next]_vars
  PROVE  TypeOK'
<1>1. CASE UNCHANGED vars
  BY <1>1 DEF vars, TypeOK
<1>2. CASE UpdateInPlace \/ Replace
  BY <1>2, CanUpdateAssumption DEF UpdateInPlace, Replace, Decide, TypeOK
<1>3. ASSUME NEW o \in Objects, Edit(o)
      PROVE  TypeOK'
  <2>1. PICK m \in Machines : current.template = m.template
    BY DEF TypeOK
  <2> DEFINE paths == Listed(Stamped(current.template))[o]
  <2>2. /\ desired = [x \in Objects \cup {"template"} |-> desired[x]]
        /\ IsDocument(current[o], paths) /\ IsDocument(desired[o], paths)
        /\ current' = current
        /\ edits' \in 0 .. MaxEdits
    BY <1>3, CanUpdateAssumption DEF Edit, TypeOK
  <2>3. \E new : desired' = [desired EXCEPT ![o] = new] /\ IsDocument(new, paths)
    <3>1. ASSUME NEW p \in DOMAIN Values[o], NEW v \in Values[o][p],
                 desired' = [desired EXCEPT ![o] = SetField(@, p, v)]
          PROVE  \E new : desired' = [desired EXCEPT ![o] = new] /\ IsDocument(new, paths)
      <4>1. p \in Path /\ v # Null /\ Object # Null /\ \A l \in paths : p \notin Parents(l)
        BY <2>1, CanUpdateAssumption DEF Path
      <4>2. IsDocument(SetField(desired[o], p, v), paths)
        BY <2>2, <4>1, SetFieldKeepsDocument
      <4> QED BY <3>1, <4>2
    <3>2. ASSUME NEW p \in DOMAIN desired[o], Len(p) > 1,
                 desired' = [desired EXCEPT ![o] = RemoveField(@, p)]
          PROVE  \E new : desired' = [desired EXCEPT ![o] = new] /\ IsDocument(new, paths)
      <4>1. IsDocument(RemoveField(desired[o], p), paths)
        BY <2>2, <3>2, RemoveFieldKeepsDocument
      <4> QED BY <3>2, <4>1
    <3> QED BY <1>3, <3>1, <3>2 DEF Edit
  <2>4. PICK new : desired' = [desired EXCEPT ![o] = new] /\ IsDocument(new, paths)
    BY <2>3
  <2>5. /\ desired'.template = desired.template
        /\ desired' = [x \in Objects \cup {"template"} |-> desired'[x]]
        /\ desired'[o] = new
        /\ \A x \in Objects \ {o} : desired'[x] = desired[x]
    BY <2>2, <2>4 DEF Objects
  <2>6. ASSUME NEW x \in Objects
        PROVE  \/ current[x] = Absent /\ desired'[x] = Absent
               \/ \A machine \in {current, desired'} :
                    IsDocument(machine[x], Listed(Stamped(current.template))[x])
    <3>1. CASE x = o
      BY <2>2, <2>4, <2>5, <3>1
    <3>2. CASE x # o
      BY <2>5, <3>2 DEF TypeOK
    <3> QED BY <3>1, <3>2
  <2> QED BY <2>2, <2>5, <2>6 DEF TypeOK
<1> QED BY <1>1, <1>2, <1>3 DEF Next

\* Kinds do not change, what is there stays there, and every object stays a document.
LEMMA TypeCorrect == Spec => []TypeOK
BY InitType, StepType, PTL DEF Spec

----------------------------------------------------------------------------
(* What is updated in place. *)

\* Two objects that are both absent or both documents.
Comparable(cur, des, paths) ==
  \/ cur = Absent /\ des = Absent
  \/ IsDocument(cur, paths) /\ IsDocument(des, paths)

LEMMA PatchReaches ==
  ASSUME NEW cur, NEW des, NEW paths, Apart(paths), Comparable(cur, des, paths)
  PROVE  Patched(cur, PatchBetween(cur, des, paths)) = des <=>
           (cur # Absent => Movable(cur, des, paths))
<1>1. CASE cur = Absent /\ des = Absent
  BY <1>1 DEF Patched
<1>2. CASE IsDocument(cur, paths) /\ IsDocument(des, paths)
  <2>1. cur # Absent /\ des # Absent /\ Object # Null
    BY <1>2, DocumentIsThere, CanUpdateAssumption
  <2>2. PatchBetween(cur, des, paths) = MergePatchForPaths(cur, des, paths)
    BY <2>1 DEF PatchBetween
  <2> QED BY <1>2, <2>1, <2>2, ConfinedIsReached, ReachedIsConfined
<1> QED BY <1>1, <1>2 DEF Comparable

LEMMA ObjectsCompare ==
  ASSUME TypeOK, NEW o \in Objects
  PROVE  LET paths == Listed(Stamped(desired.template))[o] IN
         /\ Apart(paths)
         /\ \A l \in paths : Len(l) > 1 /\ l[1] = "spec"
         /\ Comparable(current[o], desired[o], paths)
<1>1. PICK m \in Machines : desired.template = m.template /\ current.template = m.template
  BY DEF TypeOK
<1> QED BY <1>1, ListedIsApart DEF TypeOK, Comparable

InPlaceExactly == InPlace <=> OnlyListed /\ NoneInPart

LEMMA ExactlyConfined == TypeOK => InPlaceExactly
<1> SUFFICES ASSUME TypeOK PROVE InPlaceExactly
  OBVIOUS
<1>1. ASSUME NEW o \in Objects
      PROVE  Patched(current[o], DoCanUpdateMachine(current, desired)[o]) = desired[o] <=>
               (current[o] # Absent => Movable(current[o], desired[o], ListedOf(o)))
  <2> DEFINE paths == ListedOf(o)
  <2>1. DoCanUpdateMachine(current, desired)[o] = PatchBetween(current[o], desired[o], paths)
    BY DEF DoCanUpdateMachine, ListedOf
  <2>2. Apart(paths) /\ Comparable(current[o], desired[o], paths)
    BY ObjectsCompare DEF ListedOf
  <2> HIDE DEF paths
  <2>3. Patched(current[o], PatchBetween(current[o], desired[o], paths)) = desired[o] <=>
          (current[o] # Absent => Movable(current[o], desired[o], paths))
    BY <2>2, PatchReaches
  <2> QED BY <2>1, <2>3 DEF paths
<1>2. InPlace <=> \A o \in Present : Movable(current[o], desired[o], ListedOf(o))
  BY <1>1 DEF InPlace, Suffices, Present
<1> QED BY <1>2 DEF InPlaceExactly, Movable, OnlyListed, NoneInPart

\* For all objects, policies apart and sequences of edits: nothing but listed fields is updated in
\* place, and listed fields are, but for an object that is left with fewer fields.
THEOREM InPlaceIsExact == Spec => [](OnlyListedInPlace /\ SetOrClearedInPlace)
<1>1. TypeOK => OnlyListedInPlace /\ SetOrClearedInPlace
  BY ExactlyConfined DEF InPlaceExactly, OnlyListedInPlace, SetOrClearedInPlace
<1> QED BY <1>1, TypeCorrect, PTL

----------------------------------------------------------------------------
(* What stays. *)

\* No listed path is, or is below, or leads to, one that no update can move.
FixedIsUnlisted ==
  \A m \in Machines : \A o \in Objects : \A p \in Fixed[o] : \A l \in Listed(Stamped(m.template))[o] :
    ~IsPrefix(l, p) /\ ~IsPrefix(p, l)

\* A confined edit changes nothing below a path that is unrelated to the listed ones.
LEMMA UnlistedIsKept ==
  ASSUME NEW cur, NEW des, NEW paths, Apart(paths),
         IsDocument(cur, paths), IsDocument(des, paths), Confined(cur, des, paths),
         NEW p \in Path, \A l \in paths : ~IsPrefix(l, p) /\ ~IsPrefix(p, l)
  PROVE  Nested(cur, p) = Nested(des, p)
<1>1. /\ DOMAIN cur \subseteq Seq(Names) /\ DOMAIN des \subseteq Seq(Names)
      /\ paths \subseteq Seq(Names) /\ p \in Seq(Names)
  BY DEF IsDocument, Apart, Path
<1>2. ASSUME NEW q \in DOMAIN cur \cup DOMAIN des, IsPrefix(p, q)
      PROVE  q \in DOMAIN cur /\ q \in DOMAIN des /\ cur[q] = des[q]
  <2>1. q \in Seq(Names)
    BY <1>1
  <2>2. ~Within(q, paths)
    <3> SUFFICES ASSUME NEW l \in paths, IsPrefix(l, q) PROVE FALSE
      BY DEF Within
    <3>1. l \in Seq(Names)
      BY <1>1
    <3> QED BY <1>1, <1>2, <2>1, <3>1, PrefixesCompare
  <2>3. ASSUME NEW l \in paths, q \in Parents(l) PROVE FALSE
    <3>1. IsPrefix(q, l) /\ l \in Seq(Names)
      BY <1>1, <2>3, LeadingIsOutside
    <3> QED BY <1>1, <1>2, <2>1, <3>1, PrefixTransitive
  <2> QED BY <2>2, <2>3 DEF Confined
<1>3. Below(cur, p) = Below(des, p) /\ \A q \in Below(cur, p) : cur[q] = des[q]
  BY <1>2 DEF Below
<1> QED BY <1>3, NestedEqual

\* An update in place moves nothing below such a path.
LEMMA InPlaceKeeps ==
  ASSUME TypeOK, UpdateInPlace, NEW o \in Objects, current[o] # Absent,
         NEW p \in Path, \A l \in Listed(Stamped(desired.template))[o] : ~IsPrefix(l, p) /\ ~IsPrefix(p, l)
  PROVE  Nested(current[o], p) = Nested(current'[o], p)
<1> DEFINE paths == Listed(Stamped(desired.template))[o]
<1>1. current' = desired /\ InPlace
  BY DEF UpdateInPlace, Decide
<1>2. Confined(current[o], desired[o], paths)
  BY <1>1, ExactlyConfined DEF InPlaceExactly, OnlyListed, Present, ListedOf
<1>3. Apart(paths) /\ IsDocument(current[o], paths) /\ IsDocument(desired[o], paths)
  BY ObjectsCompare DEF Comparable
<1> HIDE DEF paths
<1>4. \A l \in paths : ~IsPrefix(l, p) /\ ~IsPrefix(p, l)
  BY DEF paths
<1>5. Nested(current[o], p) = Nested(desired[o], p)
  BY <1>2, <1>3, <1>4, UnlistedIsKept
<1> QED BY <1>1, <1>5

\* What no update of a running machine can move does not move in place, if the policy lists nothing
\* that has to do with it.
THEOREM FixedStays ==
  ASSUME FixedIsUnlisted
  PROVE  Spec => FixedIsKept
<1> DEFINE Kept == UpdateInPlace =>
                     \A o \in Objects : \A p \in Fixed[o] :
                       current[o] # Absent => Nested(current[o], p) = Nested(current'[o], p)
<1>1. TypeOK /\ [Next]_vars => [Kept]_vars
  <2> SUFFICES ASSUME TypeOK, UpdateInPlace,
                      NEW o \in Objects, NEW p \in Fixed[o], current[o] # Absent
               PROVE  Nested(current[o], p) = Nested(current'[o], p)
    OBVIOUS
  <2>1. PICK m \in Machines : desired.template = m.template
    BY DEF TypeOK
  <2>2. p \in Path /\ \A l \in Listed(Stamped(desired.template))[o] : ~IsPrefix(l, p) /\ ~IsPrefix(p, l)
    BY <2>1, CanUpdateAssumption DEF FixedIsUnlisted
  <2> QED BY <2>2, InPlaceKeeps
<1> QED BY <1>1, TypeCorrect, PTL DEF Spec, FixedIsKept

\* The role of a machine, of which talosConfigPaths says nothing, never changes in place.
RoleIsKept ==
  [][UpdateInPlace /\ current["bootstrap"] # Absent =>
       Nested(current["bootstrap"], <<"spec", "generateType">>) =
         Nested(current'["bootstrap"], <<"spec", "generateType">>)]_vars

\* Under no condition does the role of a machine change in place: it has another one take its place.
THEOREM RoleStays == Spec => RoleIsKept
<1> DEFINE p == <<"spec", "generateType">>
           Kept == UpdateInPlace /\ current["bootstrap"] # Absent =>
                     Nested(current["bootstrap"], p) = Nested(current'["bootstrap"], p)
<1>1. TypeOK /\ [Next]_vars => [Kept]_vars
  <2> SUFFICES ASSUME TypeOK, UpdateInPlace, current["bootstrap"] # Absent
               PROVE  Nested(current["bootstrap"], p) = Nested(current'["bootstrap"], p)
    OBVIOUS
  <2>1. p \in Path /\ p \in Seq(Names) /\ Len(p) = 2 /\ p[2] = "generateType"
    BY CanUpdateAssumption DEF Path
  <2>2. "bootstrap" \in Objects /\ Listed(Stamped(desired.template))["bootstrap"] = talosConfigPaths
    BY DEF Objects, Listed
  <2>3. PICK m \in Machines : desired.template = m.template
    BY DEF TypeOK
  <2>4. talosConfigPaths \subseteq Seq(Names)
    BY <2>2, <2>3, CanUpdateAssumption DEF Path
  <2>5. \A l \in talosConfigPaths : Len(l) = 2 /\ l[2] # "generateType"
    BY DEF talosConfigPaths
  <2> HIDE DEF p
  <2>6. \A l \in talosConfigPaths : ~IsPrefix(l, p) /\ ~IsPrefix(p, l)
    BY <2>1, <2>4, <2>5, PrefixPointwise
  <2> QED BY <2>1, <2>2, <2>6, InPlaceKeeps
<1> QED BY <1>1, TypeCorrect, PTL DEF Spec, RoleIsKept

----------------------------------------------------------------------------
(* Templates. *)

Root == <<"spec">>
Trunk == <<"spec", "template">>
Under(q) == Trunk \o q

LEMMA RootIs ==
  /\ Root \in Path /\ Len(Root) = 1 /\ Root[1] = "spec"
  /\ Trunk \in Path /\ Len(Trunk) = 2 /\ Trunk[1] = "spec" /\ Trunk[2] = "template"
BY CanUpdateAssumption DEF Root, Trunk, Path

LEMMA RootParents == Parents(Root) = {} /\ Parents(Trunk) = {Root}
<1>1. Root \in Seq(Names) /\ Trunk \in Seq(Names)
  BY RootIs DEF Path
<1>2. Parents(Root) = {}
  <2>1. 1 .. Len(Root) - 1 = {}
    BY RootIs
  <2> QED BY <2>1 DEF Parents
<1>3. SubSeq(Trunk, 1, 1) = Root
  <2> DEFINE s == SubSeq(Trunk, 1, 1)
  <2>1. s \in Seq(Names) /\ Len(s) = 1 /\ s[1] = Trunk[1]
    BY <1>1, RootIs
  <2> HIDE DEF s
  <2>2. s = Root
    BY <1>1, <2>1, RootIs
  <2> QED BY <2>2 DEF s
<1>4. Parents(Trunk) = {Root}
  <2>1. 1 .. Len(Trunk) - 1 = {1}
    BY RootIs
  <2> QED BY <1>3, <2>1 DEF Parents
<1> QED BY <1>2, <1>4

\* A path, moved under the template.
LEMMA UnderType ==
  ASSUME NEW q \in Seq(Names)
  PROVE  Under(q) \in Seq(Names) /\ Len(Under(q)) = Len(q) + 2
<1>1. Trunk \in Seq(Names) /\ Len(Trunk) = 2
  BY RootIs DEF Path
<1>2. Trunk \o q \in Seq(Names) /\ Len(Trunk \o q) = Len(Trunk) + Len(q)
  BY <1>1, ConcatProperties
<1>3. Len(Trunk) + Len(q) = Len(q) + 2
  BY <1>1
<1> QED BY <1>2, <1>3 DEF Under

LEMMA UnderFields ==
  ASSUME NEW q \in Seq(Names), NEW i \in 1 .. Len(q) + 2
  PROVE  /\ i = 1 => Under(q)[i] = "spec"
         /\ i = 2 => Under(q)[i] = "template"
         /\ i > 2 => Under(q)[i] = q[i - 2]
<1>1. /\ Trunk \in Seq(Names) /\ Len(Trunk) = 2
      /\ Trunk[1] = "spec" /\ Trunk[2] = "template"
  BY RootIs DEF Path
<1>2. Len(q) \in Nat
  OBVIOUS
<1>3. i \in 1 .. Len(Trunk) + Len(q)
  BY <1>1, <1>2
<1>4. (Trunk \o q)[i] = IF i <= Len(Trunk) THEN Trunk[i] ELSE q[i - Len(Trunk)]
  BY <1>1, <1>3, ConcatProperties
<1> QED BY <1>1, <1>3, <1>4 DEF Under

LEMMA UnderTail ==
  ASSUME NEW q \in Seq(Names)
  PROVE  SubSeq(Under(q), 3, Len(Under(q))) = q
<1> DEFINE u == Under(q)
           s == SubSeq(u, 3, Len(u))
<1>1. Len(q) \in Nat /\ u \in Seq(Names) /\ Len(u) = Len(q) + 2
  BY UnderType
<1>2. \A i \in 1 .. Len(q) + 2 : i > 2 => u[i] = q[i - 2]
  BY UnderFields
<1> HIDE DEF u
<1>3. s \in Seq(Names) /\ Len(s) = Len(q) /\ \A i \in 1 .. Len(q) : s[i] = u[i + 2]
  BY <1>1
<1>4. \A i \in 1 .. Len(q) : s[i] = q[i]
  BY <1>1, <1>2, <1>3
<1> HIDE DEF s
<1>5. s = q
  BY <1>1, <1>3, <1>4
<1> QED BY <1>5 DEF s, u

LEMMA UnderInjective ==
  ASSUME NEW p \in Seq(Names), NEW q \in Seq(Names), Under(p) = Under(q)
  PROVE  p = q
<1>1. p = SubSeq(Under(p), 3, Len(Under(p))) /\ q = SubSeq(Under(q), 3, Len(Under(q)))
  BY UnderTail
<1> QED BY <1>1

LEMMA UnderPrefix ==
  ASSUME NEW p \in Seq(Names), NEW q \in Seq(Names)
  PROVE  IsPrefix(Under(p), Under(q)) <=> IsPrefix(p, q)
<1>1. /\ Len(p) \in Nat /\ Len(q) \in Nat
      /\ Under(p) \in Seq(Names) /\ Under(q) \in Seq(Names)
      /\ Len(Under(p)) = Len(p) + 2 /\ Len(Under(q)) = Len(q) + 2
  BY UnderType
<1>2. ASSUME \A i \in 1 .. Len(p) : p[i] = q[i], Len(p) <= Len(q)
      PROVE  \A i \in 1 .. Len(p) + 2 : Under(p)[i] = Under(q)[i]
  <2> SUFFICES ASSUME NEW i \in 1 .. Len(p) + 2 PROVE Under(p)[i] = Under(q)[i]
    OBVIOUS
  <2>1. i \in 1 .. Len(q) + 2 /\ (i > 2 => i - 2 \in 1 .. Len(p)) /\ (i > 2 \/ i = 1 \/ i = 2)
    BY <1>1, <1>2
  <2>2. i > 2 => Under(p)[i] = p[i - 2] /\ Under(q)[i] = q[i - 2]
    BY <2>1, UnderFields
  <2>3. i \in {1, 2} => Under(p)[i] = Under(q)[i]
    BY <2>1, UnderFields
  <2> QED BY <1>2, <2>1, <2>2, <2>3
<1>3. ASSUME \A i \in 1 .. Len(p) + 2 : Under(p)[i] = Under(q)[i], Len(p) <= Len(q)
      PROVE  \A i \in 1 .. Len(p) : p[i] = q[i]
  <2> SUFFICES ASSUME NEW i \in 1 .. Len(p) PROVE p[i] = q[i]
    OBVIOUS
  <2>1. i + 2 \in 1 .. Len(p) + 2 /\ i + 2 \in 1 .. Len(q) + 2 /\ i + 2 > 2 /\ (i + 2) - 2 = i
    BY <1>1, <1>3
  <2>2. Under(p)[i + 2] = p[i] /\ Under(q)[i + 2] = q[i]
    BY <2>1, UnderFields
  <2> QED BY <1>3, <2>1, <2>2
<1>4. Len(p) + 2 <= Len(q) + 2 <=> Len(p) <= Len(q)
  BY <1>1
<1>5. IsPrefix(p, q) <=> Len(p) <= Len(q) /\ \A i \in 1 .. Len(p) : p[i] = q[i]
  BY PrefixPointwise
<1>6. IsPrefix(Under(p), Under(q)) <=>
        Len(p) + 2 <= Len(q) + 2 /\ \A i \in 1 .. Len(p) + 2 : Under(p)[i] = Under(q)[i]
  <2> DEFINE s == Under(p)
             t == Under(q)
  <2>1. s \in Seq(Names) /\ t \in Seq(Names)
    BY <1>1
  <2> HIDE DEF s, t
  <2>2. IsPrefix(s, t) <=> Len(s) <= Len(t) /\ \A i \in 1 .. Len(s) : s[i] = t[i]
    BY <2>1, PrefixPointwise
  <2> QED BY <1>1, <2>2 DEF s, t
<1> QED BY <1>2, <1>3, <1>4, <1>5, <1>6

\* What leads to a path under the template is what leads to the template, or to the path, under it.
LEMMA UnderParents ==
  ASSUME NEW q \in Path
  PROVE  Parents(Under(q)) = {Root, Trunk} \cup {Under(p) : p \in Parents(q)}
<1>0. q \in Seq(Names) /\ Len(q) \in Nat /\ Len(q) > 0 /\ Path \subseteq Seq(Names)
  BY DEF Path
<1>1. Under(q) \in Seq(Names) /\ Len(Under(q)) = Len(q) + 2
  BY <1>0, UnderType
<1>2. ASSUME NEW r \in Parents(Under(q))
      PROVE  r \in {Root, Trunk} \cup {Under(p) : p \in Parents(q)}
  <2>1. /\ r \in Path /\ r \in Seq(Names) /\ Len(r) \in Nat /\ Len(r) > 0
        /\ IsPrefix(r, Under(q)) /\ r # Under(q)
    BY <1>0, <1>1, <1>2, ParentsArePrefixes DEF Path
  <2>2. Len(r) <= Len(q) + 2 /\ \A i \in 1 .. Len(r) : r[i] = Under(q)[i]
    BY <1>1, <2>1, PrefixPointwise
  <2>3. r[1] = "spec" /\ (Len(r) > 1 => r[2] = "template")
    <3>1. 1 \in 1 .. Len(r) /\ 1 \in 1 .. Len(q) + 2 /\ 2 \in 1 .. Len(q) + 2
      BY <1>0, <2>1
    <3>2. Under(q)[1] = "spec" /\ Under(q)[2] = "template"
      BY <1>0, <3>1, UnderFields
    <3> QED BY <2>1, <2>2, <3>1, <3>2
  <2>4. CASE Len(r) = 1
    BY <2>1, <2>3, <2>4, RootIs DEF Path
  <2>5. CASE Len(r) = 2
    BY <2>1, <2>3, <2>5, RootIs DEF Path
  <2>6. CASE Len(r) > 2
    <3> DEFINE p == SubSeq(r, 3, Len(r))
    <3>1. p \in Seq(Names) /\ Len(p) = Len(r) - 2 /\ \A i \in 1 .. Len(r) - 2 : p[i] = r[i + 2]
      BY <2>1, <2>6
    <3> HIDE DEF p
    <3>2. r = Under(p)
      <4>1. Under(p) \in Seq(Names) /\ Len(Under(p)) = Len(r) /\ Len(p) + 2 = Len(r)
        BY <2>1, <3>1, UnderType
      <4>2. ASSUME NEW i \in 1 .. Len(r) PROVE r[i] = Under(p)[i]
        <5>1. i \in 1 .. Len(p) + 2
          BY <4>1
        <5>2. CASE i \in {1, 2}
          BY <2>3, <2>6, <3>1, <5>1, <5>2, UnderFields
        <5>3. CASE i \notin {1, 2}
          <6>1. i > 2 /\ i - 2 \in 1 .. Len(r) - 2 /\ (i - 2) + 2 = i
            BY <2>1, <5>3
          <6>2. Under(p)[i] = p[i - 2]
            BY <3>1, <5>1, <6>1, UnderFields
          <6> QED BY <3>1, <6>1, <6>2
        <5> QED BY <5>2, <5>3
      <4> QED BY <2>1, <4>1, <4>2
    <3>3. IsPrefix(p, q) /\ p # q
      BY <1>0, <2>1, <3>1, <3>2, UnderPrefix
    <3>4. p \in Path
      BY <2>1, <2>6, <3>1 DEF Path
    <3>5. p \in Parents(q)
      BY <1>0, <3>3, <3>4, ParentsArePrefixes
    <3> QED BY <3>2, <3>5
  <2>7. Len(r) = 1 \/ Len(r) = 2 \/ Len(r) > 2
    <3>1. \A n \in Nat : n > 0 => n = 1 \/ n = 2 \/ n > 2
      OBVIOUS
    <3>2. Len(r) \in Nat /\ Len(r) > 0
      BY <2>1
    <3> QED BY <3>1, <3>2, Zenon
  <2> QED BY <2>4, <2>5, <2>6, <2>7
<1>3. ASSUME NEW r \in {Root, Trunk}
      PROVE  r \in Parents(Under(q))
  <2>1. r \in Path /\ r \in Seq(Names) /\ Len(r) \in {1, 2}
    BY RootIs DEF Path
  <2>2. \A i \in 1 .. Len(r) : r[i] = Under(q)[i]
    <3>1. 1 \in 1 .. Len(q) + 2 /\ 2 \in 1 .. Len(q) + 2
      BY <1>0
    <3>2. Under(q)[1] = "spec" /\ Under(q)[2] = "template"
      BY <1>0, <3>1, UnderFields
    <3>3. CASE r = Root
      BY <3>2, <3>3, RootIs
    <3>4. CASE r = Trunk
      <4>1. \A i \in 1 .. Len(r) : i = 1 \/ i = 2
        BY <3>4, RootIs
      <4> QED BY <3>2, <3>4, <4>1, RootIs
    <3> QED BY <3>3, <3>4
  <2>3. IsPrefix(r, Under(q)) /\ r # Under(q)
    BY <1>0, <1>1, <2>1, <2>2, PrefixPointwise
  <2> QED BY <1>1, <2>1, <2>3, ParentsArePrefixes
<1>4. ASSUME NEW p \in Parents(q)
      PROVE  Under(p) \in Parents(Under(q))
  <2>1. p \in Path /\ p \in Seq(Names) /\ IsPrefix(p, q) /\ p # q
    BY <1>0, ParentsArePrefixes
  <2>2. Under(p) \in Path /\ IsPrefix(Under(p), Under(q)) /\ Under(p) # Under(q)
    <3>1. Under(p) \in Seq(Names) /\ Len(Under(p)) = Len(p) + 2 /\ Len(p) \in Nat
      BY <2>1, UnderType
    <3>2. Under(p) # <<>>
      BY <3>1
    <3> QED BY <1>0, <2>1, <3>1, <3>2, UnderPrefix, UnderInjective DEF Path
  <2> QED BY <1>1, <2>2, ParentsArePrefixes
<1> QED BY <1>2, <1>3, <1>4

\* The template is not under itself.
LEMMA RootIsNotUnder ==
  ASSUME NEW q \in Path
  PROVE  Under(q) \in Path /\ Under(q) # Root /\ Under(q) # Trunk
         /\ ~IsPrefix(Under(q), Root) /\ ~IsPrefix(Under(q), Trunk)
<1>1. q \in Seq(Names) /\ Len(q) \in Nat /\ Len(q) > 0
  BY DEF Path
<1>2. Under(q) \in Seq(Names) /\ Len(Under(q)) = Len(q) + 2
  BY <1>1, UnderType
<1>3. Under(q) # <<>>
  BY <1>1, <1>2
<1>4. ~IsPrefix(Under(q), Root) /\ ~IsPrefix(Under(q), Trunk)
  <2>1. ~(Len(Under(q)) <= Len(Root)) /\ ~(Len(Under(q)) <= Len(Trunk))
    BY <1>1, <1>2, RootIs
  <2> QED BY <2>1 DEF IsPrefix
<1>5. Under(q) # Root /\ Under(q) # Trunk
  <2>1. Len(Under(q)) # Len(Root) /\ Len(Under(q)) # Len(Trunk)
    BY <1>1, <1>2, RootIs
  <2> QED BY <2>1, Zenon
<1> QED BY <1>2, <1>3, <1>4, <1>5 DEF Path

\* The paths of a template are those of what it stamps out, and the two that lead to them.
LEMMA TemplateIs ==
  ASSUME NEW doc, NEW paths, IsDocument(doc, paths)
  PROVE  /\ DOMAIN Template(doc) = {Under(q) : q \in DOMAIN doc} \cup {Root, Trunk}
         /\ Template(doc) = [q \in DOMAIN Template(doc) |-> Template(doc)[q]]
         /\ \A q \in DOMAIN doc : Template(doc)[Under(q)] = doc[q]
         /\ Template(doc)[Root] = Object /\ Template(doc)[Trunk] = Object
<1> DEFINE under == {Under(q) : q \in DOMAIN doc}
<1>1. DOMAIN doc \subseteq Path /\ Path \subseteq Seq(Names)
  BY DEF IsDocument, Path
<1>2. Template(doc) = [q \in under \cup {Root, Trunk} |->
                         IF q \in under THEN doc[SubSeq(q, 3, Len(q))] ELSE Object]
  BY DocumentIsThere DEF Template, Under, Root, Trunk
<1>3. Root \notin under /\ Trunk \notin under
  BY <1>1, RootIsNotUnder
<1>4. \A q \in DOMAIN doc : doc[SubSeq(Under(q), 3, Len(Under(q)))] = doc[q]
  BY <1>1, UnderTail
<1>5. \A q \in DOMAIN doc : Under(q) \in under
  OBVIOUS
<1> HIDE DEF under
<1>6. /\ DOMAIN Template(doc) = under \cup {Root, Trunk}
      /\ Template(doc) = [q \in DOMAIN Template(doc) |-> Template(doc)[q]]
  BY <1>2
<1>7. \A q \in DOMAIN doc : Template(doc)[Under(q)] = doc[q]
  BY <1>2, <1>4, <1>5
<1>8. Template(doc)[Root] = Object /\ Template(doc)[Trunk] = Object
  BY <1>2, <1>3
<1> QED BY <1>6, <1>7, <1>8 DEF under

\* The listed paths, moved there.
LEMMA PrefixedIs ==
  ASSUME NEW paths, Apart(paths), \A l \in paths : Len(l) > 1 /\ l[1] = "spec"
  PROVE  /\ prefixPaths(paths) = {Under(l) : l \in paths}
         /\ Apart(prefixPaths(paths))
<1>1. paths \subseteq Path /\ Path \subseteq Seq(Names)
  BY DEF Apart, Path
<1>2. ASSUME NEW l \in paths
      PROVE  templateSpecPrefix \o Tail(l) = Under(l)
  <2> DEFINE a == templateSpecPrefix
             r == a \o Tail(l)
             u == Under(l)
  <2>1. /\ l \in Seq(Names) /\ Len(l) \in Nat /\ Len(l) > 1 /\ l[1] = "spec"
    BY <1>1
  <2>2. Tail(l) \in Seq(Names) /\ Len(Tail(l)) = Len(l) - 1 /\
        \A i \in 1 .. Len(l) - 1 : Tail(l)[i] = l[i + 1]
    BY <2>1
  <2>3. a \in Seq(Names) /\ Len(a) = 3 /\ a[1] = "spec" /\ a[2] = "template" /\ a[3] = "spec"
    BY CanUpdateAssumption DEF templateSpecPrefix
  <2> HIDE DEF a
  <2>4. /\ r \in Seq(Names) /\ Len(r) = Len(a) + Len(Tail(l))
        /\ \A i \in 1 .. Len(a) + Len(Tail(l)) :
             r[i] = IF i <= Len(a) THEN a[i] ELSE Tail(l)[i - Len(a)]
    <3> DEFINE b == Tail(l)
    <3>1. a \in Seq(Names) /\ b \in Seq(Names)
      BY <2>2, <2>3
    <3> HIDE DEF b
    <3>2. /\ a \o b \in Seq(Names) /\ Len(a \o b) = Len(a) + Len(b)
          /\ \A i \in 1 .. Len(a) + Len(b) :
               (a \o b)[i] = IF i <= Len(a) THEN a[i] ELSE b[i - Len(a)]
      BY <3>1, ConcatProperties
    <3> QED BY <3>2 DEF b
  <2>5. Len(a) + Len(Tail(l)) = Len(l) + 2
    BY <2>1, <2>2, <2>3
  <2>6. u \in Seq(Names) /\ Len(u) = Len(l) + 2
    BY <2>1, UnderType
  <2> HIDE DEF r, u
  <2>7. ASSUME NEW i \in 1 .. Len(l) + 2 PROVE r[i] = u[i]
    <3>1. i <= 3 => i = 1 \/ i = 2 \/ i = 3
      BY <2>1
    <3>2. CASE i > 3
      <4>1. i - 3 \in 1 .. Len(l) - 1 /\ (i - 3) + 1 = i - 2 /\ ~(i <= 3) /\ i > 2
        BY <2>1, <3>2
      <4>2. r[i] = Tail(l)[i - 3]
        <5>1. r[i] = IF i <= Len(a) THEN a[i] ELSE Tail(l)[i - Len(a)]
          BY <2>4, <2>5
        <5> QED BY <2>3, <4>1, <5>1
      <4>3. Tail(l)[i - 3] = l[i - 2]
        BY <2>2, <4>1
      <4>4. u[i] = l[i - 2]
        BY <2>1, <4>1, UnderFields DEF u
      <4> QED BY <4>2, <4>3, <4>4
    <3>3. CASE i <= 3
      <4>1. r[i] = a[i]
        BY <2>3, <2>4, <2>5, <3>3
      <4>2. /\ i = 1 => u[i] = "spec"
            /\ i = 2 => u[i] = "template"
            /\ i > 2 => u[i] = l[i - 2]
        BY <2>1, UnderFields DEF u
      <4>3. i = 3 => i > 2 /\ i - 2 = 1
        OBVIOUS
      <4> QED BY <2>1, <2>3, <3>1, <3>3, <4>1, <4>2, <4>3
    <3> QED BY <3>2, <3>3
  <2>8. r = u
    BY <2>4, <2>5, <2>6, <2>7
  <2> QED BY <2>8 DEF r, u, a
<1>3. prefixPaths(paths) = {Under(l) : l \in paths}
  BY <1>2 DEF prefixPaths
<1>4. \A l \in paths : Under(l) \in Path
  BY <1>1, RootIsNotUnder
<1>5. \A l, k \in paths : IsPrefix(Under(l), Under(k)) => Under(l) = Under(k)
  BY <1>1, UnderPrefix DEF Apart
<1> QED BY <1>3, <1>4, <1>5 DEF Apart

LEMMA TemplateIsDocument ==
  ASSUME NEW doc, NEW paths, Apart(paths), \A l \in paths : Len(l) > 1 /\ l[1] = "spec",
         IsDocument(doc, paths)
  PROVE  IsDocument(Template(doc), prefixPaths(paths))
<1> DEFINE T == Template(doc)
<1>1. DOMAIN doc \subseteq Path /\ paths \subseteq Path /\ Path \subseteq Seq(Names)
  BY DEF IsDocument, Apart, Path
<1>2. /\ DOMAIN T = {Under(q) : q \in DOMAIN doc} \cup {Root, Trunk}
      /\ T = [q \in DOMAIN T |-> T[q]]
      /\ \A q \in DOMAIN doc : T[Under(q)] = doc[q]
      /\ T[Root] = Object /\ T[Trunk] = Object
  BY TemplateIs
<1>3. prefixPaths(paths) = {Under(l) : l \in paths}
  BY PrefixedIs
<1> HIDE DEF T
<1>4. \A q \in Path : Parents(Under(q)) = {Root, Trunk} \cup {Under(p) : p \in Parents(q)}
  BY UnderParents
<1>5. DOMAIN T \subseteq Path /\ <<"spec">> \in DOMAIN T
  BY <1>1, <1>2, RootIs, RootIsNotUnder DEF Root
<1>6. ASSUME NEW q \in DOMAIN T PROVE Parents(q) \subseteq DOMAIN T /\ T[q] # Null
  <2>1. CASE q \in {Root, Trunk}
    <3>1. Parents(q) \subseteq {Root}
      BY <2>1, RootParents
    <3> QED BY <1>2, <2>1, <3>1, CanUpdateAssumption
  <2>2. ASSUME NEW p \in DOMAIN doc, q = Under(p)
        PROVE  Parents(q) \subseteq DOMAIN T /\ T[q] # Null
    <3>1. Parents(p) \subseteq DOMAIN doc /\ doc[p] # Null /\ p \in Path
      BY <1>1 DEF IsDocument
    <3> QED BY <1>2, <1>4, <2>2, <3>1
  <2> QED BY <1>2, <2>1, <2>2
<1>7. ASSUME NEW l \in paths, NEW q \in Parents(Under(l)) \cap DOMAIN T
      PROVE  T[q] = Object
  <2>1. CASE q \in {Root, Trunk}
    BY <1>2, <2>1
  <2>2. CASE q \notin {Root, Trunk}
    <3>1. PICK p \in Parents(l) : q = Under(p)
      BY <1>1, <1>4, <2>2
    <3>2. PICK r \in DOMAIN doc : q = Under(r)
      BY <1>2, <2>2
    <3>3. p \in Seq(Names) /\ r \in Seq(Names)
      BY <1>1, ParentsArePrefixes
    <3>4. p = r
      BY <3>1, <3>2, <3>3, UnderInjective
    <3> QED BY <1>2, <3>1, <3>2, <3>4 DEF IsDocument
  <2> QED BY <2>1, <2>2
<1> QED BY <1>2, <1>3, <1>5, <1>6, <1>7 DEF IsDocument, T

\* An edit is confined in a template as it is in what the template stamps out.
LEMMA TemplateIsConfined ==
  ASSUME NEW cur, NEW des, NEW paths,
         Apart(paths), \A l \in paths : Len(l) > 1 /\ l[1] = "spec",
         IsDocument(cur, paths), IsDocument(des, paths)
  PROVE  Movable(Template(cur), Template(des), prefixPaths(paths)) <=> Movable(cur, des, paths)
<1> DEFINE C == Template(cur)
           D == Template(des)
           P == prefixPaths(paths)
<1>1. /\ DOMAIN cur \subseteq Seq(Names) /\ DOMAIN des \subseteq Seq(Names)
      /\ paths \subseteq Seq(Names) /\ paths \subseteq Path
  BY DEF IsDocument, Apart, Path
<1>2. /\ DOMAIN C = {Under(q) : q \in DOMAIN cur} \cup {Root, Trunk}
      /\ \A q \in DOMAIN cur : C[Under(q)] = cur[q]
      /\ C[Root] = Object /\ C[Trunk] = Object
  BY TemplateIs
<1>3. /\ DOMAIN D = {Under(q) : q \in DOMAIN des} \cup {Root, Trunk}
      /\ \A q \in DOMAIN des : D[Under(q)] = des[q]
      /\ D[Root] = Object /\ D[Trunk] = Object
  BY TemplateIs
<1>4. P = {Under(l) : l \in paths}
  BY PrefixedIs
<1>5. \A p \in DOMAIN cur \cup DOMAIN des \cup paths : Under(p) \notin {Root, Trunk}
  BY RootIsNotUnder DEF IsDocument, Apart
<1> HIDE DEF C, D, P
<1>6. ASSUME NEW q \in DOMAIN cur \cup DOMAIN des \cup paths
      PROVE  /\ Under(q) \in DOMAIN C <=> q \in DOMAIN cur
             /\ Under(q) \in DOMAIN D <=> q \in DOMAIN des
  BY <1>1, <1>2, <1>3, <1>5, UnderInjective
<1>7. ASSUME NEW q \in DOMAIN cur \cup DOMAIN des
      PROVE  /\ Within(Under(q), P) <=> Within(q, paths)
             /\ (\E k \in P \cap DOMAIN D : Under(q) \in Parents(k)) <=>
                  (\E l \in paths \cap DOMAIN des : q \in Parents(l))
  <2>1. Within(Under(q), P) <=> Within(q, paths)
    BY <1>1, <1>4, UnderPrefix DEF Within
  <2>2. \A l \in paths : Under(q) \in Parents(Under(l)) <=> q \in Parents(l)
    <3> SUFFICES ASSUME NEW l \in paths
                 PROVE  Under(q) \in Parents(Under(l)) <=> q \in Parents(l)
      OBVIOUS
    <3>1. Parents(Under(l)) = {Root, Trunk} \cup {Under(p) : p \in Parents(l)}
      BY <1>1, UnderParents
    <3>2. Parents(l) \subseteq Seq(Names)
      BY <1>1, ParentsArePrefixes DEF Path
    <3> QED BY <1>1, <1>5, <3>1, <3>2, UnderInjective
  <2> QED BY <1>4, <1>6, <2>1, <2>2
<1>8. ASSUME NEW l \in paths
      PROVE  Below(C, Under(l)) \subseteq Below(D, Under(l)) <=> Below(cur, l) \subseteq Below(des, l)
  <2>1. ~IsPrefix(Under(l), Root) /\ ~IsPrefix(Under(l), Trunk)
    BY <1>1, RootIsNotUnder
  <2>2. Below(C, Under(l)) = {Under(q) : q \in Below(cur, l)}
    BY <1>1, <1>2, <2>1, UnderPrefix DEF Below
  <2>3. Below(D, Under(l)) = {Under(q) : q \in Below(des, l)}
    BY <1>1, <1>3, <2>1, UnderPrefix DEF Below
  <2>4. Below(cur, l) \subseteq Seq(Names) /\ Below(des, l) \subseteq Seq(Names)
    BY <1>1 DEF Below
  <2> DEFINE A == Below(cur, l)
             B == Below(des, l)
             G == Below(C, Under(l))
             H == Below(D, Under(l))
  <2> HIDE DEF A, B, G, H
  <2>5. /\ G = {Under(q) : q \in A} /\ H = {Under(q) : q \in B}
        /\ A \subseteq Seq(Names) /\ B \subseteq Seq(Names)
    BY <2>2, <2>3, <2>4 DEF A, B, G, H
  <2>6. ASSUME G \subseteq H PROVE A \subseteq B
    <3> SUFFICES ASSUME NEW q \in A PROVE q \in B
      OBVIOUS
    <3>1. Under(q) \in H
      <4>1. Under(q) \in G
        BY <2>5
      <4> QED BY <2>6, <4>1
    <3>2. PICK r \in B : Under(q) = Under(r)
      BY <2>5, <3>1
    <3>3. q \in Seq(Names) /\ r \in Seq(Names)
      BY <2>5
    <3>4. q = r
      BY <3>2, <3>3, UnderInjective
    <3> QED BY <3>4
  <2>7. ASSUME A \subseteq B PROVE G \subseteq H
    BY <2>5, <2>7
  <2>8. G \subseteq H <=> A \subseteq B
    BY <2>6, <2>7
  <2> QED BY <2>8 DEF A, B, G, H
<1>9. (\A k \in P \cap DOMAIN D : Below(C, k) \subseteq Below(D, k)) <=>
        (\A l \in paths \cap DOMAIN des : Below(cur, l) \subseteq Below(des, l))
  BY <1>4, <1>6, <1>8
<1> DEFINE moves(p) == \/ Within(p, P)
                       \/ p \in DOMAIN C /\ p \in DOMAIN D /\ C[p] = D[p]
                       \/ p \notin DOMAIN C /\ \E k \in P \cap DOMAIN D : p \in Parents(k)
           moved(q) == \/ Within(q, paths)
                       \/ q \in DOMAIN cur /\ q \in DOMAIN des /\ cur[q] = des[q]
                       \/ q \notin DOMAIN cur /\ \E l \in paths \cap DOMAIN des : q \in Parents(l)
<1>10. \A q \in DOMAIN cur \cup DOMAIN des : moves(Under(q)) <=> moved(q)
  BY <1>2, <1>3, <1>6, <1>7
<1>11. moves(Root) /\ moves(Trunk)
  BY <1>2, <1>3
<1>12. DOMAIN C \cup DOMAIN D = {Under(q) : q \in DOMAIN cur \cup DOMAIN des} \cup {Root, Trunk}
  BY <1>2, <1>3
<1>13. Movable(C, D, P) <=> /\ \A p \in DOMAIN C \cup DOMAIN D : moves(p)
                             /\ \A k \in P \cap DOMAIN D : Below(C, k) \subseteq Below(D, k)
  BY DEF Movable, Confined, DropsWhole
<1>14. Movable(cur, des, paths) <=>
         /\ \A q \in DOMAIN cur \cup DOMAIN des : moved(q)
         /\ \A l \in paths \cap DOMAIN des : Below(cur, l) \subseteq Below(des, l)
  BY DEF Movable, Confined, DropsWhole
<1> HIDE DEF moves, moved
<1>15. (\A p \in DOMAIN C \cup DOMAIN D : moves(p)) <=>
         (\A q \in DOMAIN cur \cup DOMAIN des : moved(q))
  BY <1>10, <1>11, <1>12
<1> QED BY <1>9, <1>13, <1>14, <1>15 DEF C, D, P

LEMMA TemplatesAgreeOn ==
  ASSUME NEW cur, NEW des, NEW paths,
         Apart(paths), \A l \in paths : Len(l) > 1 /\ l[1] = "spec",
         Comparable(cur, des, paths)
  PROVE  Patched(Template(cur), PatchBetween(Template(cur), Template(des), prefixPaths(paths))) =
           Template(des) <=>
         Patched(cur, PatchBetween(cur, des, paths)) = des
<1>1. CASE cur = Absent /\ des = Absent
  BY <1>1 DEF Template, Patched
<1>2. CASE IsDocument(cur, paths) /\ IsDocument(des, paths)
  <2>1. IsDocument(Template(cur), prefixPaths(paths)) /\ IsDocument(Template(des), prefixPaths(paths))
    BY <1>2, TemplateIsDocument
  <2>2. Comparable(Template(cur), Template(des), prefixPaths(paths)) /\ Apart(prefixPaths(paths))
    BY <2>1, PrefixedIs DEF Comparable
  <2>3. Template(cur) # Absent /\ cur # Absent
    BY <1>2, <2>1, DocumentIsThere
  <2>4. Patched(Template(cur), PatchBetween(Template(cur), Template(des), prefixPaths(paths))) =
          Template(des) <=> Movable(Template(cur), Template(des), prefixPaths(paths))
    BY <2>2, <2>3, PatchReaches
  <2>5. Patched(cur, PatchBetween(cur, des, paths)) = des <=> Movable(cur, des, paths)
    BY <2>3, PatchReaches
  <2>6. Movable(Template(cur), Template(des), prefixPaths(paths)) <=> Movable(cur, des, paths)
    BY <1>2, TemplateIsConfined
  <2> QED BY <2>4, <2>5, <2>6
<1> QED BY <1>1, <1>2 DEF Comparable

LEMMA TemplateInjective ==
  ASSUME NEW cur, NEW des, NEW paths, Comparable(cur, des, paths)
  PROVE  Template(cur) = Template(des) <=> cur = des
<1>1. CASE IsDocument(cur, paths) /\ IsDocument(des, paths) /\ Template(cur) = Template(des)
  <2>1. /\ DOMAIN cur \subseteq Path /\ DOMAIN des \subseteq Path /\ Path \subseteq Seq(Names)
        /\ cur = [q \in DOMAIN cur |-> cur[q]] /\ des = [q \in DOMAIN des |-> des[q]]
    BY <1>1 DEF IsDocument, Path
  <2> DEFINE C == Template(cur)
             D == Template(des)
  <2>2. /\ DOMAIN C = {Under(q) : q \in DOMAIN cur} \cup {Root, Trunk}
        /\ \A q \in DOMAIN cur : C[Under(q)] = cur[q]
    BY <1>1, TemplateIs
  <2>3. /\ DOMAIN D = {Under(q) : q \in DOMAIN des} \cup {Root, Trunk}
        /\ \A q \in DOMAIN des : D[Under(q)] = des[q]
    BY <1>1, TemplateIs
  <2>4. C = D
    BY <1>1
  <2> HIDE DEF C, D
  <2>5. \A q \in DOMAIN cur \cup DOMAIN des : Under(q) \notin {Root, Trunk}
    BY <2>1, RootIsNotUnder
  <2>6. DOMAIN cur = DOMAIN des
    <3>1. ASSUME NEW q \in DOMAIN cur PROVE q \in DOMAIN des
      <4>1. PICK r \in DOMAIN des : Under(q) = Under(r)
        BY <2>2, <2>3, <2>4, <2>5
      <4>2. q \in Seq(Names) /\ r \in Seq(Names)
        BY <2>1
      <4> QED BY <4>1, <4>2, UnderInjective
    <3>2. ASSUME NEW q \in DOMAIN des PROVE q \in DOMAIN cur
      <4>1. PICK r \in DOMAIN cur : Under(q) = Under(r)
        BY <2>2, <2>3, <2>4, <2>5
      <4>2. q \in Seq(Names) /\ r \in Seq(Names)
        BY <2>1
      <4> QED BY <4>1, <4>2, UnderInjective
    <3> QED BY <3>1, <3>2
  <2>7. \A q \in DOMAIN cur : cur[q] = des[q]
    BY <2>2, <2>3, <2>4, <2>6
  <2> QED BY <2>1, <2>6, <2>7
<1> QED BY <1>1 DEF Comparable

\* Where no path is listed, nothing is patched.
LEMMA NothingListed ==
  ASSUME NEW cur, NEW des, NEW paths, Comparable(cur, des, paths)
  PROVE  Patched(Template(cur), PatchBetween(Template(cur), Template(des), prefixPaths({}))) =
           Template(des) <=> cur = des
<1>1. CASE cur = Absent /\ des = Absent
  BY <1>1 DEF Template, Patched
<1>2. CASE IsDocument(cur, paths) /\ IsDocument(des, paths)
  <2>1. IsDocument(cur, {}) /\ IsDocument(des, {}) /\ Apart({})
    BY <1>2 DEF IsDocument, Apart
  <2>2. /\ IsDocument(Template(cur), prefixPaths({})) /\ IsDocument(Template(des), prefixPaths({}))
        /\ prefixPaths({}) = {} /\ Apart(prefixPaths({}))
    BY <2>1, TemplateIsDocument, PrefixedIs DEF prefixPaths
  <2>3. Template(cur) # Absent
    BY <2>2, DocumentIsThere
  <2> DEFINE C == Template(cur)
             D == Template(des)
  <2>4. /\ DOMAIN C = {Under(q) : q \in DOMAIN cur} \cup {Root, Trunk}
        /\ DOMAIN D = {Under(q) : q \in DOMAIN des} \cup {Root, Trunk}
        /\ C = [q \in DOMAIN C |-> C[q]] /\ D = [q \in DOMAIN D |-> D[q]]
    BY <1>2, TemplateIs
  <2>5. Patched(C, PatchBetween(C, D, {})) = D <=> Movable(C, D, {})
    BY <2>2, <2>3, PatchReaches DEF Comparable
  <2>6. Movable(C, D, {}) <=> C = D
    <3>1. Movable(C, D, {}) <=>
            \A p \in DOMAIN C \cup DOMAIN D : p \in DOMAIN C /\ p \in DOMAIN D /\ C[p] = D[p]
      BY DEF Movable, Confined, DropsWhole, Within
    <3> HIDE DEF C, D
    <3> QED BY <2>4, <3>1
  <2>7. C = D <=> cur = des
    BY <1>2, TemplateInjective DEF Comparable
  <2> QED BY <2>2, <2>5, <2>6, <2>7
<1> QED BY <1>1, <1>2 DEF Comparable

\* The kind a template names is that of the machines made from it, if it names one.
LEMMA TemplateNames ==
  ASSUME NEW kind
  PROVE  \/ templatedGroupKind(kind) = NoKind
         \/ templatedGroupKind(kind) = Stamped(kind)
<1>1. CASE Len(kind) > 1 /\ Last(kind) = "Template"
  <2>1. kind # <<>>
    <3> SUFFICES ASSUME kind = <<>> PROVE FALSE
      OBVIOUS
    <3>1. Len(<<>>) = 0 /\ Len(kind) = Len(<<>>)
      OBVIOUS
    <3> QED BY <1>1, <3>1
  <2> QED BY <1>1, <2>1 DEF templatedGroupKind, Stamped, NoKind
<1>2. CASE ~(Len(kind) > 1 /\ Last(kind) = "Template")
  BY <1>2 DEF templatedGroupKind
<1> QED BY <1>1, <1>2

\* What the policy lists of the kind of the machine it lists of the template, if that names a kind;
\* otherwise it lists nothing of the infrastructure.
LEMMA TemplateListed ==
  ASSUME NEW kind, NEW o \in Objects
  PROVE  LET named == templatedGroupKind(kind) IN
         IF named = NoKind /\ o = "infra" THEN Listed(named)[o] = {}
                                         ELSE Listed(named)[o] = Listed(Stamped(kind))[o]
<1>1. NoKind # <<"TinkerbellMachine">>
  <2>1. Len(<<>>) = 0 /\ Len(<<"TinkerbellMachine">>) = 1
    OBVIOUS
  <2> QED BY <2>1 DEF NoKind
<1>2. infraPathsFor(NoKind) = {}
  BY <1>1 DEF infraPathsFor
<1>3. \A k : /\ Listed(k)["machine"] = machinePaths
             /\ Listed(k)["bootstrap"] = talosConfigPaths
             /\ Listed(k)["infra"] = infraPathsFor(k)
  BY DEF Listed
<1>4. o \in {"machine", "bootstrap", "infra"}
  BY DEF Objects
<1> QED BY <1>2, <1>3, <1>4, TemplateNames

\* For all kinds, objects and sequences of edits, a MachineSet is answered as the Machine it stamps
\* out would be; and when its infrastructure template names no machine kind, with a replacement for
\* every change of it.
THEOREM TemplatesAreAnsweredAlike == Spec => []TemplatesAgree
<1> DEFINE cur == [o \in Objects |-> Template(current[o])]
           des == [o \in Objects |-> Template(desired[o])]
           patches == DoCanUpdateMachineSet(current, desired)
           unnamed == templatedGroupKind(desired.template) = NoKind
           set(o) == Patched(cur[o], patches[o]) = des[o]
           one(o) == Patched(current[o], DoCanUpdateMachine(current, desired)[o]) = desired[o]
<1>1. ASSUME TypeOK, NEW o \in Objects
      PROVE  IF unnamed /\ o = "infra" THEN set(o) <=> current[o] = desired[o]
                                       ELSE set(o) <=> one(o)
  <2> DEFINE paths == Listed(Stamped(desired.template))[o]
             under == Listed(templatedGroupKind(desired.template))[o]
  <2>1. /\ DoCanUpdateMachine(current, desired)[o] = PatchBetween(current[o], desired[o], paths)
        /\ patches[o] =
             PatchBetween(Template(current[o]), Template(desired[o]), prefixPaths(under))
        /\ cur[o] = Template(current[o]) /\ des[o] = Template(desired[o])
    BY DEF DoCanUpdateMachine, DoCanUpdateMachineSet
  <2>2. /\ Apart(paths) /\ Comparable(current[o], desired[o], paths)
        /\ \A l \in paths : Len(l) > 1 /\ l[1] = "spec"
    BY <1>1, ObjectsCompare
  <2>3. IF unnamed /\ o = "infra" THEN under = {} ELSE under = paths
    BY TemplateListed
  <2> HIDE DEF paths, under, cur, des, patches, unnamed
  <2>4. CASE unnamed /\ o = "infra"
    <3>1. Patched(Template(current[o]),
                  PatchBetween(Template(current[o]), Template(desired[o]), prefixPaths(under))) =
            Template(desired[o]) <=> current[o] = desired[o]
      BY <2>2, <2>3, <2>4, NothingListed
    <3> QED BY <2>1, <2>4, <3>1
  <2>5. CASE ~(unnamed /\ o = "infra")
    <3>1. Patched(Template(current[o]),
                  PatchBetween(Template(current[o]), Template(desired[o]), prefixPaths(under))) =
            Template(desired[o]) <=>
          Patched(current[o], PatchBetween(current[o], desired[o], paths)) = desired[o]
      BY <2>2, <2>3, <2>5, TemplatesAgreeOn
    <3> QED BY <2>1, <2>5, <3>1
  <2> QED BY <2>4, <2>5
<1>2. ASSUME TypeOK
      PROVE  one("infra") <=> (current["infra"] # Absent =>
                                 Movable(current["infra"], desired["infra"], ListedOf("infra")))
  <2>1. "infra" \in Objects
    BY DEF Objects
  <2> DEFINE paths == ListedOf("infra")
  <2>2. Apart(paths) /\ Comparable(current["infra"], desired["infra"], paths)
    BY <1>2, <2>1, ObjectsCompare DEF ListedOf
  <2>3. DoCanUpdateMachine(current, desired)["infra"] =
          PatchBetween(current["infra"], desired["infra"], paths)
    BY <2>1 DEF DoCanUpdateMachine, ListedOf
  <2> HIDE DEF paths
  <2>4. Patched(current["infra"], PatchBetween(current["infra"], desired["infra"], paths)) =
          desired["infra"] <=>
        (current["infra"] # Absent => Movable(current["infra"], desired["infra"], paths))
    BY <2>2, PatchReaches
  <2> QED BY <2>3, <2>4 DEF paths
<1>3. ASSUME TypeOK, current["infra"] = desired["infra"] PROVE one("infra")
  <2> DEFINE doc == current["infra"]
  <2>1. "infra" \in Objects
    BY DEF Objects
  <2>2. doc = Absent \/ IsDocument(doc, ListedOf("infra"))
    BY <1>3, <2>1, ObjectsCompare DEF Comparable, ListedOf
  <2>3. doc # Absent => Movable(doc, doc, ListedOf("infra"))
    BY <2>2 DEF Movable, Confined, DropsWhole
  <2> QED BY <1>2, <1>3, <2>3
<1>4. TypeOK => TemplatesAgree
  <2> SUFFICES ASSUME TypeOK PROVE TemplatesAgree
    OBVIOUS
  <2> DEFINE infraKept == current["infra"] = desired["infra"]
  <2>1. Suffices(cur, des, patches) <=> \A o \in Objects : set(o)
    BY DEF Suffices
  <2>2. InPlace <=> \A o \in Objects : one(o)
    BY DEF InPlace, Suffices
  <2>3. TemplatesAgree <=> (Suffices(cur, des, patches) <=> InPlace /\ (unnamed => infraKept))
    BY DEF TemplatesAgree
  <2>4. "infra" \in Objects
    BY DEF Objects
  <2> HIDE DEF set, one, cur, des, patches, unnamed
  <2>5. CASE unnamed
    <3>1. \A o \in Objects \ {"infra"} : set(o) <=> one(o)
      BY <1>1
    <3>2. set("infra") <=> infraKept
      BY <1>1, <2>4, <2>5
    <3>3. infraKept => one("infra")
      BY <1>3
    <3> QED BY <2>1, <2>2, <2>3, <2>4, <2>5, <3>1, <3>2, <3>3
  <2>6. CASE ~unnamed
    <3>1. \A o \in Objects : set(o) <=> one(o)
      BY <1>1, <2>6
    <3> QED BY <2>1, <2>2, <2>3, <2>6, <3>1
  <2> QED BY <2>5, <2>6
<1> QED BY <1>4, TypeCorrect, PTL

=============================================================================
