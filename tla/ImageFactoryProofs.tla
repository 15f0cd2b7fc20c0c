------------------------- MODULE ImageFactoryProofs -------------------------
(***************************************************************************)
(* Of any number of TalosConfigs, versions and extensions, and for any     *)
(* TTL: what is on record can be pulled, its extensions are offered for    *)
(* its version, what is known is resolved without the Image Factory, and   *)
(* what has been served for the TTL is not overlooked.                     *)
(*                                                                         *)
(* None of this is inductive by itself.  What is recorded rests on what    *)
(* the reconcile has established on its way, and that on the cache, whose  *)
(* answers may be old but have been true: the Image Factory takes nothing  *)
(* back.                                                                   *)
(***************************************************************************)
EXTENDS ImageFactory, TLAPS

\* Whatever the cache answers has been true at the Image Factory.
CacheIsTrue ==
  /\ versions # None => versions.values \subseteq Served
  /\ \A v \in Versions : extensions[v] # None => extensions[v].values \subseteq Offered(v)
  /\ schematics \subseteq registered

\* Where the version is resolved, and where the extensions have been checked as well.
Versioned == {"extensions", "askingExtensions", "schematic", "posting", "store"}
Checked == {"schematic", "posting", "store"}

\* What a reconcile has established.
BegunWell(r) ==
  /\ r.at = "idle" => ~r.known
  /\ r.at # "idle" => r.want \in Requests
  /\ r.at \in {"versions", "askingVersions"} => r.want.version = Bare
  /\ r.at \in {"extensions", "askingExtensions"} => r.want.extensions # {}

VersionIsGood(r) ==
  r.at \in Versioned =>
    /\ r.version \in Versions
    /\ r.want.version = Bare => r.version \in Served \ Prereleases
    /\ r.want.version # Bare => r.version = r.want.version

ExtensionsAreGood(r) ==
  /\ r.at \in Checked => r.want.extensions \subseteq Offered(r.version)
  /\ r.at = "store" => r.want.extensions \in registered

KnownIsGood(r) ==
  r.known => r.at \notin {"posting", "store"} /\ AllKnown(r.want)

Sound(c) ==
  /\ BegunWell(rec[c])
  /\ VersionIsGood(rec[c])
  /\ ExtensionsAreGood(rec[c])
  /\ KnownIsGood(rec[c])

AllSound == \A c \in Configs : Sound(c)

\* The inductive invariant.
Inv == TypeOK /\ CacheIsTrue /\ AllSound /\ ImageIsAvailable /\ ExtensionsMatchVersion

\* The Image Factory takes nothing back, and the cache forgets nothing.
FactoryGrows ==
  /\ Served \subseteq Served'
  /\ \A v \in Versions : Offered(v) \subseteq Offered(v)'
  /\ registered \subseteq registered'

CacheGrows ==
  /\ versions # None => versions' # None
  /\ \A v \in Versions : extensions[v] # None => extensions'[v] # None
  /\ schematics \subseteq schematics'

----------------------------------------------------------------------------
(* Types. *)

LEMMA IdleIsReconcile == Idle \in Reconciles
BY DEF Idle, Reconciles, Places

\* So is one that has got to another place.
LEMMA GotoType ==
  ASSUME TypeOK, NEW c \in Configs, NEW place \in Places, rec' = [rec EXCEPT ![c].at = place]
  PROVE  rec' \in [Configs -> Reconciles]
<1>1. [rec[c] EXCEPT !.at = place] \in Reconciles
  BY DEF TypeOK, Reconciles
<1> QED BY <1>1 DEF TypeOK

\* An answer makes an entry.
LEMMA EntryType ==
  /\ \A values \in SUBSET Versions : [values |-> values, age |-> 0] \in VersionEntries
  /\ \A values \in SUBSET Extensions : [values |-> values, age |-> 0] \in ExtensionEntries
  /\ None \notin VersionEntries
  /\ None \notin ExtensionEntries
<1>1. 0 \in 0 .. TTL
  BY FactoryAssumption
<1> QED BY <1>1, FactoryAssumption DEF VersionEntries, ExtensionEntries

\* A failure keeps the types.
LEMMA FailType ==
  ASSUME TypeOK, NEW c \in Configs, NEW reason \in Reasons, Fail(c, reason)
  PROVE  /\ rec' \in [Configs -> Reconciles]
         /\ condition' \in [Configs -> Reasons \cup {None}]
         /\ pin' \in [Configs -> Pins \cup {None}]
         /\ queued' \subseteq Configs
BY IdleIsReconcile DEF TypeOK, Fail

\* So do the steps that go on with a list of versions or of extensions.
LEMMA UseVersionsType ==
  ASSUME TypeOK, NEW c \in Configs, NEW values \in SUBSET Versions, UseVersions(c, values)
  PROVE  /\ rec' \in [Configs -> Reconciles]
         /\ condition' \in [Configs -> Reasons \cup {None}]
         /\ pin' \in [Configs -> Pins \cup {None}]
         /\ queued' \subseteq Configs
<1>1. CASE Released(values) = {} /\ Fail(c, "NoReleasedPatch")
  BY <1>1, FailType DEF Reasons
<1>2. ASSUME NEW v \in Released(values),
             rec' = [rec EXCEPT ![c].version = v,
                                ![c].at = IF rec[c].want.extensions = {} THEN "schematic"
                                                                         ELSE "extensions"],
             UNCHANGED <<status, queued>>
      PROVE  /\ rec' \in [Configs -> Reconciles]
             /\ condition' \in [Configs -> Reasons \cup {None}]
             /\ pin' \in [Configs -> Pins \cup {None}]
             /\ queued' \subseteq Configs
  <2> DEFINE next == IF rec[c].want.extensions = {} THEN "schematic" ELSE "extensions"
  <2>1. v \in Versions /\ next \in Places
    BY DEF Released, Places
  <2>2. rec' = [rec EXCEPT ![c] = [rec[c] EXCEPT !.version = v, !.at = next]]
    BY <1>2
  <2> HIDE DEF next
  <2>3. [rec[c] EXCEPT !.version = v, !.at = next] \in Reconciles
    BY <2>1 DEF TypeOK, Reconciles
  <2>4. rec' \in [Configs -> Reconciles]
    BY <2>2, <2>3 DEF TypeOK
  <2> QED BY <1>2, <2>4 DEF TypeOK, status
<1> QED BY <1>1, <1>2 DEF UseVersions

LEMMA UseExtensionsType ==
  ASSUME TypeOK, NEW c \in Configs, NEW values, UseExtensions(c, values)
  PROVE  /\ rec' \in [Configs -> Reconciles]
         /\ condition' \in [Configs -> Reasons \cup {None}]
         /\ pin' \in [Configs -> Pins \cup {None}]
         /\ queued' \subseteq Configs
<1>1. CASE Fail(c, "UnknownExtension")
  BY <1>1, FailType DEF Reasons
<1>2. CASE rec' = [rec EXCEPT ![c].at = "schematic"] /\ UNCHANGED <<status, queued>>
  <2>1. rec' \in [Configs -> Reconciles]
    BY <1>2, GotoType DEF Places
  <2> QED BY <1>2, <2>1 DEF TypeOK, status
<1> QED BY <1>1, <1>2 DEF UseExtensions

\* Recording an image keeps the types, once the reconcile has a version.
LEMMA RecordType ==
  ASSUME TypeOK, NEW c \in Configs, Sound(c), rec[c].at \in Checked, Record(c)
  PROVE  /\ rec' \in [Configs -> Reconciles]
         /\ condition' \in [Configs -> Reasons \cup {None}]
         /\ pin' \in [Configs -> Pins \cup {None}]
         /\ queued' \subseteq Configs
<1>1. rec[c].version \in Versions /\ rec[c].want \in Requests
  BY DEF Sound, VersionIsGood, BegunWell, Checked, Versioned
<1>2. rec[c].want.extensions \in SUBSET Extensions
  BY <1>1, FactoryAssumption
<1>3. [version |-> rec[c].version, extensions |-> rec[c].want.extensions, inputs |-> rec[c].want]
        \in Pins
  BY <1>1, <1>2 DEF Pins
<1> QED BY <1>3, IdleIsReconcile DEF TypeOK, Record, Reasons

\* The steps of one reconcile keep the types.
LEMMA TypeStep ==
  ASSUME TypeOK, CacheIsTrue, NEW c \in Configs, Sound(c),
         Begins(c) \/ Locks(c) \/ Answers(c) \/ Fails(c) \/ Edit(c)
  PROVE  TypeOK'
<1> USE FactoryAssumption DEF TypeOK
<1>a. Served \in SUBSET Versions /\ \A v \in Versions : Offered(v) \in SUBSET Extensions
  BY DEF Served, Offered
<1>b. mu' \in Configs \cup {None}
  BY DEF Begins, Locks, Answers, Fails, BeginWithout, BeginReuse, Begin, Starts, LockVersions,
     LockExtensions, LookUpSchematic, StoreSchematic, AnswerVersions, AnswerExtensions,
     RefuseExtensions, WithoutExtensions, Post, FailVersions, FailExtensions, FailPost, Edit
<1>1. CASE BeginWithout(c)
  BY <1>1 DEF BeginWithout, Starts, outside, factory, cache, status
<1>2. CASE BeginReuse(c)
  BY <1>2 DEF BeginReuse, Starts, outside, factory, cache, Reasons
<1>3. CASE Begin(c)
  <2>1. CASE Fail(c, "InvalidSpec")
    BY <1>3, <2>1, FailType DEF Reasons, Begin, Starts, outside, factory, cache
  <2>2. CASE ~Fail(c, "InvalidSpec")
    <3> DEFINE r == want[c]
               place == CASE BareMinor(r.version) -> "versions"
                          [] ~BareMinor(r.version) /\ r.extensions # {} -> "extensions"
                          [] OTHER -> "schematic"
               v == IF BareMinor(r.version) THEN None ELSE r.version
               new == [at |-> place, want |-> r, version |-> v, known |-> AllKnown(r)]
    <3>1. r \in Requests /\ r.version # Malformed
      BY <1>3, <2>2 DEF Begin
    <3>2. place \in Places
      BY DEF Places
    <3>3. v \in Versions \cup {None}
      BY <3>1 DEF BareMinor
    <3>4. AllKnown(r) \in BOOLEAN
      BY DEF AllKnown
    <3>5. rec' = [rec EXCEPT ![c] = new] /\ queued' = queued \ {c} /\ UNCHANGED status
      BY <1>3, <2>2 DEF Begin
    <3> HIDE DEF place, v, r
    <3>6. new \in Reconciles
      BY <3>1, <3>2, <3>3, <3>4 DEF Reconciles
    <3> HIDE DEF new
    <3> QED BY <1>3, <3>5, <3>6 DEF Begin, Starts, outside, factory, cache, status
  <2> QED BY <2>1, <2>2
<1>4. CASE LockVersions(c)
  <2>1. CASE Fresh(versions) /\ UseVersions(c, versions.values)
    <3>1. versions.values \in SUBSET Versions
      BY <2>1 DEF Fresh, VersionEntries
    <3> QED BY <1>4, <1>b, <2>1, <3>1, UseVersionsType DEF LockVersions, outside, factory, cache
  <2>2. CASE rec' = [rec EXCEPT ![c].at = "askingVersions"] /\ UNCHANGED <<status, queued>>
    <3>1. rec' \in [Configs -> Reconciles]
      BY <2>2, GotoType DEF Places
    <3> QED BY <1>4, <1>b, <2>2, <3>1 DEF LockVersions, outside, factory, cache, status
  <2> QED BY <1>4, <2>1, <2>2 DEF LockVersions
<1>5. CASE LockExtensions(c)
  <2>1. CASE UseExtensions(c, EntryOf(rec[c].version).values)
    BY <1>5, <1>b, <2>1, UseExtensionsType DEF LockExtensions, outside, factory, cache
  <2>2. CASE rec' = [rec EXCEPT ![c].at = "askingExtensions"] /\ UNCHANGED <<status, queued>>
    <3>1. rec' \in [Configs -> Reconciles]
      BY <2>2, GotoType DEF Places
    <3> QED BY <1>5, <1>b, <2>2, <3>1 DEF LockExtensions, outside, factory, cache, status
  <2> QED BY <1>5, <2>1, <2>2 DEF LockExtensions
<1>6. CASE LookUpSchematic(c)
  <2>1. CASE Record(c)
    BY <1>6, <2>1, RecordType DEF LookUpSchematic, outside, factory, cache, Checked
  <2>2. CASE rec' = [rec EXCEPT ![c].at = "posting"] /\ UNCHANGED <<status, queued>>
    <3>1. rec' \in [Configs -> Reconciles]
      BY <2>2, GotoType DEF Places
    <3> QED BY <1>6, <2>2, <3>1 DEF LookUpSchematic, outside, factory, cache, status
  <2> QED BY <1>6, <2>1, <2>2 DEF LookUpSchematic
<1>7. CASE StoreSchematic(c)
  <2>1. rec[c].want.extensions \in SUBSET Extensions
    BY <1>7 DEF StoreSchematic, Sound, BegunWell
  <2> QED BY <1>7, <2>1, RecordType DEF StoreSchematic, outside, factory, Checked
<1>8. CASE AnswerVersions(c)
  <2>1. versions' \in VersionEntries
    BY <1>8, <1>a, EntryType DEF AnswerVersions
  <2> QED BY <1>8, <1>a, <1>b, <2>1, UseVersionsType DEF AnswerVersions, outside, factory
<1>9. CASE AnswerExtensions(c)
  <2>1. rec[c].version \in Versions
    BY <1>9 DEF AnswerExtensions, Served
  <2>2. [values |-> Offered(rec[c].version), age |-> 0] \in ExtensionEntries
    BY ZenonT(60), <1>a, <2>1, EntryType
  <2>3. extensions' \in [Versions -> ExtensionEntries \cup {None}]
    BY <1>9, <2>1, <2>2 DEF AnswerExtensions
  <2> QED BY <1>9, <1>b, <2>3, UseExtensionsType DEF AnswerExtensions, outside, factory
<1>10. CASE RefuseExtensions(c) \/ FailExtensions(c)
  <2>1. WithoutExtensions(c) /\ upsets' \in 0 .. MaxUpsets /\ published' = published
    BY <1>10 DEF RefuseExtensions, FailExtensions, Upset
  <2>2. CASE Fail(c, "FactoryUnavailable")
    BY <1>b, <2>1, <2>2, FailType DEF WithoutExtensions, factory, cache, Reasons
  <2>3. CASE UseExtensions(c, EntryOf(rec[c].version).values)
    BY <1>b, <2>1, <2>3, UseExtensionsType DEF WithoutExtensions, factory, cache
  <2> QED BY <2>1, <2>2, <2>3 DEF WithoutExtensions
<1>11. CASE Post(c)
  <2>1. rec[c].want.extensions \in SUBSET Extensions
    BY <1>11 DEF Post, Sound, BegunWell
  <2>2. rec' \in [Configs -> Reconciles]
    BY <1>11, GotoType DEF Post, Places
  <2> QED BY <1>11, <2>1, <2>2 DEF Post, Register, cache, status
<1>12. CASE FailVersions(c)
  <2>1. CASE Fail(c, "FactoryUnavailable")
    <3>1. "FactoryUnavailable" \in Reasons
      BY DEF Reasons
    <3>2. /\ rec' \in [Configs -> Reconciles]
          /\ condition' \in [Configs -> Reasons \cup {None}]
          /\ pin' \in [Configs -> Pins \cup {None}]
          /\ queued' \subseteq Configs
      BY <2>1, <3>1, FailType
    <3> QED BY <1>12, <1>b, <3>2 DEF FailVersions, Upset, factory, cache
  <2>2. CASE versions # None /\ UseVersions(c, versions.values)
    <3>1. versions.values \in SUBSET Versions
      BY <2>2 DEF VersionEntries
    <3> QED BY <1>12, <1>b, <2>2, <3>1, UseVersionsType DEF FailVersions, Upset, factory, cache
  <2> QED BY <1>12, <2>1, <2>2 DEF FailVersions
<1>13. CASE FailPost(c)
  <2>1. rec[c].want.extensions \in SUBSET Extensions
    BY <1>13 DEF FailPost, Sound, BegunWell
  <2>2. registered' \subseteq SUBSET Extensions
    BY <1>13, <2>1 DEF FailPost, Register
  <2>3. Fail(c, "FactoryUnavailable")
    BY <1>13 DEF FailPost
  <2>4. "FactoryUnavailable" \in Reasons
    BY DEF Reasons
  <2>5. /\ rec' \in [Configs -> Reconciles]
        /\ condition' \in [Configs -> Reasons \cup {None}]
        /\ pin' \in [Configs -> Pins \cup {None}]
        /\ queued' \subseteq Configs
    BY <2>3, <2>4, FailType
  <2> QED BY <1>13, <2>2, <2>5 DEF FailPost, Upset, cache
<1>14. CASE Edit(c)
  BY <1>14 DEF Edit, Upset, factory, cache, status
<1> QED
  BY <1>1, <1>2, <1>3, <1>4, <1>5, <1>6, <1>7, <1>8, <1>9, <1>10, <1>11, <1>12, <1>13, <1>14
  DEF Begins, Locks, Answers, Fails

\* So does what happens around them.
LEMMA LaterType ==
  ASSUME NEW t \in {NotYet} \cup 0 .. TTL
  PROVE  /\ Later(t) \in {NotYet} \cup 0 .. TTL
         /\ t \in 0 .. TTL => Later(t) \in 0 .. TTL
         /\ Later(t) = NotYet <=> t = NotYet
BY FactoryAssumption DEF Later, NotYet

LEMMA AgedType ==
  ASSUME TypeOK
  PROVE  /\ Aged(versions) \in VersionEntries \cup {None}
         /\ \A v \in Versions : Aged(extensions[v]) \in ExtensionEntries \cup {None}
         /\ versions # None => Aged(versions) \in VersionEntries
         /\ \A v \in Versions : extensions[v] # None => Aged(extensions[v]) \in ExtensionEntries
<1>1. ASSUME versions # None
      PROVE  [versions EXCEPT !.age = Later(versions.age)] \in VersionEntries
  <2>1. versions \in VersionEntries
    BY <1>1 DEF TypeOK
  <2>2. Later(versions.age) \in 0 .. TTL
    BY <2>1, LaterType DEF VersionEntries
  <2> QED BY <2>1, <2>2 DEF VersionEntries
<1>2. ASSUME NEW v \in Versions, extensions[v] # None
      PROVE  [extensions[v] EXCEPT !.age = Later(extensions[v].age)] \in ExtensionEntries
  <2>1. extensions[v] \in ExtensionEntries
    BY <1>2 DEF TypeOK
  <2>2. Later(extensions[v].age) \in 0 .. TTL
    BY <2>1, LaterType DEF ExtensionEntries
  <2> QED BY <2>1, <2>2 DEF ExtensionEntries
<1> QED BY <1>1, <1>2 DEF Aged

LEMMA TypeAround ==
  ASSUME TypeOK,
         \/ Restart
         \/ Tick
         \/ \E v \in Versions : Publish(v)
         \/ \E v \in Versions, e \in Extensions : Offer(v, e)
  PROVE  TypeOK'
<1> USE FactoryAssumption DEF TypeOK
<1>1. CASE Restart
  BY <1>1, IdleIsReconcile DEF Restart, Upset, factory, status
<1>2. CASE Tick
  <2>1. servedFor' \in [Versions -> {NotYet} \cup 0 .. TTL]
    BY <1>2, LaterType DEF Tick
  <2>2. offeredFor' \in [Versions -> [Extensions -> {NotYet} \cup 0 .. TTL]]
    <3>1. ASSUME NEW v \in Versions
          PROVE  [e \in Extensions |-> Later(offeredFor[v][e])]
                   \in [Extensions -> {NotYet} \cup 0 .. TTL]
      BY LaterType
    <3> QED BY <1>2, <3>1 DEF Tick
  <2>3. versions' \in VersionEntries \cup {None}
    BY <1>2, AgedType DEF Tick
  <2>4. extensions' \in [Versions -> ExtensionEntries \cup {None}]
    BY <1>2, AgedType DEF Tick
  <2> QED BY <1>2, <2>1, <2>2, <2>3, <2>4 DEF Tick, status
<1>3. ASSUME NEW v \in Versions, Publish(v)
      PROVE  TypeOK'
  BY <1>3 DEF Publish, cache, status
<1>4. ASSUME NEW v \in Versions, NEW e \in Extensions, Offer(v, e)
      PROVE  TypeOK'
  <2>1. offeredFor' = [offeredFor EXCEPT ![v] = [offeredFor[v] EXCEPT ![e] = 0]]
    BY <1>4 DEF Offer
  <2>2. [offeredFor[v] EXCEPT ![e] = 0] \in [Extensions -> {NotYet} \cup 0 .. TTL]
    OBVIOUS
  <2>3. offeredFor' \in [Versions -> [Extensions -> {NotYet} \cup 0 .. TTL]]
    BY <2>1, <2>2
  <2> QED BY <1>4, <2>3 DEF Offer, cache, status
<1> QED BY <1>1, <1>2, <1>3, <1>4

----------------------------------------------------------------------------
(* What a reconcile has established. *)

\* The Image Factory takes nothing back.
LEMMA NothingTakenBack ==
  ASSUME TypeOK, [Next]_vars
  PROVE  FactoryGrows
<1> USE DEF TypeOK, FactoryGrows, Served, Offered
<1>1. CASE UNCHANGED factory
  BY <1>1 DEF factory
<1>2. CASE Tick
  <2>1. \A v \in Versions : servedFor[v] # NotYet => servedFor'[v] # NotYet
    BY <1>2, LaterType DEF Tick
  <2>2. \A v \in Versions, e \in Extensions :
          offeredFor[v][e] # NotYet => offeredFor'[v][e] # NotYet
    BY <1>2, LaterType DEF Tick
  <2> QED BY <1>2, <2>1, <2>2 DEF Tick
<1>3. ASSUME NEW v \in Versions, Publish(v)
      PROVE  FactoryGrows
  BY <1>3, FactoryAssumption DEF Publish, NotYet
<1>4. ASSUME NEW v \in Versions, NEW e \in Extensions, Offer(v, e)
      PROVE  FactoryGrows
  BY <1>4, FactoryAssumption DEF Offer, NotYet
<1>5. ASSUME NEW c \in Configs, Post(c) \/ FailPost(c)
      PROVE  FactoryGrows
  BY <1>5 DEF Post, FailPost, Register
<1>6. ASSUME NEW c \in Configs, Begins(c) \/ Locks(c) \/ Answers(c) \/ Fails(c) \/ Edit(c),
             ~(Post(c) \/ FailPost(c))
      PROVE  UNCHANGED factory
  BY <1>6 DEF Begins, Locks, Answers, Fails, BeginWithout, BeginReuse, Begin, Starts, outside,
     LockVersions, LockExtensions, LookUpSchematic, StoreSchematic, AnswerVersions,
     AnswerExtensions, RefuseExtensions, WithoutExtensions, FailVersions, FailExtensions, Edit
<1>7. CASE Restart
  BY <1>1, <1>7 DEF Restart
<1>8. CASE UNCHANGED vars
  BY <1>1, <1>8 DEF vars
<1> QED BY <1>1, <1>2, <1>3, <1>4, <1>5, <1>6, <1>7, <1>8 DEF Next

\* The cache forgets nothing while the controller runs.
LEMMA NothingForgotten ==
  ASSUME TypeOK, [Next]_vars, ~Restart
  PROVE  CacheGrows
<1> USE FactoryAssumption DEF TypeOK, CacheGrows
<1>1. CASE UNCHANGED cache
  BY <1>1 DEF cache
<1>2. CASE Tick
  <2>1. versions # None => versions' # None
    BY <1>2, AgedType, EntryType DEF Tick
  <2>2. \A v \in Versions : extensions[v] # None => extensions'[v] # None
    BY <1>2, AgedType, EntryType DEF Tick
  <2> QED BY <1>2, <2>1, <2>2 DEF Tick
<1>3. ASSUME NEW c \in Configs, AnswerVersions(c)
      PROVE  CacheGrows
  <2>1. versions' \in VersionEntries
    BY <1>3, EntryType DEF AnswerVersions, Served
  <2> QED BY <1>3, <2>1, EntryType DEF AnswerVersions
<1>4. ASSUME NEW c \in Configs, AnswerExtensions(c)
      PROVE  CacheGrows
  <2>1. [values |-> Offered(rec[c].version), age |-> 0] \in ExtensionEntries
    BY EntryType DEF Offered
  <2> QED BY <1>4, <2>1, EntryType DEF AnswerExtensions
<1>5. ASSUME NEW c \in Configs, StoreSchematic(c)
      PROVE  CacheGrows
  BY <1>5 DEF StoreSchematic
<1>6. ASSUME NEW c \in Configs, Begins(c) \/ Locks(c) \/ Answers(c) \/ Fails(c) \/ Edit(c),
             ~(AnswerVersions(c) \/ AnswerExtensions(c) \/ StoreSchematic(c))
      PROVE  UNCHANGED cache
  BY <1>6 DEF Begins, Locks, Answers, Fails, BeginWithout, BeginReuse, Begin, Starts,
     LockVersions, LockExtensions, LookUpSchematic, RefuseExtensions, WithoutExtensions, Post,
     FailVersions, FailExtensions, FailPost, Edit
<1>7. ASSUME NEW v \in Versions, Publish(v) \/ \E e \in Extensions : Offer(v, e)
      PROVE  UNCHANGED cache
  BY <1>7 DEF Publish, Offer
<1>8. CASE UNCHANGED vars
  BY <1>1, <1>8 DEF vars
<1> QED BY ZenonT(60), <1>1, <1>2, <1>3, <1>4, <1>5, <1>6, <1>7, <1>8 DEF Next

\* A reconcile that takes no step has established what it had.
LEMMA StaysSound ==
  ASSUME TypeOK, FactoryGrows, CacheGrows, NEW c \in Configs, Sound(c), rec'[c] = rec[c]
  PROVE  Sound(c)'
<1> DEFINE r == rec[c]
<1>1. rec[c].at \in Versioned => rec[c].version \in Versions
  BY DEF Sound, VersionIsGood
<1>2. rec[c].at \in Checked => rec[c].at \in Versioned
  BY DEF Checked, Versioned
<1>3. VersionIsGood(rec[c])'
  BY DEF Sound, VersionIsGood, FactoryGrows
<1>4. ExtensionsAreGood(rec[c])'
  BY <1>1, <1>2 DEF Sound, ExtensionsAreGood, FactoryGrows
<1>5. KnownIsGood(rec[c])'
  BY DEF Sound, KnownIsGood, AllKnown, CacheGrows
<1> QED BY <1>3, <1>4, <1>5 DEF Sound, BegunWell

\* One that is over has nothing to show.
LEMMA IdleSound ==
  ASSUME NEW c \in Configs, rec'[c] = Idle
  PROVE  Sound(c)'
BY DEF Sound, BegunWell, VersionIsGood, ExtensionsAreGood, KnownIsGood, Versioned, Checked, Idle

LEMMA FailSound ==
  ASSUME TypeOK, NEW c \in Configs, NEW reason, Fail(c, reason)
  PROVE  Sound(c)' /\ rec'[c] = Idle /\ pin' = pin /\ \A d \in Configs \ {c} : rec'[d] = rec[d]
<1>1. rec'[c] = Idle /\ pin' = pin /\ \A d \in Configs \ {c} : rec'[d] = rec[d]
  BY DEF TypeOK, Fail
<1> QED BY <1>1, IdleSound

\* Resolving the version with a true list.
LEMMA UseVersionsSound ==
  ASSUME TypeOK, FactoryGrows, CacheGrows, NEW c \in Configs, Sound(c),
         rec[c].at \in {"versions", "askingVersions"},
         NEW values \in SUBSET Served, UseVersions(c, values)
  PROVE  Sound(c)' /\ pin' = pin /\ \A d \in Configs \ {c} : rec'[d] = rec[d]
<1>1. CASE Fail(c, "NoReleasedPatch")
  BY <1>1, FailSound
<1>2. ASSUME NEW v \in Released(values),
             rec' = [rec EXCEPT ![c].version = v,
                                ![c].at = IF rec[c].want.extensions = {} THEN "schematic"
                                                                         ELSE "extensions"],
             UNCHANGED <<status, queued>>
      PROVE  Sound(c)' /\ pin' = pin /\ \A d \in Configs \ {c} : rec'[d] = rec[d]
  <2>1. v \in Served \ Prereleases /\ v \in Versions
    BY DEF Released, Served
  <2>2. /\ rec'[c].version = v
        /\ rec'[c].at = IF rec[c].want.extensions = {} THEN "schematic" ELSE "extensions"
        /\ rec'[c].want = rec[c].want
        /\ rec'[c].known = rec[c].known
    BY <1>2 DEF TypeOK, Reconciles
  <2>3. \A d \in Configs \ {c} : rec'[d] = rec[d]
    BY <1>2 DEF TypeOK
  <2>4. rec[c].want \in Requests /\ rec[c].want.version = Bare
    BY DEF Sound, BegunWell
  <2>5. BegunWell(rec[c])'
    BY <2>2, <2>4 DEF BegunWell
  <2>6. VersionIsGood(rec[c])'
    BY <2>1, <2>2, <2>4 DEF VersionIsGood, FactoryGrows
  <2>7. ExtensionsAreGood(rec[c])'
    BY <2>2 DEF ExtensionsAreGood, Checked
  <2>8. KnownIsGood(rec[c])'
    BY <2>2 DEF Sound, KnownIsGood, AllKnown, CacheGrows
  <2> QED BY <1>2, <2>3, <2>5, <2>6, <2>7, <2>8 DEF Sound, status
<1> QED BY <1>1, <1>2 DEF UseVersions

\* Checking the extensions with a true list.
LEMMA UseExtensionsSound ==
  ASSUME TypeOK, FactoryGrows, CacheGrows, NEW c \in Configs, Sound(c),
         rec[c].at \in {"extensions", "askingExtensions"},
         NEW values \in SUBSET Offered(rec[c].version), UseExtensions(c, values)
  PROVE  Sound(c)' /\ pin' = pin /\ \A d \in Configs \ {c} : rec'[d] = rec[d]
<1>1. CASE Fail(c, "UnknownExtension")
  BY <1>1, FailSound
<1>2. CASE /\ rec[c].want.extensions \subseteq values
           /\ rec' = [rec EXCEPT ![c].at = "schematic"]
           /\ UNCHANGED <<status, queued>>
  <2>1. /\ rec'[c].version = rec[c].version
        /\ rec'[c].at = "schematic"
        /\ rec'[c].want = rec[c].want
        /\ rec'[c].known = rec[c].known
    BY <1>2 DEF TypeOK, Reconciles
  <2>2. \A d \in Configs \ {c} : rec'[d] = rec[d]
    BY <1>2 DEF TypeOK
  <2>3. /\ rec[c].want \in Requests
        /\ rec[c].version \in Versions
        /\ rec[c].want.version = Bare => rec[c].version \in Served \ Prereleases
        /\ rec[c].want.version # Bare => rec[c].version = rec[c].want.version
    BY DEF Sound, BegunWell, VersionIsGood, Versioned
  <2>4. VersionIsGood(rec[c])'
    BY <2>1, <2>3 DEF VersionIsGood, FactoryGrows
  <2>5. ExtensionsAreGood(rec[c])'
    BY <1>2, <2>1, <2>3 DEF ExtensionsAreGood, FactoryGrows
  <2>6. KnownIsGood(rec[c])'
    BY <2>1 DEF Sound, KnownIsGood, AllKnown, CacheGrows
  <2>7. BegunWell(rec[c])'
    BY <2>1, <2>3 DEF BegunWell
  <2> QED BY <1>2, <2>2, <2>4, <2>5, <2>6, <2>7 DEF Sound, status
<1> QED BY <1>1, <1>2 DEF UseExtensions

\* Recording what has been established.
ImageIsGood(c) ==
  pin[c] # None =>
    /\ pin[c].extensions \in registered
    /\ pin[c].inputs.version = Bare => pin[c].version \in Served \ Prereleases
    /\ pin[c].extensions \subseteq Offered(pin[c].version)

LEMMA RecordSound ==
  ASSUME TypeOK, FactoryGrows, NEW c \in Configs, Sound(c), rec[c].at \in Checked, Record(c),
         rec[c].want.extensions \in registered
  PROVE  /\ Sound(c)'
         /\ ImageIsGood(c)'
         /\ \A d \in Configs \ {c} : rec'[d] = rec[d] /\ pin'[d] = pin[d]
<1>1. rec'[c] = Idle /\ \A d \in Configs \ {c} : rec'[d] = rec[d] /\ pin'[d] = pin[d]
  BY DEF TypeOK, Record
<1>2. pin'[c] = [version |-> rec[c].version, extensions |-> rec[c].want.extensions,
                 inputs |-> rec[c].want]
  BY DEF TypeOK, Record
<1>3. /\ rec[c].version \in Versions
      /\ rec[c].want.version = Bare => rec[c].version \in Served \ Prereleases
      /\ rec[c].want.extensions \subseteq Offered(rec[c].version)
  BY DEF Sound, VersionIsGood, ExtensionsAreGood, Checked, Versioned
<1>4. ImageIsGood(c)'
  BY <1>2, <1>3 DEF ImageIsGood, FactoryGrows
<1> QED BY <1>1, <1>4, IdleSound

\* An image on record stays good.
LEMMA ImageStaysGood ==
  ASSUME TypeOK, FactoryGrows, NEW c \in Configs, ImageIsGood(c), pin'[c] = pin[c]
  PROVE  ImageIsGood(c)'
<1>1. pin[c] # None => pin[c].version \in Versions
  BY DEF TypeOK, Pins
<1> QED BY <1>1 DEF ImageIsGood, FactoryGrows

ImagesAreGood == \A c \in Configs : ImageIsGood(c)

LEMMA ImagesAre == ImagesAreGood <=> ImageIsAvailable /\ ExtensionsMatchVersion
BY DEF ImagesAreGood, ImageIsGood, ImageIsAvailable, ExtensionsMatchVersion

\* What one reconcile does keeps all sound.
LEMMA SoundStep ==
  ASSUME TypeOK, CacheIsTrue, FactoryGrows, CacheGrows, NEW c \in Configs, Sound(c),
         ImageIsGood(c), Begins(c) \/ Locks(c) \/ Answers(c) \/ Fails(c) \/ Edit(c)
  PROVE  /\ Sound(c)'
         /\ ImageIsGood(c)'
         /\ \A d \in Configs \ {c} : rec'[d] = rec[d] /\ pin'[d] = pin[d]
<1>a. ASSUME Sound(c)', pin' = pin, \A d \in Configs \ {c} : rec'[d] = rec[d]
      PROVE  /\ Sound(c)'
             /\ ImageIsGood(c)'
             /\ \A d \in Configs \ {c} : rec'[d] = rec[d] /\ pin'[d] = pin[d]
  BY <1>a, ImageStaysGood
<1>b. ASSUME rec' = rec, pin' = pin
      PROVE  Sound(c)'
  BY <1>b, StaysSound
<1>1. CASE BeginWithout(c)
  <2>1. pin'[c] = None /\ \A d \in Configs \ {c} : pin'[d] = pin[d]
    BY <1>1 DEF BeginWithout, TypeOK
  <2>2. rec' = rec
    BY <1>1 DEF BeginWithout
  <2>3. Sound(c)'
    BY <2>2, StaysSound
  <2> QED BY <2>1, <2>2, <2>3 DEF ImageIsGood
<1>2. CASE BeginReuse(c) \/ Edit(c)
  BY <1>2, <1>a, <1>b DEF BeginReuse, Edit, status
<1>3. CASE Begin(c)
  <2>1. CASE Fail(c, "InvalidSpec")
    BY <2>1, <1>a, FailSound
  <2>2. CASE ~Fail(c, "InvalidSpec")
    <3> DEFINE r == want[c]
               place == CASE BareMinor(r.version) -> "versions"
                          [] ~BareMinor(r.version) /\ r.extensions # {} -> "extensions"
                          [] OTHER -> "schematic"
               v == IF BareMinor(r.version) THEN None ELSE r.version
    <3>1. r \in Requests /\ r.version # Malformed
      BY <1>3, <2>2 DEF Begin, TypeOK
    <3>2. /\ r.version = Bare => place = "versions"
          /\ r.version # Bare => place \in {"extensions", "schematic"} /\ v = r.version
          /\ place = "schematic" => r.extensions = {}
          /\ place = "extensions" => r.extensions # {}
      BY DEF BareMinor
    <3>3. r.version # Bare => r.version \in Versions
      BY <3>1, FactoryAssumption
    <3>4. /\ rec'[c].at = place
          /\ rec'[c].want = r
          /\ rec'[c].version = v
          /\ rec'[c].known = AllKnown(r)
          /\ \A d \in Configs \ {c} : rec'[d] = rec[d]
          /\ pin' = pin
      BY <1>3, <2>2 DEF Begin, TypeOK, status
    <3>5. UNCHANGED cache
      BY <1>3 DEF Begin, Starts
    <3> HIDE DEF place, v, r
    <3>6. BegunWell(rec[c])'
      BY <3>1, <3>2, <3>4 DEF BegunWell
    <3>7. VersionIsGood(rec[c])'
      BY <3>2, <3>3, <3>4 DEF VersionIsGood, Versioned
    <3>8. ExtensionsAreGood(rec[c])'
      BY <3>2, <3>4 DEF ExtensionsAreGood, Checked
    <3>9. KnownIsGood(rec[c])'
      BY <3>2, <3>4, <3>5 DEF KnownIsGood, AllKnown, cache
    <3> QED BY <1>a, <3>4, <3>6, <3>7, <3>8, <3>9 DEF Sound
  <2> QED BY <2>1, <2>2
<1>4. CASE LockVersions(c) \/ AnswerVersions(c) \/ FailVersions(c)
  <2>1. ASSUME rec' = [rec EXCEPT ![c].at = "askingVersions"], UNCHANGED status, LockVersions(c)
        PROVE  Sound(c)' /\ pin' = pin /\ \A d \in Configs \ {c} : rec'[d] = rec[d]
    <3>1. /\ rec'[c] = [rec[c] EXCEPT !.at = "askingVersions"]
          /\ \A d \in Configs \ {c} : rec'[d] = rec[d]
      BY <2>1 DEF TypeOK
    <3>2. /\ rec'[c].at = "askingVersions"
          /\ rec'[c].want = rec[c].want
          /\ rec'[c].known = rec[c].known
      BY <3>1 DEF TypeOK, Reconciles
    <3>3. rec[c].at = "versions"
      BY <2>1 DEF LockVersions
    <3>4. BegunWell(rec[c])' /\ VersionIsGood(rec[c])' /\ ExtensionsAreGood(rec[c])'
      BY <3>2, <3>3
      DEF Sound, BegunWell, VersionIsGood, ExtensionsAreGood, Versioned, Checked
    <3>5. KnownIsGood(rec[c])'
      BY <3>2, <3>3 DEF Sound, KnownIsGood, AllKnown, CacheGrows
    <3> QED BY <2>1, <3>1, <3>4, <3>5 DEF Sound, status
  <2>2. ASSUME NEW reason, Fail(c, reason)
        PROVE  Sound(c)' /\ pin' = pin /\ \A d \in Configs \ {c} : rec'[d] = rec[d]
    BY <2>2, FailSound
  <2>3. rec[c].at \in {"versions", "askingVersions"}
    BY <1>4 DEF LockVersions, AnswerVersions, FailVersions
  <2>4. versions # None => versions.values \in SUBSET Served
    BY DEF CacheIsTrue
  <2>5. ASSUME NEW values \in SUBSET Served, UseVersions(c, values)
        PROVE  Sound(c)' /\ pin' = pin /\ \A d \in Configs \ {c} : rec'[d] = rec[d]
    BY <2>3, <2>5, UseVersionsSound
  <2>6. CASE LockVersions(c)
    BY <1>a, <2>1, <2>4, <2>5, <2>6 DEF LockVersions, Fresh
  <2>7. CASE AnswerVersions(c)
    BY <1>a, <2>5, <2>7 DEF AnswerVersions
  <2>8. CASE FailVersions(c)
    BY <1>a, <2>2, <2>4, <2>5, <2>8 DEF FailVersions
  <2> QED BY <1>4, <2>6, <2>7, <2>8
<1>5. CASE LockExtensions(c) \/ AnswerExtensions(c) \/ FailExtensions(c) \/ RefuseExtensions(c)
  <2>1. ASSUME rec' = [rec EXCEPT ![c].at = "askingExtensions"], UNCHANGED status,
               LockExtensions(c)
        PROVE  Sound(c)' /\ pin' = pin /\ \A d \in Configs \ {c} : rec'[d] = rec[d]
    <3>1. /\ rec'[c] = [rec[c] EXCEPT !.at = "askingExtensions"]
          /\ \A d \in Configs \ {c} : rec'[d] = rec[d]
      BY <2>1 DEF TypeOK
    <3>2. /\ rec'[c].at = "askingExtensions"
          /\ rec'[c].want = rec[c].want
          /\ rec'[c].version = rec[c].version
          /\ rec'[c].known = rec[c].known
      BY <3>1 DEF TypeOK, Reconciles
    <3>3. rec[c].at = "extensions"
      BY <2>1 DEF LockExtensions
    <3>4. BegunWell(rec[c])' /\ ExtensionsAreGood(rec[c])'
      BY <3>2, <3>3 DEF Sound, BegunWell, ExtensionsAreGood, Checked
    <3>5. VersionIsGood(rec[c])'
      BY <3>2, <3>3 DEF Sound, VersionIsGood, Versioned, FactoryGrows
    <3>6. KnownIsGood(rec[c])'
      BY <3>2, <3>3 DEF Sound, KnownIsGood, AllKnown, CacheGrows
    <3> QED BY <2>1, <3>1, <3>4, <3>5, <3>6 DEF Sound, status
  <2>2. ASSUME NEW reason, Fail(c, reason)
        PROVE  Sound(c)' /\ pin' = pin /\ \A d \in Configs \ {c} : rec'[d] = rec[d]
    BY <2>2, FailSound
  <2>3. rec[c].at \in {"extensions", "askingExtensions"}
    BY <1>5 DEF LockExtensions, AnswerExtensions, FailExtensions, RefuseExtensions,
       WithoutExtensions
  <2>4. EntryOf(rec[c].version) # None =>
          EntryOf(rec[c].version).values \in SUBSET Offered(rec[c].version)
    BY <2>3 DEF CacheIsTrue, EntryOf, Sound, VersionIsGood, Versioned
  <2>5. ASSUME NEW values \in SUBSET Offered(rec[c].version), UseExtensions(c, values)
        PROVE  Sound(c)' /\ pin' = pin /\ \A d \in Configs \ {c} : rec'[d] = rec[d]
    BY <2>3, <2>5, UseExtensionsSound
  <2>6. CASE LockExtensions(c)
    BY <1>a, <2>1, <2>4, <2>5, <2>6 DEF LockExtensions, Fresh
  <2>7. CASE AnswerExtensions(c)
    BY <1>a, <2>5, <2>7 DEF AnswerExtensions
  <2>8. CASE FailExtensions(c) \/ RefuseExtensions(c)
    BY <1>a, <2>2, <2>4, <2>5, <2>8 DEF FailExtensions, RefuseExtensions, WithoutExtensions
  <2> QED BY <1>5, <2>6, <2>7, <2>8
<1>6. CASE LookUpSchematic(c)
  <2>1. CASE rec[c].want.extensions \in schematics /\ Record(c)
    BY <1>6, <2>1, RecordSound DEF LookUpSchematic, CacheIsTrue, Checked
  <2>2. CASE /\ rec[c].want.extensions \notin schematics
             /\ rec' = [rec EXCEPT ![c].at = "posting"]
             /\ UNCHANGED <<status, queued>>
    <3>1. /\ rec'[c] = [rec[c] EXCEPT !.at = "posting"]
          /\ \A d \in Configs \ {c} : rec'[d] = rec[d]
      BY <2>2 DEF TypeOK
    <3>2. /\ rec'[c].at = "posting"
          /\ rec'[c].want = rec[c].want
          /\ rec'[c].version = rec[c].version
          /\ rec'[c].known = rec[c].known
      BY <3>1 DEF TypeOK, Reconciles
    <3>3. rec[c].at = "schematic"
      BY <1>6 DEF LookUpSchematic
    <3>4. BegunWell(rec[c])'
      BY <3>2, <3>3 DEF Sound, BegunWell
    <3>5. VersionIsGood(rec[c])' /\ ExtensionsAreGood(rec[c])'
      BY <3>2, <3>3
      DEF Sound, VersionIsGood, ExtensionsAreGood, Versioned, Checked, FactoryGrows
    <3>6. KnownIsGood(rec[c])'
      BY <2>2, <3>2 DEF Sound, KnownIsGood, AllKnown
    <3> QED BY <1>a, <2>2, <3>1, <3>4, <3>5, <3>6 DEF Sound, status
  <2> QED BY <1>6, <2>1, <2>2 DEF LookUpSchematic
<1>7. CASE Post(c)
  <2>1. /\ rec'[c] = [rec[c] EXCEPT !.at = "store"]
        /\ \A d \in Configs \ {c} : rec'[d] = rec[d]
    BY <1>7 DEF Post, TypeOK
  <2>2. /\ rec'[c].at = "store"
        /\ rec'[c].want = rec[c].want
        /\ rec'[c].version = rec[c].version
        /\ rec'[c].known = rec[c].known
    BY <2>1 DEF TypeOK, Reconciles
  <2>3. rec[c].at = "posting"
    BY <1>7 DEF Post
  <2>4. BegunWell(rec[c])' /\ VersionIsGood(rec[c])'
    BY <2>2, <2>3 DEF Sound, BegunWell, VersionIsGood, Versioned, FactoryGrows
  <2>5. ExtensionsAreGood(rec[c])'
    BY <1>7, <2>2, <2>3
    DEF Post, Register, Sound, VersionIsGood, ExtensionsAreGood, Versioned, Checked, FactoryGrows
  <2>6. KnownIsGood(rec[c])'
    BY <2>2, <2>3 DEF Sound, KnownIsGood
  <2>7. pin' = pin
    BY <1>7 DEF Post, status
  <2> QED BY <1>a, <2>1, <2>4, <2>5, <2>6, <2>7 DEF Sound
<1>8. CASE StoreSchematic(c)
  <2>1. rec[c].want.extensions \in registered
    BY <1>8 DEF StoreSchematic, Sound, ExtensionsAreGood
  <2> QED BY <1>8, <2>1, RecordSound DEF StoreSchematic, Checked
<1>9. CASE FailPost(c)
  BY <1>9, <1>a, FailSound DEF FailPost
<1> QED
  BY <1>1, <1>2, <1>3, <1>4, <1>5, <1>6, <1>7, <1>8, <1>9 DEF Begins, Locks, Answers, Fails

\* Whatever the cache answers stays true, and what it takes in is true.
LEMMA CacheStaysTrue ==
  ASSUME TypeOK, CacheIsTrue, AllSound, [Next]_vars
  PROVE  CacheIsTrue'
<1> USE FactoryAssumption DEF TypeOK
<1>1. FactoryGrows
  BY NothingTakenBack
<1>2. CASE UNCHANGED cache
  BY <1>1, <1>2 DEF CacheIsTrue, cache, FactoryGrows
<1>3. CASE Restart
  BY <1>3 DEF Restart, CacheIsTrue
<1>4. CASE Tick
  <2>1. versions' # None => versions # None /\ versions'.values = versions.values
    <3>1. ASSUME versions # None
          PROVE  Aged(versions).values = versions.values
      BY <3>1 DEF Aged, VersionEntries
    <3>2. versions = None => Aged(versions) = None
      BY DEF Aged
    <3> QED BY <1>4, <3>1, <3>2 DEF Tick
  <2>2. ASSUME NEW v \in Versions, extensions'[v] # None
        PROVE  extensions[v] # None /\ extensions'[v].values = extensions[v].values
    <3>1. extensions'[v] = Aged(extensions[v])
      BY <1>4 DEF Tick
    <3>2. extensions[v] # None
      BY <2>2, <3>1 DEF Aged
    <3>3. Aged(extensions[v]).values = extensions[v].values
      BY <3>2 DEF Aged, ExtensionEntries
    <3> QED BY <3>1, <3>2, <3>3
  <2>4. schematics' = schematics
    BY <1>4 DEF Tick
  <2> QED BY <1>1, <2>1, <2>2, <2>4 DEF CacheIsTrue, FactoryGrows
<1>5. ASSUME NEW c \in Configs, AnswerVersions(c)
      PROVE  CacheIsTrue'
  BY <1>1, <1>5 DEF AnswerVersions, CacheIsTrue, FactoryGrows
<1>6. ASSUME NEW c \in Configs, AnswerExtensions(c)
      PROVE  CacheIsTrue'
  <2>1. /\ versions' = versions
        /\ schematics' = schematics
        /\ extensions' = [extensions EXCEPT ![rec[c].version] =
                            [values |-> Offered(rec[c].version), age |-> 0]]
    BY <1>6 DEF AnswerExtensions
  <2>2. ASSUME NEW v \in Versions, extensions'[v] # None
        PROVE  extensions'[v].values \subseteq Offered(v)'
    <3>1. CASE v = rec[c].version
      BY <1>1, <2>1, <3>1 DEF FactoryGrows
    <3>2. CASE v # rec[c].version
      BY <1>1, <2>1, <2>2, <3>2 DEF CacheIsTrue, FactoryGrows
    <3> QED BY <3>1, <3>2
  <2> QED BY <1>1, <2>1, <2>2 DEF CacheIsTrue, FactoryGrows
<1>7. ASSUME NEW c \in Configs, StoreSchematic(c)
      PROVE  CacheIsTrue'
  <2>1. rec[c].want.extensions \in registered
    BY <1>7 DEF StoreSchematic, AllSound, Sound, ExtensionsAreGood
  <2>2. /\ versions' = versions
        /\ extensions' = extensions
        /\ schematics' = schematics \cup {rec[c].want.extensions}
    BY <1>7 DEF StoreSchematic
  <2>3. versions' # None => versions'.values \subseteq Served'
    BY <1>1, <2>2 DEF CacheIsTrue, FactoryGrows
  <2>4. ASSUME NEW v \in Versions, extensions'[v] # None
        PROVE  extensions'[v].values \subseteq Offered(v)'
    BY <1>1, <2>2, <2>4 DEF CacheIsTrue, FactoryGrows
  <2>5. schematics' \subseteq registered'
    BY <1>1, <2>1, <2>2 DEF CacheIsTrue, FactoryGrows
  <2> QED BY <2>3, <2>4, <2>5 DEF CacheIsTrue
<1>8. ASSUME NEW c \in Configs, Begins(c) \/ Locks(c) \/ Answers(c) \/ Fails(c) \/ Edit(c),
             ~(AnswerVersions(c) \/ AnswerExtensions(c) \/ StoreSchematic(c))
      PROVE  UNCHANGED cache
  BY <1>8 DEF Begins, Locks, Answers, Fails, BeginWithout, BeginReuse, Begin, Starts, outside,
     LockVersions, LockExtensions, LookUpSchematic, Post, RefuseExtensions, WithoutExtensions,
     FailVersions, FailExtensions, FailPost, Edit, cache
<1>9. ASSUME NEW v \in Versions, Publish(v) \/ \E e \in Extensions : Offer(v, e)
      PROVE  UNCHANGED cache
  BY <1>9 DEF Publish, Offer
<1>10. CASE UNCHANGED vars
  BY <1>2, <1>10 DEF vars
<1> QED BY <1>2, <1>3, <1>4, <1>5, <1>6, <1>7, <1>8, <1>9, <1>10 DEF Next

\* What happens around the reconciles leaves all of them sound, and the images on record good.
LEMMA SoundAround ==
  ASSUME TypeOK, AllSound, ImagesAreGood, [Next]_vars,
         \/ Restart
         \/ Tick
         \/ \E v \in Versions : Publish(v)
         \/ \E v \in Versions, e \in Extensions : Offer(v, e)
         \/ UNCHANGED vars
  PROVE  AllSound' /\ ImagesAreGood'
<1>1. FactoryGrows
  BY NothingTakenBack
<1>2. pin' = pin
  BY DEF Restart, Tick, Publish, Offer, vars, status
<1>3. ImagesAreGood'
  BY <1>1, <1>2, ImageStaysGood DEF ImagesAreGood
<1>4. CASE Restart
  <2>1. \A c \in Configs : rec'[c] = Idle
    BY <1>4 DEF Restart
  <2> QED BY <1>3, <2>1, IdleSound DEF AllSound
<1>5. CASE ~Restart
  <2>1. CacheGrows
    BY <1>5, NothingForgotten
  <2>2. rec' = rec
    BY <1>5 DEF Tick, Publish, Offer, vars
  <2> QED BY <1>1, <1>3, <2>1, <2>2, StaysSound DEF AllSound
<1> QED BY <1>4, <1>5

----------------------------------------------------------------------------
(* The invariant. *)

LEMMA InitInv == Init => Inv
<1> SUFFICES ASSUME Init
             PROVE  Inv
  OBVIOUS
<1> USE FactoryAssumption DEF Init
<1>1. TypeOK
  <2>1. servedFor \in [Versions -> {NotYet} \cup 0 .. TTL]
    BY DEF NotYet
  <2>2. offeredFor \in [Versions -> [Extensions -> {NotYet} \cup 0 .. TTL]]
    BY <2>1
  <2>3. rec \in [Configs -> Reconciles]
    BY IdleIsReconcile
  <2> QED BY <2>1, <2>2, <2>3 DEF TypeOK
<1>2. CacheIsTrue
  BY DEF CacheIsTrue
<1>3. AllSound
  BY DEF AllSound, Sound, BegunWell, VersionIsGood, ExtensionsAreGood, KnownIsGood, Versioned,
     Checked, Idle
<1>4. ImageIsAvailable /\ ExtensionsMatchVersion
  BY DEF ImageIsAvailable, ExtensionsMatchVersion
<1> QED BY <1>1, <1>2, <1>3, <1>4 DEF Inv

LEMMA InvStep == Inv /\ [Next]_vars => Inv'
<1> SUFFICES ASSUME Inv, [Next]_vars
             PROVE  Inv'
  OBVIOUS
<1>1. TypeOK /\ CacheIsTrue /\ AllSound /\ ImagesAreGood
  BY ImagesAre DEF Inv
<1>2. CacheIsTrue'
  BY <1>1, CacheStaysTrue
<1>3. FactoryGrows
  BY <1>1, NothingTakenBack
<1>4. TypeOK' /\ AllSound' /\ ImagesAreGood'
  <2>1. ASSUME NEW c \in Configs, Begins(c) \/ Locks(c) \/ Answers(c) \/ Fails(c) \/ Edit(c),
               ~Restart
        PROVE  TypeOK' /\ AllSound' /\ ImagesAreGood'
    <3>1. CacheGrows
      BY <1>1, <2>1, NothingForgotten
    <3>2. Sound(c) /\ ImageIsGood(c)
      BY <1>1 DEF AllSound, ImagesAreGood
    <3>3. TypeOK'
      BY <1>1, <2>1, <3>2, TypeStep
    <3>4. /\ Sound(c)'
          /\ ImageIsGood(c)'
          /\ \A d \in Configs \ {c} : rec'[d] = rec[d] /\ pin'[d] = pin[d]
      BY <1>1, <1>3, <2>1, <3>1, <3>2, SoundStep
    <3>5. \A d \in Configs \ {c} : Sound(d)' /\ ImageIsGood(d)'
      BY <1>1, <1>3, <3>1, <3>4, StaysSound, ImageStaysGood DEF AllSound, ImagesAreGood
    <3> QED BY <3>3, <3>4, <3>5 DEF AllSound, ImagesAreGood
  <2>2. CASE \/ Restart
             \/ Tick
             \/ \E v \in Versions : Publish(v)
             \/ \E v \in Versions, e \in Extensions : Offer(v, e)
    BY <1>1, <2>2, TypeAround, SoundAround
  <2>3. CASE UNCHANGED vars
    <3>1. TypeOK'
      BY <1>1, <2>3 DEF TypeOK, vars, factory, cache, status
    <3> QED BY <1>1, <2>3, <3>1, SoundAround
  <2> QED BY <2>1, <2>2, <2>3 DEF Next
<1>5. ImageIsAvailable' /\ ExtensionsMatchVersion'
  <2>1. \A c \in Configs : ImageIsGood(c)'
    BY <1>4 DEF ImagesAreGood
  <2> QED BY <2>1 DEF ImageIsGood, ImageIsAvailable, ExtensionsMatchVersion
<1> QED BY <1>2, <1>4, <1>5 DEF Inv

LEMMA Invariance == Spec => []Inv
BY InitInv, InvStep, PTL DEF Spec

\* Every variable keeps its type.
THEOREM TypeCorrect == Spec => []TypeOK
<1>1. Inv => TypeOK
  BY DEF Inv
<1> QED BY <1>1, Invariance, PTL

\* Of any number of reconciles, calls, answers lost and restarts, what is on record can be pulled:
\* its schematic is registered, and a looked up version is served and no prerelease.
THEOREM ImageCanBePulled == Spec => []ImageIsAvailable
<1>1. Inv => ImageIsAvailable
  BY DEF Inv
<1> QED BY <1>1, Invariance, PTL

\* And its extensions are offered for its own version.
THEOREM ExtensionsFit == Spec => []ExtensionsMatchVersion
<1>1. Inv => ExtensionsMatchVersion
  BY DEF Inv
<1> QED BY <1>1, Invariance, PTL

----------------------------------------------------------------------------
(* Outages. *)

\* A reconcile moves itself only.
LEMMA OnlyItsOwn ==
  ASSUME TypeOK, NEW c \in Configs, NEW d \in Configs, rec'[c] # rec[c],
         Begins(d) \/ Locks(d) \/ Answers(d) \/ Fails(d) \/ Edit(d)
  PROVE  d = c
<1>1. CASE rec' = rec
  BY <1>1
<1>2. CASE \E r : rec' = [rec EXCEPT ![d] = r]
  BY <1>2 DEF TypeOK
<1>3. ASSUME NEW reason, Fail(d, reason) \/ Record(d)
      PROVE  \E r : rec' = [rec EXCEPT ![d] = r]
  BY <1>3 DEF Fail, Record
<1>4. ASSUME NEW values, UseVersions(d, values)
      PROVE  \E r : rec' = [rec EXCEPT ![d] = r]
  BY <1>3, <1>4 DEF UseVersions
<1>5. ASSUME NEW values, UseExtensions(d, values)
      PROVE  \E r : rec' = [rec EXCEPT ![d] = r]
  BY <1>3, <1>5 DEF UseExtensions
<1>6. CASE Begins(d)
  <2>1. CASE BeginWithout(d) \/ BeginReuse(d)
    BY <1>1, <2>1 DEF BeginWithout, BeginReuse
  <2>2. CASE Begin(d)
    BY <1>2, <1>3, <2>2 DEF Begin
  <2> QED BY <1>6, <2>1, <2>2 DEF Begins
<1>7. CASE Locks(d)
  <2>1. CASE LockVersions(d)
    BY <1>2, <1>4, <2>1 DEF LockVersions
  <2>2. CASE LockExtensions(d)
    BY <1>2, <1>5, <2>2 DEF LockExtensions
  <2>3. CASE LookUpSchematic(d) \/ StoreSchematic(d)
    BY <1>2, <1>3, <2>3 DEF LookUpSchematic, StoreSchematic
  <2> QED BY <1>7, <2>1, <2>2, <2>3 DEF Locks
<1>8. CASE Answers(d)
  BY <1>2, <1>3, <1>4, <1>5, <1>8
  DEF Answers, AnswerVersions, AnswerExtensions, RefuseExtensions, WithoutExtensions, Post
<1>9. CASE Fails(d)
  BY <1>2, <1>3, <1>4, <1>5, <1>9
  DEF Fails, FailVersions, FailExtensions, WithoutExtensions, FailPost
<1>10. CASE Edit(d)
  BY <1>1, <1>10 DEF Edit
<1> QED BY <1>6, <1>7, <1>8, <1>9, <1>10

\* No step of a reconcile that knows all it may ask for ends in FactoryUnavailable.
LEMMA KnownDoesNotFail ==
  ASSUME TypeOK, AllSound, NEW c \in Configs, Begins(c) \/ Locks(c) \/ Answers(c) \/ Fails(c),
         rec[c].known, rec'[c].at = "idle"
  PROVE  condition'[c] # "FactoryUnavailable"
<1>1. /\ rec[c].at \notin {"idle", "posting", "store"}
      /\ AllKnown(rec[c].want)
      /\ VersionIsGood(rec[c])
      /\ BegunWell(rec[c])
      /\ ExtensionsAreGood(rec[c])
  BY DEF AllSound, Sound, KnownIsGood, BegunWell
<1>2. ~Begins(c) /\ ~Post(c) /\ ~FailPost(c) /\ ~StoreSchematic(c)
  BY <1>1 DEF Begins, BeginWithout, BeginReuse, Begin, Starts, Post, FailPost, StoreSchematic
<1>3. ASSUME Fail(c, "NoReleasedPatch") \/ Fail(c, "UnknownExtension") \/ Record(c)
      PROVE  condition'[c] # "FactoryUnavailable"
  BY <1>3 DEF Fail, Record, TypeOK
<1>4. CASE \E values : UseVersions(c, values)
  <2>1. ASSUME NEW values, UseVersions(c, values), ~Fail(c, "NoReleasedPatch")
        PROVE  rec'[c].at # "idle"
    <3>1. PICK v \in Released(values) :
            rec' = [rec EXCEPT ![c].version = v,
                               ![c].at = IF rec[c].want.extensions = {} THEN "schematic"
                                                                        ELSE "extensions"]
      BY <2>1 DEF UseVersions
    <3>2. rec'[c].at \in {"schematic", "extensions"}
      BY <3>1 DEF TypeOK, Reconciles
    <3> QED BY <3>2
  <2> QED BY <1>3, <1>4, <2>1
<1>5. CASE \E values : UseExtensions(c, values)
  <2>1. ASSUME NEW values, UseExtensions(c, values), ~Fail(c, "UnknownExtension")
        PROVE  rec'[c].at # "idle"
    BY <2>1 DEF UseExtensions, TypeOK, Reconciles
  <2> QED BY <1>3, <1>5, <2>1
<1>6. ASSUME NEW place \in Places \ {"idle"}, rec' = [rec EXCEPT ![c].at = place]
      PROVE  FALSE
  BY <1>6 DEF TypeOK, Reconciles
<1>7. CASE LockVersions(c)
  BY <1>4, <1>6, <1>7 DEF LockVersions, Places
<1>8. CASE AnswerVersions(c)
  BY <1>4, <1>8 DEF AnswerVersions
<1>9. CASE FailVersions(c)
  <2>1. versions # None
    BY <1>1, <1>9 DEF FailVersions, BegunWell, AllKnown
  <2> QED BY <1>4, <1>9, <2>1 DEF FailVersions
<1>10. CASE LockExtensions(c)
  BY <1>5, <1>6, <1>10 DEF LockExtensions, Places
<1>11. CASE AnswerExtensions(c)
  BY <1>5, <1>11 DEF AnswerExtensions
<1>12. CASE FailExtensions(c) \/ RefuseExtensions(c)
  <2>1. WithoutExtensions(c) /\ rec[c].at = "askingExtensions"
    BY <1>12 DEF FailExtensions, RefuseExtensions, WithoutExtensions
  <2>2. EntryOf(rec[c].version) # None
    BY <1>1, <2>1 DEF EntryOf, AllKnown, VersionIsGood, Versioned, BegunWell
  <2> QED BY <1>5, <2>1, <2>2 DEF WithoutExtensions
<1>13. CASE LookUpSchematic(c)
  BY <1>3, <1>6, <1>13 DEF LookUpSchematic, Places
<1> QED
  BY <1>2, <1>7, <1>8, <1>9, <1>10, <1>11, <1>12, <1>13 DEF Begins, Locks, Answers, Fails

\* A resolution of what the cache holds outlives any outage: it never fails for want of the Image
\* Factory, whatever has become stale.
THEOREM OutageIsSurvived == Spec => KnownSurvivesOutage
<1> DEFINE Survives ==
      \A c \in Configs : (rec[c].known /\ rec'[c].at = "idle" /\ schematics' # {}) =>
        condition'[c] # "FactoryUnavailable"
<1>1. Inv /\ [Next]_vars => [Survives]_vars
  <2> SUFFICES ASSUME Inv, Next, NEW c \in Configs, rec[c].known, rec'[c].at = "idle",
                      schematics' # {}
               PROVE  condition'[c] # "FactoryUnavailable"
    OBVIOUS
  <2>1. TypeOK /\ AllSound
    BY DEF Inv
  <2>2. rec[c].at # "idle"
    BY <2>1 DEF AllSound, Sound, BegunWell
  <2>3. rec'[c] # rec[c]
    BY <2>2
  <2>4. ASSUME NEW d \in Configs, Begins(d) \/ Locks(d) \/ Answers(d) \/ Fails(d) \/ Edit(d)
        PROVE  condition'[c] # "FactoryUnavailable"
    <3>1. Sound(d)
      BY <2>1 DEF AllSound
    <3>2. d = c
      BY <2>1, <2>3, <2>4, OnlyItsOwn
    <3>3. ~Edit(d)
      BY <2>3, <3>2 DEF Edit
    <3> QED BY <2>1, <2>4, <3>2, <3>3, KnownDoesNotFail
  <2>5. ~Restart
    BY DEF Restart
  <2>6. ~Tick /\ (\A v \in Versions : ~Publish(v) /\ \A e \in Extensions : ~Offer(v, e))
    BY <2>3 DEF Tick, Publish, Offer
  <2> QED BY <2>4, <2>5, <2>6 DEF Next
<1> QED BY <1>1, Invariance, PTL DEF Spec, KnownSurvivesOutage

----------------------------------------------------------------------------
(* Staleness. *)

\* A list younger than the TTL holds all that has been there for longer than the list, and a
\* reconcile has no version before it is resolved.
RecentVersions ==
  versions # None /\ versions.age < TTL =>
    \A v \in Versions : servedFor[v] > versions.age => v \in versions.values

RecentExtensions(v) ==
  extensions[v] # None =>
    /\ v \in Served
    /\ extensions[v].age < TTL =>
         \A e \in Extensions : offeredFor[v][e] > extensions[v].age => e \in extensions[v].values

Unresolved(c) == rec[c].at \in {"versions", "askingVersions"} => rec[c].version = None

Recent ==
  /\ RecentVersions
  /\ \A v \in Versions : RecentExtensions(v)
  /\ \A c \in Configs : Unresolved(c)

\* Time passes alike for a list and for what should be on it.
LEMMA LaterAlike ==
  ASSUME NEW s \in {NotYet} \cup 0 .. TTL, NEW age \in 0 .. TTL,
         Later(age) < TTL, Later(s) > Later(age)
  PROVE  age < TTL /\ s > age
BY FactoryAssumption DEF Later, NotYet

LEMMA AgedEntry ==
  ASSUME NEW entry, entry # None,
         \/ entry \in VersionEntries
         \/ entry \in ExtensionEntries
  PROVE  /\ Aged(entry).values = entry.values
         /\ Aged(entry).age = Later(entry.age)
         /\ entry.age \in 0 .. TTL
BY DEF Aged, VersionEntries, ExtensionEntries

\* The cache stays recent as time passes,
LEMMA TickKeepsRecent ==
  ASSUME TypeOK, Recent, Tick
  PROVE  RecentVersions' /\ \A v \in Versions : RecentExtensions(v)'
<1>1. RecentVersions'
  <2> SUFFICES ASSUME versions' # None, versions'.age < TTL,
                      NEW v \in Versions, servedFor'[v] > versions'.age
               PROVE  v \in versions'.values
    BY DEF RecentVersions
  <2>1. versions' = Aged(versions) /\ servedFor'[v] = Later(servedFor[v])
    BY DEF Tick
  <2>2. versions # None /\ versions \in VersionEntries
    BY <2>1 DEF Aged, TypeOK
  <2>3. versions'.values = versions.values /\ versions'.age = Later(versions.age)
        /\ versions.age \in 0 .. TTL
    BY <2>1, <2>2, AgedEntry
  <2>4. servedFor[v] \in {NotYet} \cup 0 .. TTL
    BY DEF TypeOK
  <2>5. versions.age < TTL /\ servedFor[v] > versions.age
    BY <2>1, <2>3, <2>4, LaterAlike
  <2> QED BY <2>2, <2>3, <2>5 DEF Recent, RecentVersions
<1>2. ASSUME NEW v \in Versions
      PROVE  RecentExtensions(v)'
  <2> SUFFICES ASSUME extensions'[v] # None
               PROVE  /\ v \in Served'
                      /\ extensions'[v].age < TTL =>
                           \A e \in Extensions : offeredFor'[v][e] > extensions'[v].age
                                                   => e \in extensions'[v].values
    BY DEF RecentExtensions
  <2>1. extensions'[v] = Aged(extensions[v])
    BY DEF Tick
  <2>2. extensions[v] # None /\ extensions[v] \in ExtensionEntries
    BY <2>1 DEF Aged, TypeOK
  <2>3. extensions'[v].values = extensions[v].values /\ extensions'[v].age = Later(extensions[v].age)
        /\ extensions[v].age \in 0 .. TTL
    BY <2>1, <2>2, AgedEntry
  <2>4. v \in Served'
    <3>1. RecentExtensions(v)
      BY DEF Recent
    <3>2. Served \subseteq Served'
      BY NothingTakenBack DEF FactoryGrows, Next
    <3> QED BY <2>2, <3>1, <3>2 DEF RecentExtensions
  <2>5. ASSUME extensions'[v].age < TTL,
               NEW e \in Extensions, offeredFor'[v][e] > extensions'[v].age
        PROVE  e \in extensions'[v].values
    <3>1. offeredFor'[v][e] = Later(offeredFor[v][e])
      BY DEF Tick
    <3>2. offeredFor[v][e] \in {NotYet} \cup 0 .. TTL
      BY DEF TypeOK
    <3>3. extensions[v].age < TTL /\ offeredFor[v][e] > extensions[v].age
      BY <2>3, <2>5, <3>1, <3>2, LaterAlike
    <3>4. e \in extensions[v].values
      <4>1. RecentExtensions(v)
        BY DEF Recent
      <4> QED BY <2>2, <3>3, <4>1 DEF RecentExtensions
    <3> QED BY <2>3, <3>4
  <2> QED BY <2>4, <2>5
<1> QED BY <1>1, <1>2

\* as something is published or offered, which is too new to be missed,
LEMMA PublishKeepsRecent ==
  ASSUME TypeOK, Recent, NEW v \in Versions, Publish(v)
  PROVE  RecentVersions' /\ \A u \in Versions : RecentExtensions(u)'
<1>1. /\ servedFor' = [servedFor EXCEPT ![v] = 0]
      /\ versions' = versions /\ extensions' = extensions /\ offeredFor' = offeredFor
  BY DEF Publish, cache
<1>2. versions # None => versions.age \in 0 .. TTL
  BY DEF TypeOK, VersionEntries
<1>3. ASSUME versions # None, NEW u \in Versions, servedFor'[u] > versions.age
      PROVE  servedFor[u] > versions.age
  <2>1. ~(0 > versions.age)
    BY <1>2, <1>3, FactoryAssumption
  <2> QED BY <1>1, <1>3, <2>1 DEF TypeOK
<1>4. RecentVersions'
  BY <1>1, <1>3 DEF Recent, RecentVersions
<1>5. Served \subseteq Served'
  BY NothingTakenBack DEF FactoryGrows, Next
<1>6. ASSUME NEW u \in Versions
      PROVE  RecentExtensions(u)'
  <2>1. RecentExtensions(u)
    BY DEF Recent
  <2>2. extensions[u] # None => u \in Served'
    BY <1>5, <2>1 DEF RecentExtensions
  <2> QED BY Zenon, <1>1, <2>1, <2>2 DEF RecentExtensions
<1> QED BY <1>4, <1>6

LEMMA OfferKeepsRecent ==
  ASSUME TypeOK, Recent, NEW v \in Versions, NEW e \in Extensions, Offer(v, e)
  PROVE  RecentVersions' /\ \A u \in Versions : RecentExtensions(u)'
<1>1. /\ offeredFor' = [offeredFor EXCEPT ![v][e] = 0]
      /\ versions' = versions /\ extensions' = extensions /\ servedFor' = servedFor
  BY DEF Offer, cache
<1>2. ASSUME NEW u \in Versions, extensions[u] # None,
             NEW x \in Extensions, offeredFor'[u][x] > extensions[u].age
      PROVE  offeredFor[u][x] > extensions[u].age
  <2>1. extensions[u].age \in 0 .. TTL
    BY <1>2 DEF TypeOK, ExtensionEntries
  <2>2. ~(0 > extensions[u].age)
    BY <2>1, FactoryAssumption
  <2>3. offeredFor'[u][x] = IF u = v /\ x = e THEN 0 ELSE offeredFor[u][x]
    BY <1>1 DEF TypeOK
  <2> QED BY <1>2, <2>2, <2>3
<1>3. RecentVersions'
  BY <1>1 DEF Recent, RecentVersions
<1> QED BY <1>1, <1>2, <1>3 DEF Recent, RecentExtensions, Served

\* and as an answer is taken in, which holds all there is.
LEMMA AnswerKeepsRecent ==
  ASSUME TypeOK, Recent, NEW c \in Configs, AnswerVersions(c) \/ AnswerExtensions(c)
  PROVE  RecentVersions' /\ \A v \in Versions : RecentExtensions(v)'
<1>1. servedFor' = servedFor /\ offeredFor' = offeredFor
  BY DEF AnswerVersions, AnswerExtensions, outside, factory
<1>2. CASE AnswerVersions(c)
  <2>1. versions' = [values |-> Served, age |-> 0] /\ extensions' = extensions
    BY <1>2 DEF AnswerVersions
  <2>2. \A v \in Versions : servedFor[v] > 0 => v \in Served
    BY DEF Served, NotYet
  <2>3. RecentVersions'
    BY <1>1, <2>1, <2>2 DEF RecentVersions
  <2> QED BY <1>1, <2>1, <2>3 DEF Recent, RecentExtensions, Served
<1>3. CASE AnswerExtensions(c)
  <2> DEFINE new == [values |-> Offered(rec[c].version), age |-> 0]
  <2>1. /\ extensions' = [extensions EXCEPT ![rec[c].version] = new]
        /\ versions' = versions
        /\ rec[c].version \in Served
    BY <1>3 DEF AnswerExtensions
  <2>2. RecentVersions'
    BY <1>1, <2>1 DEF Recent, RecentVersions
  <2>3. ASSUME NEW v \in Versions
        PROVE  RecentExtensions(v)'
    <3>1. CASE v # rec[c].version
      BY <1>1, <2>1, <3>1 DEF Recent, RecentExtensions, Served, TypeOK
    <3>2. CASE v = rec[c].version
      <4>1. extensions'[v] = new
        BY <2>1, <3>2 DEF TypeOK
      <4>2. \A e \in Extensions : offeredFor[v][e] > 0 => e \in Offered(v)
        BY DEF Offered, NotYet
      <4> QED BY <1>1, <2>1, <3>2, <4>1, <4>2 DEF RecentExtensions, Served
    <3> QED BY <3>1, <3>2
  <2> QED BY <2>2, <2>3
<1> QED BY <1>2, <1>3

\* Every step keeps the cache recent.
LEMMA CacheStaysRecent ==
  ASSUME TypeOK, Recent, [Next]_vars
  PROVE  RecentVersions' /\ \A v \in Versions : RecentExtensions(v)'
<1>1. CASE UNCHANGED <<servedFor, offeredFor, versions, extensions>>
  BY <1>1 DEF Recent, RecentVersions, RecentExtensions, Served
<1>2. CASE Restart
  BY <1>2 DEF Restart, RecentVersions, RecentExtensions
<1>3. ASSUME NEW c \in Configs, Begins(c) \/ Locks(c) \/ Answers(c) \/ Fails(c) \/ Edit(c),
             ~(AnswerVersions(c) \/ AnswerExtensions(c))
      PROVE  UNCHANGED <<servedFor, offeredFor, versions, extensions>>
  BY <1>3 DEF Begins, Locks, Answers, Fails, BeginWithout, BeginReuse, Begin, Starts, outside,
     LockVersions, LockExtensions, LookUpSchematic, StoreSchematic, Post, RefuseExtensions,
     WithoutExtensions, FailVersions, FailExtensions, FailPost, Edit, cache, factory
<1> QED
  BY <1>1, <1>2, <1>3, TickKeepsRecent, PublishKeepsRecent, OfferKeepsRecent, AnswerKeepsRecent
  DEF Next, vars, factory, cache

\* What AnswersAreRecent says of a step of c, part by part: its version, or that there is none, or
\* that an extension is missing, comes from a list that holds all that has been there for the TTL.
RightOnVersions(c) ==
  rec[c].at \in {"versions", "askingVersions"} /\ rec'[c].version # None =>
    \A v \in Released(Versions) : servedFor[v] = TTL => v <= rec'[c].version

RightOnPatches(c) ==
  condition'[c] = "NoReleasedPatch" /\ rec'[c].at = "idle" =>
    \A v \in Released(Versions) : servedFor[v] # TTL

RightOnExtensions(c) ==
  condition'[c] = "UnknownExtension" /\ rec'[c].at = "idle" =>
    \E e \in rec[c].want.extensions : offeredFor[rec[c].version][e] # TTL

Right(c) == RightOnVersions(c) /\ RightOnPatches(c) /\ RightOnExtensions(c)

LEMMA GotoRight ==
  ASSUME TypeOK, NEW c \in Configs, Unresolved(c), NEW place \in Places \ {"idle"},
         rec' = [rec EXCEPT ![c].at = place]
  PROVE  Right(c)
<1>1. rec'[c].at = place /\ rec'[c].version = rec[c].version
  BY DEF TypeOK, Reconciles
<1> QED BY <1>1 DEF Right, RightOnVersions, RightOnPatches, RightOnExtensions, Unresolved

\* Ending for another reason is right as well.
LEMMA EndsRight ==
  ASSUME TypeOK, NEW c \in Configs,
         \/ Record(c)
         \/ \E reason : Fail(c, reason) /\ reason \notin {"NoReleasedPatch", "UnknownExtension"}
  PROVE  Right(c)
<1>1. rec'[c].version = None /\ condition'[c] \notin {"NoReleasedPatch", "UnknownExtension"}
  BY DEF Record, Fail, Idle, TypeOK
<1> QED BY <1>1 DEF Right, RightOnVersions, RightOnPatches, RightOnExtensions

\* With a list of all versions that have long been served, the newest of it is as new as any.
LEMMA UseVersionsRight ==
  ASSUME TypeOK, NEW c \in Configs, NEW values \in SUBSET Versions, UseVersions(c, values),
         \A v \in Versions : servedFor[v] = TTL => v \in values
  PROVE  Right(c)
<1>1. \A v \in Released(Versions) : servedFor[v] = TTL => v \in Released(values)
  BY DEF Released
<1>2. CASE Released(values) = {} /\ Fail(c, "NoReleasedPatch")
  <2>1. rec'[c].version = None /\ condition'[c] = "NoReleasedPatch"
    BY <1>2 DEF Fail, Idle, TypeOK
  <2> QED BY <1>1, <1>2, <2>1 DEF Right, RightOnVersions, RightOnPatches, RightOnExtensions
<1>3. ASSUME NEW v \in Released(values), \A u \in Released(values) : u <= v,
             rec' = [rec EXCEPT ![c].version = v,
                                ![c].at = IF rec[c].want.extensions = {} THEN "schematic"
                                                                         ELSE "extensions"]
      PROVE  Right(c)
  <2>1. rec'[c].version = v /\ rec'[c].at # "idle"
    BY <1>3 DEF TypeOK, Reconciles
  <2> QED BY <1>1, <1>3, <2>1 DEF Right, RightOnVersions, RightOnPatches, RightOnExtensions
<1> QED BY <1>2, <1>3 DEF UseVersions

\* With a list of all extensions that have long been offered, what is not on it has not.
LEMMA UseExtensionsRight ==
  ASSUME TypeOK, NEW c \in Configs, Sound(c), NEW values, UseExtensions(c, values),
         rec[c].at \in {"extensions", "askingExtensions"},
         \A e \in Extensions : offeredFor[rec[c].version][e] = TTL => e \in values
  PROVE  Right(c)
<1>1. CASE rec[c].want.extensions \subseteq values
  <2>1. rec' = [rec EXCEPT ![c].at = "schematic"]
    BY <1>1 DEF UseExtensions
  <2>2. rec'[c].at = "schematic"
    BY <2>1 DEF TypeOK, Reconciles
  <2> QED BY <2>2 DEF Right, RightOnVersions, RightOnPatches, RightOnExtensions
<1>2. CASE ~(rec[c].want.extensions \subseteq values)
  <2>1. rec[c].want.extensions \subseteq Extensions
    BY FactoryAssumption DEF Sound, BegunWell
  <2>2. PICK e \in rec[c].want.extensions : e \notin values
    BY <1>2
  <2>3. offeredFor[rec[c].version][e] # TTL
    BY <2>1, <2>2
  <2>4. Fail(c, "UnknownExtension")
    BY <1>2 DEF UseExtensions
  <2>5. condition'[c] = "UnknownExtension"
    BY <2>4 DEF Fail, TypeOK
  <2> QED BY <2>2, <2>3, <2>5 DEF Right, RightOnVersions, RightOnPatches, RightOnExtensions
<1> QED BY <1>1, <1>2

\* A step of a reconcile in which no call fails is right, and leaves it without a version until one
\* is resolved.
LEMMA RecentStep ==
  ASSUME TypeOK, AllSound, Recent, NEW c \in Configs,
         Begins(c) \/ Locks(c) \/ Answers(c) \/ Fails(c), rec'[c] # rec[c], upsets' = upsets
  PROVE  Right(c)
<1>1. Sound(c) /\ Unresolved(c)
  BY DEF AllSound, Recent
<1>2. ~Fails(c)
  BY FactoryAssumption DEF Fails, FailVersions, FailExtensions, FailPost, Upset, TypeOK
<1>3. CASE Begins(c)
  <2>1. Begin(c) /\ rec[c].at = "idle"
    BY <1>3 DEF Begins, BeginWithout, BeginReuse, Begin, Starts
  <2>2. CASE Fail(c, "InvalidSpec")
    BY <2>2, EndsRight
  <2>3. CASE ~Fail(c, "InvalidSpec")
    <3>1. rec'[c].at \in {"versions", "extensions", "schematic"}
      BY <2>1, <2>3 DEF Begin, TypeOK
    <3> QED BY <2>1, <3>1 DEF Right, RightOnVersions, RightOnPatches, RightOnExtensions
  <2> QED BY <2>2, <2>3
<1>4. CASE LockVersions(c)
  <2>1. CASE Fresh(versions) /\ UseVersions(c, versions.values)
    <3>1. versions # None /\ versions.age < TTL /\ versions \in VersionEntries
      BY <2>1 DEF Fresh, TypeOK
    <3>2. versions.values \in SUBSET Versions
      BY <3>1 DEF VersionEntries
    <3>3. \A v \in Versions : servedFor[v] = TTL => v \in versions.values
      BY <3>1 DEF Recent, RecentVersions
    <3> QED BY <2>1, <3>2, <3>3, UseVersionsRight
  <2>2. CASE rec' = [rec EXCEPT ![c].at = "askingVersions"]
    BY <1>1, <2>2, GotoRight DEF Places
  <2> QED BY <1>4, <2>1, <2>2 DEF LockVersions
<1>5. CASE LockExtensions(c)
  <2> DEFINE v == rec[c].version
  <2>1. v \in Versions /\ rec[c].at = "extensions"
    BY <1>1, <1>5 DEF LockExtensions, Sound, VersionIsGood, Versioned
  <2>2. CASE Fresh(EntryOf(v)) /\ UseExtensions(c, EntryOf(v).values)
    <3>1. RecentExtensions(v)
      BY <2>1 DEF Recent
    <3>2. extensions[v] # None /\ extensions[v].age < TTL
      BY <2>2 DEF Fresh, EntryOf
    <3>3. \A e \in Extensions : offeredFor[v][e] = TTL => e \in extensions[v].values
      BY <3>1, <3>2 DEF RecentExtensions
    <3> QED BY <1>1, <2>1, <2>2, <3>3, UseExtensionsRight DEF EntryOf
  <2>3. CASE rec' = [rec EXCEPT ![c].at = "askingExtensions"]
    BY <1>1, <2>3, GotoRight DEF Places
  <2> QED BY <1>5, <2>2, <2>3 DEF LockExtensions
<1>6. CASE LookUpSchematic(c)
  BY <1>1, <1>6, EndsRight, GotoRight DEF LookUpSchematic, Places
<1>7. CASE StoreSchematic(c)
  BY <1>7, EndsRight DEF StoreSchematic
<1>8. CASE AnswerVersions(c)
  <2>1. Served \in SUBSET Versions /\ \A v \in Versions : servedFor[v] = TTL => v \in Served
    BY FactoryAssumption DEF Served, NotYet
  <2> QED BY <1>8, <2>1, UseVersionsRight DEF AnswerVersions
<1>9. CASE AnswerExtensions(c)
  <2>1. \A e \in Extensions :
          offeredFor[rec[c].version][e] = TTL => e \in Offered(rec[c].version)
    BY FactoryAssumption DEF Offered, NotYet
  <2> QED BY <1>1, <1>9, <2>1, UseExtensionsRight DEF AnswerExtensions
<1>10. CASE RefuseExtensions(c)
  <2>1. rec[c].at = "askingExtensions" /\ rec[c].version \notin Served /\ WithoutExtensions(c)
    BY <1>10 DEF RefuseExtensions, WithoutExtensions
  <2>2. RecentExtensions(rec[c].version)
    BY <1>1, <2>1 DEF Recent, Sound, VersionIsGood, Versioned
  <2>3. EntryOf(rec[c].version) = None
    BY <2>1, <2>2 DEF EntryOf, RecentExtensions
  <2>4. Fail(c, "FactoryUnavailable")
    BY <2>1, <2>3 DEF WithoutExtensions
  <2> QED BY <2>4, EndsRight
<1>11. CASE Post(c)
  BY <1>1, <1>11, GotoRight DEF Post, Places
<1> QED
  BY <1>2, <1>3, <1>4, <1>5, <1>6, <1>7, <1>8, <1>9, <1>10, <1>11 DEF Locks, Answers

\* So is that no reconcile has a version before it is resolved.
LEMMA StaysUnresolved ==
  ASSUME TypeOK, NEW c \in Configs, Unresolved(c),
         Begins(c) \/ Locks(c) \/ Answers(c) \/ Fails(c)
  PROVE  Unresolved(c)'
<1>1. ASSUME NEW reason, Fail(c, reason) \/ Record(c)
      PROVE  Unresolved(c)'
  BY <1>1 DEF Fail, Record, Idle, Unresolved, TypeOK
<1>2. ASSUME NEW values, UseVersions(c, values)
      PROVE  Unresolved(c)'
  <2>1. ASSUME ~Fail(c, "NoReleasedPatch")
        PROVE  rec'[c].at \in {"schematic", "extensions"}
    <3>1. PICK v \in Released(values) :
            rec' = [rec EXCEPT ![c].version = v,
                               ![c].at = IF rec[c].want.extensions = {} THEN "schematic"
                                                                        ELSE "extensions"]
      BY <1>2, <2>1 DEF UseVersions
    <3> QED BY <3>1 DEF TypeOK, Reconciles
  <2> QED BY <1>1, <2>1 DEF Unresolved
<1>3. ASSUME NEW place \in Places, rec' = [rec EXCEPT ![c].at = place],
             place \in {"versions", "askingVersions"} => rec[c].at \in {"versions", "askingVersions"}
      PROVE  Unresolved(c)'
  <2>1. rec'[c].at = place /\ rec'[c].version = rec[c].version
    BY <1>3 DEF TypeOK, Reconciles
  <2> QED BY <1>3, <2>1 DEF Unresolved
<1>4. ASSUME NEW values, UseExtensions(c, values)
      PROVE  Unresolved(c)'
  BY <1>1, <1>3, <1>4 DEF UseExtensions, Places
<1>5. CASE rec' = rec
  BY <1>5 DEF Unresolved
<1>6. CASE Begins(c)
  <2>1. CASE BeginWithout(c) \/ BeginReuse(c)
    BY <1>5, <2>1 DEF BeginWithout, BeginReuse
  <2>2. CASE Begin(c) /\ ~Fail(c, "InvalidSpec")
    <3>1. rec'[c].at \in {"versions", "askingVersions"} => rec'[c].version = None
      BY <2>2 DEF Begin, TypeOK
    <3> QED BY <3>1 DEF Unresolved
  <2> QED BY <1>1, <1>6, <2>1, <2>2 DEF Begins
<1>7. CASE Locks(c)
  <2>1. CASE LockVersions(c)
    BY <1>2, <1>3, <2>1 DEF LockVersions, Places
  <2>2. CASE LockExtensions(c)
    BY <1>3, <1>4, <2>2 DEF LockExtensions, Places
  <2>3. CASE LookUpSchematic(c) \/ StoreSchematic(c)
    BY <1>1, <1>3, <2>3 DEF LookUpSchematic, StoreSchematic, Places
  <2> QED BY <1>7, <2>1, <2>2, <2>3 DEF Locks
<1>8. CASE Answers(c)
  BY <1>1, <1>2, <1>3, <1>4, <1>8
  DEF Answers, AnswerVersions, AnswerExtensions, RefuseExtensions, WithoutExtensions, Post, Places
<1>9. CASE Fails(c)
  BY <1>1, <1>2, <1>4, <1>9
  DEF Fails, FailVersions, FailExtensions, WithoutExtensions, FailPost
<1> QED BY <1>6, <1>7, <1>8, <1>9

LEMMA InvRecentStep == Inv /\ Recent /\ [Next]_vars => Recent'
<1> SUFFICES ASSUME Inv, Recent, [Next]_vars
             PROVE  Recent'
  OBVIOUS
<1>1. TypeOK /\ AllSound
  BY DEF Inv
<1>2. RecentVersions' /\ \A v \in Versions : RecentExtensions(v)'
  BY <1>1, CacheStaysRecent
<1>3. ASSUME NEW c \in Configs
      PROVE  Unresolved(c)'
  <2>1. Unresolved(c)
    BY DEF Recent
  <2>2. CASE rec'[c] = rec[c]
    BY <2>1, <2>2 DEF Unresolved
  <2>3. CASE Restart
    BY <2>3 DEF Restart, Idle, Unresolved
  <2>4. ASSUME NEW d \in Configs, Begins(d) \/ Locks(d) \/ Answers(d) \/ Fails(d) \/ Edit(d),
               rec'[c] # rec[c]
        PROVE  Unresolved(c)'
    <3>1. d = c
      BY <1>1, <2>4, OnlyItsOwn
    <3>2. ~Edit(d)
      BY <2>4, <3>1 DEF Edit
    <3> QED BY <1>1, <2>1, <2>4, <3>1, <3>2, StaysUnresolved
  <2>5. CASE UNCHANGED rec
    BY <2>2, <2>5
  <2> QED BY <2>2, <2>3, <2>4, <2>5 DEF Next, Tick, Publish, Offer, vars
<1> QED BY <1>2, <1>3 DEF Recent

\* A minor is resolved to nothing older than what has been served for the TTL, and what has been
\* there for that long is not said to be missing, unless the call for a newer list has just failed.
THEOREM AnswersAreUpToDate == Spec => AnswersAreRecent
<1> DEFINE AllRight ==
      \A c \in Configs : (rec'[c] # rec[c] /\ upsets' = upsets) =>
        /\ (rec[c].at \in {"versions", "askingVersions"} /\ rec'[c].version # None) =>
             \A v \in Released(Versions) : servedFor[v] = TTL => v <= rec'[c].version
        /\ condition'[c] = "NoReleasedPatch" /\ rec'[c].at = "idle" =>
             \A v \in Released(Versions) : servedFor[v] # TTL
        /\ condition'[c] = "UnknownExtension" /\ rec'[c].at = "idle" =>
             \E e \in rec[c].want.extensions : offeredFor[rec[c].version][e] # TTL
<1>1. Init => Recent
  BY DEF Init, Recent, RecentVersions, RecentExtensions, Unresolved, Idle
<1>2. Inv /\ Recent /\ [Next]_vars => [AllRight]_vars
  <2> SUFFICES ASSUME Inv, Recent, Next, NEW c \in Configs, rec'[c] # rec[c], upsets' = upsets
               PROVE  Right(c)
    BY DEF Right, RightOnVersions, RightOnPatches, RightOnExtensions
  <2>1. TypeOK /\ AllSound
    BY DEF Inv
  <2>2. ASSUME NEW d \in Configs, Begins(d) \/ Locks(d) \/ Answers(d) \/ Fails(d) \/ Edit(d)
        PROVE  Right(c)
    <3>1. d = c
      BY <2>1, <2>2, OnlyItsOwn
    <3>2. ~Edit(d)
      BY <3>1 DEF Edit
    <3> QED BY <2>1, <2>2, <3>1, <3>2, RecentStep
  <2>3. ~Restart
    BY <2>1, FactoryAssumption DEF Restart, Upset, TypeOK
  <2>4. ~Tick /\ (\A v \in Versions : ~Publish(v) /\ \A e \in Extensions : ~Offer(v, e))
    BY DEF Tick, Publish, Offer
  <2> QED BY <2>2, <2>3, <2>4 DEF Next
<1> QED BY <1>1, <1>2, InvRecentStep, Invariance, PTL DEF Spec, AnswersAreRecent
=============================================================================
