---------------------------- MODULE ImageFactory ----------------------------
(***************************************************************************)
(* How the installer image of a TalosConfig is resolved: the steps of      *)
(* resolveImageFactory and resolveInstallerImage                           *)
(* (controllers/image_factory.go), run by several reconciles at once over  *)
(* one cache of the Image Factory's answers                                *)
(* (internal/imagefactory/cache.go), which holds its mutex while it asks   *)
(* for a list and lets go of it while it registers a schematic.            *)
(*                                                                         *)
(* A Talos version is a number, ordered as the patches of one minor; a     *)
(* schematic is its set of extensions, which is also its content-addressed *)
(* id.  Time passes in ticks, TTL of which make an answer stale.  The      *)
(* Image Factory publishes versions and offers extensions one by one and   *)
(* takes nothing back.                                                     *)
(***************************************************************************)
EXTENDS Integers

CONSTANTS
  Configs,      \* TalosConfigs, each reconciled by one worker at a time
  Versions,     \* the Talos versions of a minor, as numbers
  Prereleases,  \* those among them that carry a "-"
  Extensions,
  Established,  \* what the Image Factory may long have served, with all extensions
  Bare,         \* spec.talosVersion is the minor itself
  Malformed,    \* spec.talosVersion is neither a version nor a minor
  Requests,     \* what spec.talosVersion and spec.imageFactory may ask for
  None,
  Created,      \* what the TalosConfigs may ask for as they are created
  TTL,          \* after how many ticks a list is stale
  MaxPublished, \* bound on versions the Image Factory publishes
  MaxUpsets     \* bound on calls that fail, restarts, and edits of the TalosConfigs

ASSUME FactoryAssumption ==
  /\ Versions \subseteq Nat
  /\ Prereleases \subseteq Versions
  /\ Established \subseteq SUBSET Versions
  /\ Bare \notin Versions
  /\ Malformed \notin Versions \cup {Bare}
  /\ Requests \subseteq [version : Versions \cup {Bare, Malformed}, extensions : SUBSET Extensions]
  /\ Created \subseteq [Configs -> Requests \cup {None}]
  /\ None \notin Requests
  /\ None \notin Configs
  /\ None \notin [version : Versions, extensions : SUBSET Extensions, inputs : Requests]
  /\ None \notin [values : SUBSET Versions, age : 0 .. TTL]
  /\ None \notin [values : SUBSET Extensions, age : 0 .. TTL]
  /\ TTL \in Nat \ {0}
  /\ MaxPublished \in Nat
  /\ MaxUpsets \in Nat

NotYet == -1

VARIABLES
  servedFor,   \* for how many ticks the Image Factory has served a version, up to TTL, or NotYet
  offeredFor,  \* the same for an extension of a version
  registered,  \* the schematics the Image Factory knows
  versions,    \* Cached.versions: an entry, or None
  extensions,  \* Cached.extensions: an entry for each version, or None
  schematics,  \* Cached.schematics
  mu,          \* which reconcile holds the mutex of the cache, or None
  want,        \* the spec of each TalosConfig, or None without spec.imageFactory
  pin,         \* status.imageFactory
  condition,   \* the reason of the ImageFactoryResolved condition, or None
  queued,      \* the TalosConfigs in the work queue
  rec,         \* the reconcile of each TalosConfig
  published, upsets

factory == <<servedFor, offeredFor, registered>>
cache == <<versions, extensions, schematics>>
status == <<pin, condition>>

vars == <<factory, cache, mu, want, status, queued, rec, published, upsets>>

Served == {v \in Versions : servedFor[v] # NotYet}
Offered(v) == {e \in Extensions : offeredFor[v][e] # NotYet}

Reasons == {"Resolved", "InvalidSpec", "NoReleasedPatch", "UnknownExtension", "FactoryUnavailable"}

VersionEntries == [values : SUBSET Versions, age : 0 .. TTL]
ExtensionEntries == [values : SUBSET Extensions, age : 0 .. TTL]
Pins == [version : Versions, extensions : SUBSET Extensions, inputs : Requests]

\* Where a reconcile is: about to call Versions, OfficialExtensions or CreateSchematic, waiting for
\* the answer to one of them, or with a schematic to store.
Places == {"idle", "versions", "askingVersions", "extensions", "askingExtensions",
           "schematic", "posting", "store"}

\* What a reconcile has read, the version it has resolved, and (history) whether the cache held all
\* it may ask for when it began.
Reconciles == [at : Places, want : Requests \cup {None}, version : Versions \cup {None},
               known : BOOLEAN]

\* Every variable has its type.
TypeOK ==
  /\ servedFor \in [Versions -> {NotYet} \cup 0 .. TTL]
  /\ offeredFor \in [Versions -> [Extensions -> {NotYet} \cup 0 .. TTL]]
  /\ registered \subseteq SUBSET Extensions
  /\ versions \in VersionEntries \cup {None}
  /\ extensions \in [Versions -> ExtensionEntries \cup {None}]
  /\ schematics \subseteq SUBSET Extensions
  /\ mu \in Configs \cup {None}
  /\ want \in [Configs -> Requests \cup {None}]
  /\ pin \in [Configs -> Pins \cup {None}]
  /\ condition \in [Configs -> Reasons \cup {None}]
  /\ queued \subseteq Configs
  /\ rec \in [Configs -> Reconciles]
  /\ published \in 0 .. MaxPublished
  /\ upsets \in 0 .. MaxUpsets

Idle == [at |-> "idle", want |-> None, version |-> None, known |-> FALSE]

\* The manager starts, with a TalosConfig created for each new Machine.
Init ==
  /\ \E old \in Established : servedFor = [v \in Versions |-> IF v \in old THEN TTL ELSE NotYet]
  /\ offeredFor = [v \in Versions |-> [e \in Extensions |-> servedFor[v]]]
  /\ registered = {}
  /\ versions = None
  /\ extensions = [v \in Versions |-> None]
  /\ schematics = {}
  /\ mu = None
  /\ want \in Created
  /\ pin = [c \in Configs |-> None]
  /\ condition = [c \in Configs |-> None]
  /\ queued = Configs
  /\ rec = [c \in Configs |-> Idle]
  /\ published = 0
  /\ upsets = 0

----------------------------------------------------------------------------
(* Parts of the steps. *)

\* Variant: one tick longer.
FreshTooLong(entry) == entry # None /\ entry.age <= TTL

\* refresh: an entry is served as it is while it is younger than the TTL.
Fresh(entry) == entry # None /\ entry.age < TTL

\* Variant: any version's list will do.
EntryOfAny(v) ==
  IF \A u \in Versions : extensions[u] = None THEN None
  ELSE extensions[CHOOSE u \in Versions : extensions[u] # None]

\* Cached.extensions is keyed by the version.
EntryOf(v) == extensions[v]

\* Does the cache hold all that a resolution of r may ask for?
AllKnown(r) ==
  /\ r.version = Bare => versions # None
  /\ r.extensions # {} =>
       \A v \in Versions : (r.version = v \/ (r.version = Bare /\ v \notin Prereleases))
                              => extensions[v] # None
  /\ r.extensions \in schematics

\* Variant: an extension that is not offered is taken for a verdict that no retry can change.
FailForGood(c, reason) ==
  /\ condition' = [condition EXCEPT ![c] = reason]
  /\ rec' = [rec EXCEPT ![c] = Idle]
  /\ queued' = IF reason = "UnknownExtension" THEN queued \ {c} ELSE queued \cup {c}
  /\ UNCHANGED pin

\* resolveInstallerImage: the condition says why, what was recorded stays, and the reconcile
\* returns the error, which puts the TalosConfig back into the queue.
Fail(c, reason) ==
  /\ condition' = [condition EXCEPT ![c] = reason]
  /\ rec' = [rec EXCEPT ![c] = Idle]
  /\ queued' = queued \cup {c}
  /\ UNCHANGED pin

Released(values) == values \ Prereleases

\* resolveTalosVersion: the newest released patch of the list; the extensions are checked next, if
\* there are any.
UseVersions(c, values) ==
  \/ /\ Released(values) = {}
     /\ Fail(c, "NoReleasedPatch")
  \/ \E v \in Released(values) :
       /\ \A u \in Released(values) : u <= v
       /\ rec' = [rec EXCEPT ![c].version = v,
                             ![c].at = IF rec[c].want.extensions = {} THEN "schematic"
                                                                      ELSE "extensions"]
       /\ UNCHANGED <<status, queued>>

\* resolveImageFactory: every extension asked for has to be on the list.
UseExtensions(c, values) ==
  IF rec[c].want.extensions \subseteq values
    THEN /\ rec' = [rec EXCEPT ![c].at = "schematic"]
         /\ UNCHANGED <<status, queued>>
    ELSE Fail(c, "UnknownExtension")

\* resolveInstallerImage: the image and the condition are recorded.
Record(c) ==
  /\ pin' = [pin EXCEPT ![c] = [version |-> rec[c].version, extensions |-> rec[c].want.extensions,
                                inputs |-> rec[c].want]]
  /\ condition' = [condition EXCEPT ![c] = "Resolved"]
  /\ rec' = [rec EXCEPT ![c] = Idle]
  /\ UNCHANGED queued

----------------------------------------------------------------------------
(* The resolution, step by step. *)

outside == <<factory, published, want, upsets>>

\* Variant: a minor is taken for a version.
NeverMinor(v) == FALSE

\* bareTalosMinor: is the version to be looked up?
BareMinor(v) == v = Bare

Starts(c) ==
  /\ c \in queued
  /\ rec[c].at = "idle"
  /\ UNCHANGED <<outside, cache, mu>>

\* Without spec.imageFactory nothing is recorded.
BeginWithout(c) ==
  /\ Starts(c)
  /\ want[c] = None
  /\ queued' = queued \ {c}
  /\ pin' = [pin EXCEPT ![c] = None]
  /\ condition' = [condition EXCEPT ![c] = None]
  /\ UNCHANGED rec

Reusable(c) == pin[c] # None /\ pin[c].inputs = want[c]

\* The image recorded for the same inputs is reused.
BeginReuse(c) ==
  /\ Starts(c)
  /\ want[c] # None
  /\ Reusable(c)
  /\ queued' = queued \ {c}
  /\ condition' = [condition EXCEPT ![c] = "Resolved"]
  /\ UNCHANGED <<pin, rec>>

\* A resolution starts: a minor is looked up, a full version taken as it is.
Begin(c) ==
  LET r == want[c] IN
  /\ Starts(c)
  /\ r # None
  /\ ~Reusable(c)
  /\ \/ /\ r.version = Malformed
        /\ Fail(c, "InvalidSpec")
     \/ /\ r.version # Malformed
        /\ rec' = [rec EXCEPT ![c] =
             [at |-> CASE BareMinor(r.version) -> "versions"
                       [] ~BareMinor(r.version) /\ r.extensions # {} -> "extensions"
                       [] OTHER -> "schematic",
              want |-> r,
              version |-> IF BareMinor(r.version) THEN None ELSE r.version,
              known |-> AllKnown(r)]]
        /\ queued' = queued \ {c}
        /\ UNCHANGED status

\* Cached.Versions: lock; a fresh entry is used, otherwise the Image Factory is asked with the
\* mutex held.
LockVersions(c) ==
  /\ rec[c].at = "versions"
  /\ mu = None
  /\ \/ /\ Fresh(versions)
        /\ UseVersions(c, versions.values)
        /\ UNCHANGED mu
     \/ /\ ~Fresh(versions)
        /\ mu' = c
        /\ rec' = [rec EXCEPT ![c].at = "askingVersions"]
        /\ UNCHANGED <<status, queued>>
  /\ UNCHANGED <<outside, cache>>

\* The answer replaces the entry.
AnswerVersions(c) ==
  /\ rec[c].at = "askingVersions"
  /\ versions' = [values |-> Served, age |-> 0]
  /\ mu' = None
  /\ UseVersions(c, Served)
  /\ UNCHANGED <<outside, extensions, schematics>>

Upset == upsets < MaxUpsets /\ upsets' = upsets + 1 /\ UNCHANGED published

\* Variant: a stale entry is no use.
FailVersionsAlways(c) ==
  /\ Upset
  /\ rec[c].at = "askingVersions"
  /\ mu' = None
  /\ Fail(c, "FactoryUnavailable")
  /\ UNCHANGED <<factory, want, cache>>

\* The list cannot be fetched: the stale entry is served if there is one, and stays stale.
FailVersions(c) ==
  /\ Upset
  /\ rec[c].at = "askingVersions"
  /\ mu' = None
  /\ IF versions = None
       THEN Fail(c, "FactoryUnavailable")
       ELSE UseVersions(c, versions.values)
  /\ UNCHANGED <<factory, want, cache>>

\* Cached.OfficialExtensions, in the same way.
LockExtensions(c) ==
  LET entry == EntryOf(rec[c].version) IN
  /\ rec[c].at = "extensions"
  /\ mu = None
  /\ \/ /\ Fresh(entry)
        /\ UseExtensions(c, entry.values)
        /\ UNCHANGED mu
     \/ /\ ~Fresh(entry)
        /\ mu' = c
        /\ rec' = [rec EXCEPT ![c].at = "askingExtensions"]
        /\ UNCHANGED <<status, queued>>
  /\ UNCHANGED <<outside, cache>>

AnswerExtensions(c) ==
  LET v == rec[c].version IN
  /\ rec[c].at = "askingExtensions"
  /\ v \in Served
  /\ extensions' = [extensions EXCEPT ![v] = [values |-> Offered(v), age |-> 0]]
  /\ mu' = None
  /\ UseExtensions(c, Offered(v))
  /\ UNCHANGED <<outside, versions, schematics>>

\* The list is not fetched.
WithoutExtensions(c) ==
  LET entry == EntryOf(rec[c].version) IN
  /\ rec[c].at = "askingExtensions"
  /\ mu' = None
  /\ IF entry = None
       THEN Fail(c, "FactoryUnavailable")
       ELSE UseExtensions(c, entry.values)
  /\ UNCHANGED <<factory, want, cache>>

FailExtensions(c) == Upset /\ WithoutExtensions(c)

\* The Image Factory has no list for a version it does not serve.
RefuseExtensions(c) ==
  /\ rec[c].version \notin Served
  /\ WithoutExtensions(c)
  /\ UNCHANGED <<published, upsets>>

\* Variant: the id is computed and stored before the schematic is registered.
LookUpStoresFirst(c) ==
  /\ rec[c].at = "schematic"
  /\ mu = None
  /\ schematics' = schematics \cup {rec[c].want.extensions}
  /\ \/ /\ rec[c].want.extensions \in schematics
        /\ Record(c)
     \/ /\ rec[c].want.extensions \notin schematics
        /\ rec' = [rec EXCEPT ![c].at = "posting"]
        /\ UNCHANGED <<status, queued>>
  /\ UNCHANGED <<outside, versions, extensions, mu>>

\* Cached.CreateSchematic: a schematic registered before is not sent again; the mutex is released
\* before one is.
LookUpSchematic(c) ==
  /\ rec[c].at = "schematic"
  /\ mu = None
  /\ \/ /\ rec[c].want.extensions \in schematics
        /\ Record(c)
     \/ /\ rec[c].want.extensions \notin schematics
        /\ rec' = [rec EXCEPT ![c].at = "posting"]
        /\ UNCHANGED <<status, queued>>
  /\ UNCHANGED <<outside, cache, mu>>

Register(c) == registered' = registered \cup {rec[c].want.extensions}

Post(c) ==
  /\ rec[c].at = "posting"
  /\ Register(c)
  /\ rec' = [rec EXCEPT ![c].at = "store"]
  /\ UNCHANGED <<servedFor, offeredFor, published, want, upsets, cache, mu, status, queued>>

\* The call fails, whether or not the schematic was registered.
FailPost(c) ==
  /\ Upset
  /\ rec[c].at = "posting"
  /\ Register(c) \/ UNCHANGED registered
  /\ Fail(c, "FactoryUnavailable")
  /\ UNCHANGED <<servedFor, offeredFor, want, cache, mu>>

StoreSchematic(c) ==
  /\ rec[c].at = "store"
  /\ mu = None
  /\ schematics' = schematics \cup {rec[c].want.extensions}
  /\ Record(c)
  /\ UNCHANGED <<outside, versions, extensions, mu>>

----------------------------------------------------------------------------
(* What happens around it. *)

\* The controller restarts with an empty cache.
Restart ==
  /\ Upset
  /\ versions' = None
  /\ extensions' = [v \in Versions |-> None]
  /\ schematics' = {}
  /\ mu' = None
  /\ rec' = [c \in Configs |-> Idle]
  /\ queued' = Configs
  /\ UNCHANGED <<factory, want, status>>

\* The spec of a TalosConfig changes, which enqueues it.
Edit(c) ==
  /\ Upset
  /\ \E r \in Requests \cup {None} : r # want[c] /\ want' = [want EXCEPT ![c] = r]
  /\ queued' = queued \cup {c}
  /\ UNCHANGED <<factory, cache, mu, status, rec>>

Publish(v) ==
  /\ servedFor[v] = NotYet
  /\ published < MaxPublished
  /\ published' = published + 1
  /\ servedFor' = [servedFor EXCEPT ![v] = 0]
  /\ UNCHANGED <<offeredFor, registered, cache, mu, want, status, queued, rec, upsets>>

Offer(v, e) ==
  /\ v \in Served
  /\ offeredFor[v][e] = NotYet
  /\ offeredFor' = [offeredFor EXCEPT ![v][e] = 0]
  /\ UNCHANGED <<servedFor, registered, cache, mu, want, status, queued, rec, published, upsets>>

Later(t) == IF t = NotYet \/ t = TTL THEN t ELSE t + 1
Aged(entry) == IF entry = None THEN None ELSE [entry EXCEPT !.age = Later(@)]

\* Time passes.
Tick ==
  /\ servedFor' = [v \in Versions |-> Later(servedFor[v])]
  /\ offeredFor' = [v \in Versions |-> [e \in Extensions |-> Later(offeredFor[v][e])]]
  /\ versions' = Aged(versions)
  /\ extensions' = [v \in Versions |-> Aged(extensions[v])]
  /\ UNCHANGED <<registered, schematics, mu, want, status, queued, rec, published, upsets>>

----------------------------------------------------------------------------

Locks(c) == LockVersions(c) \/ LockExtensions(c) \/ LookUpSchematic(c) \/ StoreSchematic(c)
Answers(c) == AnswerVersions(c) \/ AnswerExtensions(c) \/ RefuseExtensions(c) \/ Post(c)
Begins(c) == BeginWithout(c) \/ BeginReuse(c) \/ Begin(c)
Fails(c) == FailVersions(c) \/ FailExtensions(c) \/ FailPost(c)

Next ==
  \/ \E c \in Configs : Begins(c) \/ Locks(c) \/ Answers(c) \/ Fails(c) \/ Edit(c)
  \/ \E v \in Versions : Publish(v)
  \/ \E v \in Versions, e \in Extensions : Offer(v, e)
  \/ Restart
  \/ Tick

Spec == Init /\ [][Next]_vars

\* Workers serve the queue, a Go mutex starves nobody, the Image Factory answers (nothing in the
\* code limits how long it may take), and time passes.
FairSpec ==
  /\ Spec
  /\ \A c \in Configs : WF_vars(Begins(c)) /\ SF_vars(Locks(c)) /\ WF_vars(Answers(c))
  /\ WF_vars(Tick)

----------------------------------------------------------------------------
(* Properties. *)

\* An installer image on record can be pulled, whichever reconcile registered its schematic and
\* whichever answers were lost: the Image Factory knows the schematic, and the version of a bare
\* minor is one it serves and no prerelease (CreateSchematic, resolveTalosVersion).
ImageIsAvailable ==
  \A c \in Configs : pin[c] # None =>
    /\ pin[c].extensions \in registered
    /\ pin[c].inputs.version = Bare => pin[c].version \in Served \ Prereleases

\* The extensions of an image on record are offered for its own Talos version, through the cache
\* and with versions published at any time (OfficialExtensions, resolveImageFactory).
ExtensionsMatchVersion ==
  \A c \in Configs : pin[c] # None => pin[c].extensions \subseteq Offered(pin[c].version)

\* No answer is used beyond its TTL, unless the call for a newer one has just failed (refresh): a
\* minor is resolved to nothing older than what has been served for that long, and no released
\* patch and no extension that has been there for that long is said to be missing.
AnswersAreRecent ==
  [][\A c \in Configs : (rec'[c] # rec[c] /\ upsets' = upsets) =>
       /\ (rec[c].at \in {"versions", "askingVersions"} /\ rec'[c].version # None) =>
            \A v \in Released(Versions) : servedFor[v] = TTL => v <= rec'[c].version
       /\ condition'[c] = "NoReleasedPatch" /\ rec'[c].at = "idle" =>
            \A v \in Released(Versions) : servedFor[v] # TTL
       /\ condition'[c] = "UnknownExtension" /\ rec'[c].at = "idle" =>
            \E e \in rec[c].want.extensions : offeredFor[rec[c].version][e] # TTL]_vars

\* A resolution that finds in the cache all it may ask for does without the Image Factory: it never
\* fails because that cannot be reached, however old the lists are by then and whatever other
\* reconciles fetch or fail to fetch in the meantime (the stale-on-error fallback of refresh, and
\* schematics, which are never sent twice); only a restart, which empties the cache, ends it early.
KnownSurvivesOutage ==
  [][\A c \in Configs : (rec[c].known /\ rec'[c].at = "idle" /\ schematics' # {}) =>
       condition'[c] # "FactoryUnavailable"]_vars

\* What the Image Factory would make of the spec of c.
Resolvable(c) ==
  /\ want[c] # None
  /\ want[c].version # Malformed
  /\ IF want[c].version = Bare
       THEN \E v \in Released(Served) :
              /\ \A u \in Released(Served) : u <= v
              /\ want[c].extensions \subseteq Offered(v)
       ELSE want[c].extensions \subseteq Offered(want[c].version)

\* A TalosConfig that can be resolved is resolved in the end: failures are retried, refusals that
\* were cached expire, and no reconcile waits on the cache for ever.
GetsItsImage ==
  \A c \in Configs :
    <>[]Resolvable(c) => <>[]Reusable(c)
=============================================================================
