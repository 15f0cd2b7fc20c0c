---------------------------- MODULE UpgradeTracker ----------------------------
(***************************************************************************)
(* The lifecycle upgrades the in-place hook runs in the background: the    *)
(* upgradeTracker of internal/inplace/upgrades.go, the sequence of         *)
(* internal/inplace/lifecycle.go and the watcher of                        *)
(* internal/inplace/updatemachine.go (cancelOnDeletion), for one machine.  *)
(*                                                                         *)
(* A sequence is a goroutine: it may outlive the entry that was recorded   *)
(* for it, and then runs on under a cancelled context until its next call  *)
(* fails.  The tracker is a map, so it points at no sequence or at one.    *)
(***************************************************************************)
EXTENDS TalosNode

CONSTANTS Seqs    \* identities of sequences: how many goroutines may overlap

ASSUME SeqAssumption == None \notin Seqs

VARIABLES
  tracker,  \* the sequence the entry of the machine belongs to, or None
  seq       \* the sequences: where each is, the image it upgrades to, and its context

trackerVars == <<tracker, seq>>

Running  == {"connect", "pull", "install", "reboot"}
Finished == {"done", "failed"}

\* The context of a sequence is "expired" once upgradeTimeout has passed since its start.
Sequences == [phase : Running \cup Finished \cup {"none"},
              image : Images \cup {None},
              ctx   : {"live", "cancelled", "expired"}]

\* No goroutine, and no entry for its outcome.
NoSequence == [phase |-> "none", image |-> None, ctx |-> "live"]

TrackerTypeOK ==
  /\ tracker \in Seqs \cup {None}
  /\ seq \in [Seqs -> Sequences]

TrackerInit ==
  /\ tracker = None
  /\ seq = [i \in Seqs |-> NoSequence]

\* A sequence that nothing has told to stop.
Live(i) == seq[i].phase \in Running /\ seq[i].ctx = "live"

----------------------------------------------------------------------------
(* The methods of the tracker; each holds its mutex throughout. *)

\* Is there an entry for the machine.
Exists == tracker # None

\* Variant: start without the look under the mutex.
StartUnchecked(img) ==
  \E i \in Seqs :
    /\ seq[i].phase = "none"
    /\ tracker' = i
    /\ seq' = [seq EXCEPT ![i] = [phase |-> "connect", image |-> img, ctx |-> "live"]]

\* start: a sequence already recorded is left alone.
StartUpgrade(img) ==
  IF Exists
    THEN UNCHANGED trackerVars
    ELSE \E i \in Seqs :
           /\ seq[i].phase = "none"
           /\ tracker' = i
           /\ seq' = [seq EXCEPT ![i] = [phase |-> "connect", image |-> img, ctx |-> "live"]]

\* cancel, and forget, which is the same: end the sequence in flight and drop the entry.
CancelUpgrade ==
  IF ~Exists
    THEN UNCHANGED trackerVars
    ELSE /\ tracker' = None
         /\ seq' = [seq EXCEPT ![tracker] = IF @.phase \in Finished
                                              THEN NoSequence
                                              ELSE [@ EXCEPT !.ctx = "cancelled"]]

\* get: what a hook call reads of the entry; "overdue" is done with upgradeTimeout passed.
Snapshot ==
  CASE ~Exists -> "untracked"
    [] Exists /\ seq[tracker].phase = "failed" -> "failed"
    [] Exists /\ seq[tracker].phase = "done" ->
         IF seq[tracker].ctx = "expired" THEN "overdue" ELSE "done"
    [] OTHER -> "running"

Snapshots == {"untracked", "failed", "overdue", "done", "running"}

\* The controller restarts: every goroutine and every entry is gone.
LoseUpgrades ==
  /\ tracker' = None
  /\ seq' = [i \in Seqs |-> NoSequence]

----------------------------------------------------------------------------
(* The sequence: connect, pull, install, reboot. *)

\* The goroutine returns, and sets done and err on its own entry if that is still there.
EndSequence(i, outcome) ==
  seq' = [seq EXCEPT ![i] = IF tracker = i THEN [@ EXCEPT !.phase = outcome] ELSE NoSequence]

\* A call of the sequence is answered.
Advance(i, from, to) ==
  /\ seq[i].phase = from
  /\ seq[i].ctx = "live"
  /\ up
  /\ seq' = [seq EXCEPT ![i].phase = to]
  /\ UNCHANGED tracker

Connect(i) == Advance(i, "connect", "pull") /\ UNCHANGED nodeVars

Pull(i) == Advance(i, "pull", "install") /\ UNCHANGED nodeVars

\* The install stream reports exit code zero.
Install(i) == Advance(i, "install", "reboot") /\ InstallImage(seq[i].image)

RequestReboot(i) ==
  /\ seq[i].phase = "reboot"
  /\ seq[i].ctx = "live"
  /\ Reboot
  /\ EndSequence(i, "done")
  /\ UNCHANGED tracker

\* The next call of a sequence fails: its context is done, or the node does not answer.
StopSequence(i) ==
  /\ seq[i].phase \in Running
  /\ seq[i].ctx # "live" \/ ~up
  /\ EndSequence(i, "failed")
  /\ UNCHANGED <<tracker, nodeVars>>

\* A call fails on the node, or its answer is lost after it took effect.
BreakSequence(i) ==
  /\ Live(i)
  /\ EndSequence(i, "failed")
  /\ UNCHANGED tracker
  /\ \/ UNCHANGED nodeVars
     \/ seq[i].phase = "install" /\ InstallImage(seq[i].image)
     \/ seq[i].phase = "reboot" /\ Reboot

\* upgradeTimeout passes since the sequence was started.
Expire(i) ==
  /\ seq[i].phase \in Running \cup {"done"}
  /\ seq[i].ctx = "live"
  /\ seq' = [seq EXCEPT ![i].ctx = "expired"]
  /\ UNCHANGED <<tracker, nodeVars>>

SequenceStep(i) ==
  \/ Connect(i)
  \/ Pull(i)
  \/ Install(i)
  \/ RequestReboot(i)
  \/ StopSequence(i)
=============================================================================
