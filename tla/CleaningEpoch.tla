---------------------------- MODULE CleaningEpoch ----------------------------
(***************************************************************************)
(* flows/infra_loop_kda_flame_chase: the flows that FlowSession spawns and *)
(* signals, seen from inside.  Coding agents leave records in .kda-task of *)
(* the candidate tree; around every cleaning epoch of the upstream loop    *)
(* the adapter copies that directory aside and puts it back.  What runs in *)
(* the flow's Python process needs the flow; shells and agents are other   *)
(* processes of its group and may outlive it.                              *)
(***************************************************************************)
EXTENDS FlowSession

CONSTANT Records   \* the ledger, benchmark logs, failure records, profiles

ASSUME NoDirectoryAssumption == \A directory \in SUBSET Records : directory # None

VARIABLES
  control,     \* .kda-task: the records whole in it, or None
  phase,       \* phase[c]: where c's flow is in its loop
  backup,      \* backup[c]: what its snapshot holds; None is the .missing marker
  abandoned,   \* records in snapshots that a failed restore left behind
  recorded,    \* every record a coding agent wrote (history)
  overlapped   \* two groups lived at once (history)

epochVars == << control, phase, backup, abandoned, recorded, overlapped >>

\* A snapshot is whole from "taken" until its removal begins.
Covered == {"taken", "cleaning", "restoring", "copied", "removed"}

Held(directory) == IF directory = None THEN {} ELSE directory

EpochInit ==
  /\ control \in {None, {}}
  /\ phase = [c \in Cli |-> "coding"]
  /\ backup = [c \in Cli |-> None]
  /\ abandoned = {}
  /\ recorded = {}
  /\ overlapped = FALSE

Goto(c, from, to) == phase[c] = from /\ phase' = [phase EXCEPT ![c] = to]

\* Any process of the group may make the step, or only the flow itself.
ByGroup(c) == c \in Editing
ByFlow(c) == flow[c] = "alive"

\* A turn of a coding agent, which writes a record.
Record(c, r) ==
  /\ ByGroup(c) /\ phase[c] = "coding"
  /\ r \notin recorded
  /\ control' = Held(control) \cup {r}
  /\ recorded' = recorded \cup {r}
  /\ UNCHANGED << phase, backup, abandoned >>

---------------------------------------------------------------------------
\* _protected_clean_epoch

SnapshotStarts(c) ==
  /\ ByFlow(c) /\ Goto(c, "coding", "copying")
  /\ UNCHANGED << control, backup, abandoned, recorded >>

SnapshotTaken(c) ==
  /\ ByGroup(c) /\ Goto(c, "copying", "taken")
  /\ backup' = [backup EXCEPT ![c] = control]
  /\ UNCHANGED << control, abandoned, recorded >>

\* cp fails: the error is raised before the cleaner has begun.
SnapshotFails(c) ==
  /\ ByFlow(c) /\ Goto(c, "copying", "coding")
  /\ UNCHANGED << control, backup, abandoned, recorded >>

CleanerStarts(c) ==
  /\ ByFlow(c) /\ Goto(c, "taken", "cleaning")
  /\ UNCHANGED << control, backup, abandoned, recorded >>

\* The cleaner removes or rewrites what it likes, or the whole directory.
Clean(c) ==
  /\ ByGroup(c) /\ phase[c] = "cleaning"
  /\ control' \in {None} \cup SUBSET Held(control)
  /\ UNCHANGED << phase, backup, abandoned, recorded >>

\* `finally`: it returned or raised.
CleanerEnds(c) ==
  /\ ByFlow(c) /\ Goto(c, "cleaning", "restoring")
  /\ UNCHANGED << control, backup, abandoned, recorded >>

---------------------------------------------------------------------------
\* _restore_protected

\* There was nothing to protect, and there shall be nothing.
RestoreMissing(c) ==
  /\ ByGroup(c) /\ backup[c] = None /\ Goto(c, "restoring", "restored")
  /\ control' = None
  /\ UNCHANGED << backup, abandoned, recorded >>

RestoreCopies(c) ==
  /\ ByGroup(c) /\ backup[c] # None /\ Goto(c, "restoring", "copied")
  /\ UNCHANGED << control, backup, abandoned, recorded >>

\* rm -rf, file by file.
RestoreRemoves(c) ==
  /\ ByGroup(c)
  /\ \/ phase[c] = "copied" /\ control' \in SUBSET Held(control) /\ UNCHANGED phase
     \/ Goto(c, "copied", "removed") /\ control' = None
  /\ UNCHANGED << backup, abandoned, recorded >>

\* mv from the temporary file system to the workspace: a copy, file by file.
RestoreMoves(c) ==
  /\ ByGroup(c)
  /\ \/ phase[c] = "removed" /\ control' \in SUBSET backup[c] /\ UNCHANGED phase
     \/ Goto(c, "removed", "restored") /\ control' = backup[c]
  /\ UNCHANGED << backup, abandoned, recorded >>

\* Mutation: without `set -e` a failed copy or move is followed by the rm.
MutantRestoreFails(c) ==
  /\ ByFlow(c)
  /\ phase[c] \in {"restoring", "copied", "removed"}
  /\ phase' = [phase EXCEPT ![c] = "restored"]
  /\ UNCHANGED << control, backup, abandoned, recorded >>

\* `set -e`: a command fails, the error is raised, and the snapshot stays, or
\* what its own removal has left of it.  Whether the upstream loop
\* goes on or ends is its own affair.
RestoreFails(c) ==
  /\ ByFlow(c)
  /\ phase[c] \in {"restoring", "copied", "removed", "restored"}
  /\ phase' = [phase EXCEPT ![c] = "coding"]
  /\ \E rest \in SUBSET Held(backup[c]) :
       /\ phase[c] \in Covered => rest = Held(backup[c])
       /\ abandoned' = abandoned \cup rest
  /\ backup' = [backup EXCEPT ![c] = None]
  /\ UNCHANGED << control, recorded >>

RestoreEnds(c) ==
  /\ ByGroup(c) /\ Goto(c, "restored", "coding")
  /\ backup' = [backup EXCEPT ![c] = None]
  /\ UNCHANGED << control, abandoned, recorded >>

EpochStep(c) ==
  \/ \E r \in Records : Record(c, r)
  \/ SnapshotStarts(c) \/ SnapshotTaken(c) \/ SnapshotFails(c)
  \/ CleanerStarts(c)  \/ Clean(c)         \/ CleanerEnds(c)
  \/ RestoreMissing(c) \/ RestoreCopies(c) \/ RestoreRemoves(c)
  \/ RestoreMoves(c)   \/ RestoreFails(c)  \/ RestoreEnds(c)

\* Commands and signals as in FlowSession, beside the flows they act on.
EpochNext ==
  \/ /\ Next
     /\ overlapped' = (overlapped \/ \E c, d \in Editing' : c # d)
     /\ UNCHANGED << control, phase, backup, abandoned, recorded >>
  \/ /\ \E c \in Cli : EpochStep(c)
     /\ UNCHANGED << vars, overlapped >>

EpochSpec == Init /\ EpochInit /\ [][EpochNext]_<< vars, epochVars >>

---------------------------------------------------------------------------
\* What the adapter promises of .kda-task while flows do not overlap: whatever
\* a cleaner does and wherever its flow is killed or a command of the shell
\* fails, each record is in the directory or in a snapshot -- hence in the
\* directory, between epochs, when no restore failed or was cut short.
EvidenceSurvivesCleaning ==
  ~overlapped =>
    \A r \in recorded :
      \/ r \in Held(control) \cup abandoned
      \/ \E c \in Cli : phase[c] \in Covered /\ r \in Held(backup[c])
===========================================================================
