----------------------------- MODULE Workspace -----------------------------
(***************************************************************************)
(* tools/k3/workspace.py: the candidate and the baseline tree of a task.   *)
(*                                                                         *)
(* `workspace prepare` materialises the task's base commit twice, hashes   *)
(* both trees and writes a record that later plans are checked against.    *)
(* It takes no lock: the destinations are checked once, at the start.  A   *)
(* prepare may be killed at any step, an operator may remove a tree or     *)
(* give the task another base commit, and anybody may edit either tree.    *)
(*                                                                         *)
(* A tree is the content of its files; the digest of a tree is that        *)
(* content.  A commit's files all hold the commit, an edit writes a        *)
(* content nobody wrote before.                                            *)
(***************************************************************************)
EXTENDS Naturals, FiniteSets

CONSTANTS Commits,     \* base commits a task can be given
          Files,       \* source files of a tree
          Preparers,   \* prepare commands that may be alive together
          None,        \* no content, no record
          MaxEdits,    \* bound: edits of a tree or of the harness
          MaxFaults    \* bound: kills, removals, rebases, restores

ASSUME NoneAssumption == None \notin Commits \cup Nat
ASSUME CommitsAssumption == Commits # {} /\ Commits \cap Nat = {}
ASSUME FilesAssumption == Files # {}
ASSUME BoundsAssumption == MaxEdits \in Nat /\ MaxFaults \in Nat

VARIABLES base,     \* task.json: the task's base commit
          trees,    \* the two trees on disk
          record,   \* workspace.json
          prep,     \* the prepare commands
          edits,    \* how many contents were written by hand
          faults    \* how many kills, removals, rebases and restores there were

wsVars == <<base, trees, record, prep, edits, faults>>

Roots == {"candidate", "baseline"}
Content == Commits \cup Nat
Source == [Files -> Content \cup {None}]
Tree == [files: Source, head: Commits \cup {None}, control: BOOLEAN]
Modes == {"clone", "archive"}

\* What a commit checks out to, and an absent or empty directory.  Only a clone
\* has a head, the commit that `git checkout` brings back.
TreeOf(c) == [f \in Files |-> c]
Absent == [files |-> TreeOf(None), head |-> None, control |-> FALSE]

\* tree_hashes, without .git and the control directory.
Digest(root) == trees[root].files

Phases == {"idle", "checked", "cloned", "candidate", "snapshot", "hash",
           "baseline", "verify", "record"}
Prep == [pc: Phases, mode: Modes, base: Commits, todo: SUBSET Files,
         digest: Source, alone: BOOLEAN]

IdlePrep == [pc |-> "idle", mode |-> "clone", base |-> CHOOSE c \in Commits : TRUE,
             todo |-> {}, digest |-> TreeOf(None), alone |-> TRUE]

WsInit == /\ base \in Commits
          /\ trees = [root \in Roots |-> Absent]
          /\ record = None
          /\ prep = [p \in Preparers |-> IdlePrep]
          /\ edits = 0
          /\ faults = 0

-----------------------------------------------------------------------------
(* workspace prepare *)

Running(p) == prep[p].pc # "idle"

\* Mutant: only the candidate's destination is checked.
MutantUnprepared == trees["candidate"] = Absent

\* _refuse_unsafe_destination, for both trees.
Unprepared == \A root \in Roots : trees[root] = Absent

\* The task is loaded and the destinations are checked before any source work.
\* `alone` is no state of the program: it says that no other prepare ran since.
PrepareCheck(p) ==
  /\ ~Running(p)
  /\ Unprepared
  /\ \E mode \in Modes :
       prep' = [q \in Preparers |->
                  IF q = p
                  THEN [IdlePrep EXCEPT !.pc = "checked", !.mode = mode, !.base = base,
                                        !.alone = \A o \in Preparers : ~Running(o)]
                  ELSE [prep[q] EXCEPT !.alone = ~Running(q)]]
  /\ UNCHANGED <<base, trees, record, edits, faults>>

\* An error ends the command and leaves the trees as they are.
Abort(p) == prep' = [prep EXCEPT ![p] = IdlePrep]

\* git clone refuses a directory that is not empty.
PrepareClone(p) ==
  /\ prep[p].pc = "checked" /\ prep[p].mode = "clone"
  /\ \/ /\ trees["candidate"] # Absent
        /\ Abort(p) /\ UNCHANGED trees
     \/ /\ trees["candidate"] = Absent
        /\ trees' = [trees EXCEPT !["candidate"].head = prep[p].base]
        /\ prep' = [prep EXCEPT ![p].pc = "cloned"]
  /\ UNCHANGED <<base, record, edits, faults>>

\* git checkout refuses to replace a file it does not know; killed, it has
\* written some of them.
PrepareCheckout(p) ==
  /\ prep[p].pc = "cloned"
  /\ LET known == Digest("candidate") = TreeOf(None)
     IN  \/ /\ ~known
            /\ Abort(p) /\ UNCHANGED <<trees, faults>>
         \/ /\ known
            /\ trees' = [trees EXCEPT !["candidate"].files = TreeOf(prep[p].base)]
            /\ prep' = [prep EXCEPT ![p].pc = "snapshot"]
            /\ UNCHANGED faults
         \/ /\ known /\ faults < MaxFaults
            /\ \E some \in (SUBSET Files) \ {Files} :
                 trees' = [trees EXCEPT !["candidate"].files =
                             [f \in Files |-> IF f \in some THEN prep[p].base ELSE None]]
            /\ Abort(p)
            /\ faults' = faults + 1
  /\ UNCHANGED <<base, record, edits>>

\* git archive into a temporary file, then extraction over whatever is there.
PrepareArchive(p) ==
  /\ prep[p].pc = "checked" /\ prep[p].mode = "archive"
  /\ prep' = [prep EXCEPT ![p].pc = "candidate", ![p].todo = Files]
  /\ UNCHANGED <<base, trees, record, edits, faults>>

\* One file of the archive is extracted into the tree `root`.
Extract(p, root, next) ==
  /\ prep[p].pc = root
  /\ LET f == CHOOSE g \in prep[p].todo : TRUE
         left == prep[p].todo \ {f}
     IN  /\ trees' = [trees EXCEPT ![root].files[f] = prep[p].base]
         /\ prep' = [prep EXCEPT ![p].todo = left,
                                 ![p].pc = IF left = {} THEN next ELSE root]
  /\ UNCHANGED <<base, record, edits, faults>>

PrepareExtractCandidate(p) == Extract(p, "candidate", "snapshot")
PrepareExtractBaseline(p) == Extract(p, "baseline", "verify")

\* Contract, plan, workload and harness are copied into the control directory.
PrepareSnapshot(p) ==
  /\ prep[p].pc = "snapshot"
  /\ trees' = [trees EXCEPT !["candidate"].control = TRUE]
  /\ prep' = [prep EXCEPT ![p].pc = "hash"]
  /\ UNCHANGED <<base, record, edits, faults>>

PrepareHash(p) ==
  /\ prep[p].pc = "hash"
  /\ prep' = [prep EXCEPT ![p].pc = "baseline", ![p].todo = Files,
                          ![p].digest = Digest("candidate")]
  /\ UNCHANGED <<base, trees, record, edits, faults>>

\* Mutant: the record is written whether or not the trees started identical.
MutantPrepareVerify(p) ==
  /\ prep[p].pc = "verify"
  /\ prep' = [prep EXCEPT ![p].pc = "record"]
  /\ UNCHANGED <<base, trees, record, edits, faults>>

\* The two trees must have started identical.
PrepareVerify(p) ==
  /\ prep[p].pc = "verify"
  /\ IF Digest("baseline") = prep[p].digest
     THEN prep' = [prep EXCEPT ![p].pc = "record"]
     ELSE Abort(p)
  /\ UNCHANGED <<base, trees, record, edits, faults>>

PrepareRecord(p) ==
  /\ prep[p].pc = "record"
  /\ record' = [base |-> prep[p].base, digest |-> prep[p].digest, alone |-> prep[p].alone]
  /\ Abort(p)
  /\ UNCHANGED <<base, trees, edits, faults>>

PrepareDies(p) ==
  /\ Running(p)
  /\ faults < MaxFaults
  /\ faults' = faults + 1
  /\ Abort(p)
  /\ UNCHANGED <<base, trees, record, edits>>

-----------------------------------------------------------------------------
(* The operator and the agent *)

\* A file of a tree gets a content of its own.
Edit(root, f) ==
  /\ edits < MaxEdits
  /\ trees[root].files[f] # None
  /\ edits' = edits + 1
  /\ trees' = [trees EXCEPT ![root].files[f] = edits + 1]
  /\ UNCHANGED <<base, record, prep, faults>>

\* "Move or remove it yourself": one tree goes or both, the record stays.
\* Nobody removes a tree while a prepare is writing it.
Remove(roots) ==
  /\ faults < MaxFaults
  /\ \A p \in Preparers : ~Running(p)
  /\ \A root \in roots : trees[root] # Absent
  /\ faults' = faults + 1
  /\ trees' = [root \in Roots |-> IF root \in roots THEN Absent ELSE trees[root]]
  /\ UNCHANGED <<base, record, prep, edits>>

\* task.json is given another base commit.
Rebase ==
  /\ faults < MaxFaults
  /\ faults' = faults + 1
  /\ \E c \in Commits \ {base} : base' = c
  /\ UNCHANGED <<trees, record, prep, edits>>

PrepareStep(p) ==
  \/ PrepareCheck(p) \/ PrepareClone(p) \/ PrepareCheckout(p)
  \/ PrepareArchive(p) \/ PrepareExtractCandidate(p) \/ PrepareSnapshot(p)
  \/ PrepareHash(p) \/ PrepareExtractBaseline(p) \/ PrepareVerify(p)
  \/ PrepareRecord(p) \/ PrepareDies(p)

WsNext ==
  \/ \E p \in Preparers : PrepareStep(p)
  \/ \E root \in Roots, f \in Files : Edit(root, f)
  \/ \E roots \in (SUBSET Roots) \ {{}} : Remove(roots)
  \/ Rebase

WsSpec == WsInit /\ [][WsNext]_wsVars

-----------------------------------------------------------------------------
WsTypeOK ==
  /\ base \in Commits
  /\ trees \in [Roots -> Tree]
  /\ record \in [base: Commits, digest: Source, alone: BOOLEAN] \cup {None}
  /\ prep \in [Preparers -> Prep]
  /\ edits \in Nat
  /\ faults \in Nat

\* A prepare that no other prepare overlapped never replaces a file that was
\* on disk, however the agent's edits fall between its check of the
\* destinations and its writes ("It may contain candidate work.  This command
\* never deletes or replaces a workspace").
LonePrepareSparesWork ==
  [][\A p \in Preparers :
       prep[p] # prep'[p] /\ prep[p].alone /\ Running(p) =>
         \A root \in Roots, f \in Files :
           trees[root].files[f] # None =>
             trees'[root].files[f] = trees[root].files[f]]_wsVars

\* The record of such a prepare names the commit both trees were taken from:
\* what the two hashes agreed on is the tree of that commit, and no edit or
\* leftover that fell between the two materialisations is in it.
LoneRecordIsItsCommit ==
  record # None /\ record.alone => record.digest = TreeOf(record.base)
=============================================================================
