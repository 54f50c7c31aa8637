------------------------------- MODULE Export -------------------------------
(***************************************************************************)
(* tools/k3/export.py: `export bundle` writes a fresh directory with the   *)
(* task's deliverables, what the machine is, and the local work as a diff  *)
(* against the staged index, and a manifest that says what it could not    *)
(* prove.  Nothing is locked while it copies: the package, the machine,    *)
(* the index and the work tree change under it.                            *)
(***************************************************************************)
EXTENDS Toolchain

CONSTANTS Exporters,   \* export commands
          Labels,      \* labels a bundle can be given
          WorkFiles,   \* untracked files of the repository
          Contents     \* what they can contain

VARIABLES repo,        \* the index (a version) and the untracked files
          bundle,      \* the bundle directories, by label
          export,      \* the commands
          unproved     \* what has not held yet while the command ran (observer)

exportVars == <<repo, bundle, export, unproved>>

Tree == [WorkFiles -> Contents \cup {None}]
Diff == [base: Nat \cup {None}, adds: Tree]
\* What a bundle is made from; a missing workspace is never listed as missing.
Needed == {"workload", "patch", "reports", "base", "workspace", "evidence"}
Missable == Needed \ {"workspace"}
\* What is said of a declared patch: its hash, the recorded one, if it was copied.
PatchEntry == [copied: BOOLEAN, sha: Patches \cup {None}, recorded: Patches \cup {None}]
hash_verified(entry) == entry.recorded # None /\ entry.sha = entry.recorded
Answers == {"yes", "no", "unknown"}
Report == [status: {"ok", "degraded", "failed"},
           identity: [Submodules -> [pin: Commits \cup {None}, link: Commits \cup {None},
                                     head: Commits \cup {None}]]]
Manifest == [author: Exporters, task: Task,
             life: [status: KNOWN, terminal: BOOLEAN,
                    blockers: SUBSET {"status", "workload", "optimization"}],
             patch: PatchEntry, base: Answers, prepared: BOOLEAN,
             index: Nat \cup {None}, diff: Diff,
             listing: Nat \cup {None}, work: Tree, toolchain: Report \cup {None},
             missing: SUBSET Missable]
\* A directory: the copies, the diff and the manifest, which is written last.
Bundled == [task: Task \cup {None}, patch: Patches \cup {None}, diff: Diff,
            manifest: Manifest \cup {None}]
ExportPoints == {"idle", "load", "mkdir", "package", "patch", "copy", "reports", "inspect",
                 "workspace", "evidence", "staged", "untracked", "before", "diff", "after", "inventory",
                 "manifest"}
\* A command: what it loaded, copied, read and could not prove so far.
ExportCommand == [pc: ExportPoints, id: Tasks \cup {None}, label: Labels \cup {None},
                  task: Task \cup {None}, patch: PatchEntry, copied: Task \cup {None},
                  base: Answers, prepared: BOOLEAN, missing: SUBSET Missable, toolchain: Report \cup {None},
                  listed: SUBSET WorkFiles, staged: Nat \cup {None}, index: Nat \cup {None},
                  diff: Diff, work: Tree]

ASSUME BundleAssumption == None \notin Bundled

NoFiles == [f \in WorkFiles |-> None]
NoDiff == [base |-> None, adds |-> NoFiles]
NoPatch == [copied |-> FALSE, sha |-> None, recorded |-> None]
IdleExport == [pc |-> "idle", id |-> None, label |-> None, task |-> None,
               patch |-> NoPatch, copied |-> None, base |-> "unknown", prepared |-> FALSE,
               missing |-> {}, toolchain |-> None, listed |-> {},
               staged |-> None, index |-> None, diff |-> NoDiff, work |-> NoFiles]
EmptyBundle == [task |-> None, patch |-> None, diff |-> NoDiff, manifest |-> None]

ExportGoto(e, pc) == export' = [export EXCEPT ![e].pc = pc]
ExportQuit(e) == export' = [export EXCEPT ![e] = IdleExport]
Bundle(e) == bundle[export[e].label]

\* The next step, with something more that could not be proved.
ExportNote(e, pc, found, next) ==
  /\ export[e].pc = pc
  /\ export' = [export EXCEPT ![e].pc = next, ![e].missing = @ \cup found]
  /\ UNCHANGED <<repo, bundle>>

-----------------------------------------------------------------------------
(* The package *)

ExportIssue(e) ==
  /\ export[e].pc = "idle"
  /\ \E t \in Tasks, b \in Labels :
       export' = [export EXCEPT ![e] = [IdleExport EXCEPT !.pc = "load", !.id = t, !.label = b]]
  /\ UNCHANGED <<repo, bundle>>

\* The configuration is validated, so the task is there; a bundle that exists is
\* refused.  What the manifest says of the task's life and base is what is read here.
ExportLoad(e) ==
  /\ export[e].pc = "load"
  /\ LET t == export[e].id IN
       IF ~Valid(config) \/ t \notin Registered(config) \/ Bundle(e) # None
       THEN ExportQuit(e)
       ELSE export' = [export EXCEPT ![e].pc = "mkdir", ![e].task = package[t].task]
  /\ UNCHANGED <<repo, bundle>>

\* The directory is new or the command fails.
ExportReserve(e) ==
  /\ export[e].pc = "mkdir"
  /\ IF Bundle(e) # None
     THEN ExportQuit(e) /\ UNCHANGED bundle
     ELSE /\ bundle' = [bundle EXCEPT ![export[e].label] = EmptyBundle]
          /\ ExportGoto(e, "package")
  /\ UNCHANGED repo

\* task.json is copied and the copy hashed (_copy_recorded); without a task.json
\* the directory is left as it is.
ExportPackage(e) ==
  /\ export[e].pc = "package"
  /\ LET p == package[export[e].id] IN
       IF p = None \/ p.task = None
       THEN ExportQuit(e) /\ UNCHANGED bundle
       ELSE /\ bundle' = [bundle EXCEPT ![export[e].label].task = p.task]
            /\ export' = [export EXCEPT ![e].pc = "patch", ![e].copied = p.task,
                 ![e].missing = @ \cup {f \in {"workload"} : f \notin p.files}]
  /\ UNCHANGED repo

\* A package that is gone has no file at all.
Held(t) == IF package[t] = None THEN {} ELSE package[t].files
HeldPatch(t) == IF package[t] = None THEN None ELSE package[t].patch

\* _patch_entry: a declared patch is hashed first and copied next, unless another
\* hash is recorded for it.
ExportPatch(e) ==
  /\ export[e].pc = "patch"
  /\ LET task == export[e].task
         held == HeldPatch(export[e].id)
         hashed == [copied |-> FALSE, sha |-> held, recorded |-> task.patch]
     IN IF "patch" \notin task.declares THEN ExportGoto(e, "reports")
        ELSE IF PatchHeld(task, held)
        THEN export' = [export EXCEPT ![e].pc = "copy", ![e].patch = hashed]
        ELSE export' = [export EXCEPT ![e].pc = "reports", ![e].missing = @ \cup {"patch"},
                          ![e].patch = IF held = None THEN NoPatch ELSE hashed]
  /\ UNCHANGED <<repo, bundle>>

\* What lies there by now is copied, and the entry keeps the hash of before.
ExportCopyPatch(e) ==
  /\ export[e].pc = "copy"
  /\ LET now == HeldPatch(export[e].id) IN
       IF now = None THEN ExportQuit(e) /\ UNCHANGED bundle
       ELSE /\ bundle' = [bundle EXCEPT ![export[e].label].patch = now]
            /\ export' = [export EXCEPT ![e].pc = "reports", ![e].patch.copied = TRUE]
  /\ UNCHANGED repo

ExportReports(e) == ExportNote(e, "reports", {"reports"} \ Held(export[e].id), "inspect")

-----------------------------------------------------------------------------
(* The machine *)

\* What is inspected is what the manifest will say of the machine, and whether the
\* base is there, if that can be told.
Inspected(e, found) ==
  /\ export[e].pc = "inspect"
  /\ LET report == inspect(machine.link, export[e].id)
     IN export' = [export EXCEPT ![e].pc = "workspace", ![e].missing = @ \cup found,
                     ![e].base = task_base_available(export[e].id),
                     ![e].toolchain = [status |-> StatusOf(report),
                                       identity |-> identity(machine.link)]]
  /\ UNCHANGED <<repo, bundle>>

\* Mutant: a base that is not there is left to the inspection's warnings.
MutantInspect(e) == Inspected(e, {})

\* The reading that LaunchGate spells out is one step here.  The base looked for
\* is that of the task.json of this moment; one that nobody could look for is not
\* listed as missing.
ExportInspect(e) ==
  Inspected(e, {m \in {"base"} : task_base_available(export[e].id) = "no"})

\* workspace.status answers that none is prepared; it does not fail, so that the
\* branch that lists it as missing is not taken.
ExportWorkspace(e) ==
  /\ export[e].pc = "workspace"
  /\ export' = [export EXCEPT ![e].pc = "evidence", ![e].prepared = machine.workspace]
  /\ UNCHANGED <<repo, bundle>>

ExportEvidence(e) ==
  ExportNote(e, "evidence", (export[e].task.declares \cap {"evidence"}) \ Held(export[e].id),
             "staged")

-----------------------------------------------------------------------------
(* The local work (_local_diff, gitq.diff_including_untracked) *)

ExportStaged(e) ==
  /\ export[e].pc = "staged"
  /\ export' = [export EXCEPT ![e].pc = "untracked", ![e].staged = repo.index]
  /\ UNCHANGED <<repo, bundle>>

ExportUntracked(e) ==
  /\ export[e].pc = "untracked"
  /\ export' = [export EXCEPT ![e].pc = "before",
                  ![e].listed = {f \in WorkFiles : repo.files[f] # None}]
  /\ UNCHANGED <<repo, bundle>>

\* The index is hashed, and whatever is no file by now left out.
ExportBefore(e) ==
  /\ export[e].pc = "before"
  /\ export' = [export EXCEPT ![e].pc = "diff", ![e].index = repo.index,
                  ![e].listed = {f \in @ : repo.files[f] # None}]
  /\ UNCHANGED <<repo, bundle>>

\* The index is copied, the listed files are added to the copy and the diff
\* against it is taken; git refuses a file that is not there.
ExportDiff(e) ==
  /\ export[e].pc = "diff"
  /\ IF \E f \in export[e].listed : repo.files[f] = None
     THEN ExportQuit(e) /\ UNCHANGED bundle
     ELSE LET diff == [base |-> repo.index,
                       adds |-> [f \in WorkFiles |-> IF f \in export[e].listed
                                                     THEN repo.files[f] ELSE None]]
          IN /\ bundle' = [bundle EXCEPT ![export[e].label].diff = diff]
             /\ export' = [export EXCEPT ![e].pc = "after", ![e].diff = diff]
  /\ UNCHANGED repo

\* Mutant: the two hashes are recorded and not compared.
MutantAfter(e) == ExportNote(e, "after", {}, "inventory")

\* The index changed meanwhile: no bundle.
ExportAfter(e) ==
  /\ export[e].pc = "after"
  /\ IF repo.index # export[e].index THEN ExportQuit(e) ELSE ExportGoto(e, "inventory")
  /\ UNCHANGED <<repo, bundle>>

\* The files the diff carries are hashed where they are.
ExportInventory(e) ==
  /\ export[e].pc = "inventory"
  /\ export' = [export EXCEPT ![e].pc = "manifest",
                  ![e].work = [f \in WorkFiles |-> IF f \in export[e].listed
                                                   THEN repo.files[f] ELSE None]]
  /\ UNCHANGED <<repo, bundle>>

ExportManifest(e) ==
  /\ export[e].pc = "manifest"
  /\ bundle' = [bundle EXCEPT ![export[e].label].manifest =
                  [author |-> e, task |-> export[e].copied, life |-> describe(export[e].task),
                   patch |-> export[e].patch, base |-> export[e].base,
                   prepared |-> export[e].prepared, index |-> export[e].index,
                   diff |-> export[e].diff, listing |-> export[e].staged,
                   work |-> export[e].work, toolchain |-> export[e].toolchain,
                   missing |-> export[e].missing]]
  /\ ExportQuit(e)
  /\ UNCHANGED repo

ExportDies(e) ==
  /\ export[e].pc \notin {"idle", "load"}
  /\ Move
  /\ ExportQuit(e)
  /\ UNCHANGED <<repo, bundle>>

ExportStep(e) ==
  \/ /\ \/ ExportIssue(e) \/ ExportLoad(e) \/ ExportReserve(e) \/ ExportPackage(e)
        \/ ExportPatch(e) \/ ExportCopyPatch(e) \/ ExportReports(e) \/ ExportInspect(e)
        \/ ExportWorkspace(e) \/ ExportEvidence(e) \/ ExportStaged(e) \/ ExportUntracked(e)
        \/ ExportBefore(e) \/ ExportDiff(e) \/ ExportAfter(e) \/ ExportInventory(e)
        \/ ExportManifest(e)
     /\ UNCHANGED moves
  \/ ExportDies(e)

\* Somebody works in the repository: writes or removes a file, stages one.
RepoMove ==
  /\ Move
  /\ \E f \in WorkFiles :
       \/ \E c \in Contents \cup {None} : repo' = [repo EXCEPT !.files[f] = c]
       \/ repo.files[f] # None /\ repo' = [index |-> repo.index + 1,
                                           files |-> [repo.files EXCEPT ![f] = None]]
  /\ UNCHANGED <<bundle, export>>

ExportInit ==
  /\ \E c \in Contents : repo = [index |-> 0, files |-> [f \in WorkFiles |-> c]]
  /\ bundle = [b \in Labels |-> None]
  /\ export = [e \in Exporters |-> IdleExport]
  /\ unproved = [e \in Exporters |-> {}]

-----------------------------------------------------------------------------

Proved(p, e) ==
  LET t == export[e].id
  IN CASE p \in {"workload", "reports"} -> p \in Held(t)
       [] p = "patch" -> PatchHeld(export[e].task, HeldPatch(t))
       [] p = "evidence" -> p \in export[e].task.declares => p \in Held(t)
       [] p = "base" -> task_base_available(t) = "yes"
       [] p = "workspace" -> machine.workspace

\* The observer: counts from the moment the task was loaded.
ExportObserve ==
  unproved' = [e \in Exporters |->
    IF export'[e].pc \in {"idle", "load"} THEN {}
    ELSE {p \in (IF export[e].pc = "load" THEN Needed ELSE unproved[e]) : ~Proved(p, e)'}]

ExportTypeOK ==
  /\ repo \in [index: Nat, files: Tree]
  /\ bundle \in [Labels -> Bundled \cup {None}]
  /\ export \in [Exporters -> ExportCommand]
  /\ unproved \in [Exporters -> SUBSET Needed]

\* A manifest describes the directory it lies in: the task.json it hashes and the
\* diff are the ones there, and it speaks of a copied patch exactly if there is one,
\* whoever exports under the same label or is killed; and the diff was taken against
\* the very index whose hash it gives, so that it applies to it.
BundleIsHonest ==
  \A b \in Labels : bundle[b] # None /\ bundle[b].manifest # None =>
    LET m == bundle[b].manifest
    IN /\ m.task = bundle[b].task
       /\ m.patch.copied = (bundle[b].patch # None)
       /\ m.diff = bundle[b].diff
       /\ m.diff.base = m.index

\* "An existing accepted patch may be read and copied, but only when its hash
\* matches the recorded value exactly": a patch whose hash the manifest calls
\* verified is the patch in the directory (_patch_entry).  It is not, if the file
\* changes between the hash and the copy.
VerifiedPatchIsCopied ==
  \A b \in Labels : bundle[b] # None /\ bundle[b].manifest # None =>
    LET entry == bundle[b].manifest.patch
    IN hash_verified(entry) => bundle[b].patch = entry.recorded

\* What a manifest, or the command that writes it, tells without calling the bundle
\* incomplete: that nobody could look for the base, that no workspace was prepared.
Told(m) == {p \in {"base"} : m.base = "unknown"} \cup {p \in {"workspace"} : ~m.prepared}

\* "Missing local proof is explicit": when a bundle is called complete, each thing it
\* is made from -- the workload, reports, the declared patch and evidence, the base,
\* the workspace -- was there at some moment of the export, but for what the manifest
\* itself tells it did not find or could not look for.
CompleteBundleIsProved ==
  [][\A e \in Exporters : ExportManifest(e) /\ export[e].missing = {} =>
                            unproved[e] \subseteq Told(export[e])]_<<bundle, export, moves>>
=============================================================================
