---------------------------- MODULE TaskPackage ----------------------------
(***************************************************************************)
(* tools/k3/taskfactory.py and the task entries of tools/k3/config.py: the *)
(* task packages on disk and the configuration that registers them.        *)
(*                                                                         *)
(* `task-create` checks the configuration it loaded, makes the package's   *)
(* directory, writes its files one by one and, with --register, writes the *)
(* loaded configuration back with one entry more.  There is no lock, so    *)
(* creates race with each other and with an operator who edits both by     *)
(* hand, and may be killed anywhere.  Every other command of k3ctl begins  *)
(* by validating the whole configuration: one registered package that does *)
(* not validate blocks them all.                                           *)
(***************************************************************************)
EXTENDS Lifecycle, Naturals, Sequences, FiniteSets

CONSTANTS Tasks,      \* task ids
          Commits,    \* commits a task can be based on
          Patches,    \* contents of a patch file
          Statuses,   \* task states an operator writes into a task.json
          Breakable,  \* sections of the configuration an edit can break
          Creators,   \* task-create commands that may be alive together
          MaxMoves    \* bound: what operator and machine change by hand

VARIABLES config,     \* project.local.json
          package,    \* the package directories, by task id
          create,     \* the task-create commands
          moves       \* how often something was changed by hand

packageVars == <<config, package, create, moves>>

\* A task.json; `None` stands for a file that is not there.
Task == [status: KNOWN, workload: {"placeholder", "resolved"},
         optimization: {"unresolved", "accepted"}, base: Commits,
         declares: SUBSET {"patch", "evidence"}, patch: Patches \cup {None}]
\* `evidence` is the declared evidence manifest, taken to lie in the package.
PackageFiles == {"workload", "profile", "docs", "reports", "evidence"}
ConfigSections == {"source", "dependencies", "workflow", "runner", "no_commit_overlay"}

\* A package: its task.json, the other files and its patch file.  `author` is
\* the create that made the directory, no state of the program.
Package == [task: Task \cup {None}, files: SUBSET PackageFiles,
            patch: Patches \cup {None}, author: Creators \cup {None}]

ASSUME PackageAssumption == None \notin Task /\ None \notin Package
ASSUME EditsAssumption == Statuses \subseteq Task /\ Breakable \subseteq ConfigSections
                          /\ MaxMoves \in Nat

\* The configuration: the registered ids in order, whether the reviewer is
\* isolated behind a launcher, the sections with a value of a wrong form or a
\* placeholder in them, and whether the file is a tracked example.
Config == [tasks: Seq(Tasks), isolated: BOOLEAN, broken: SUBSET ConfigSections,
           example: BOOLEAN]
Registered(c) == {c.tasks[i] : i \in DOMAIN c.tasks}

-----------------------------------------------------------------------------
(* config.validate *)

\* A declared patch is there; if its hash is recorded, it is the one recorded.
PatchHeld(task, held) ==
  "patch" \in task.declares => held # None /\ task.patch \in {None, held}

\* _validate_task_entry: what it has to say against a registered task.
EntryErrors(t) ==
  IF package[t] = None THEN {"missing"}
  ELSE IF package[t].task = None THEN {"task.json"}
  ELSE {f \in {"workload", "profile"} \cup (package[t].task.declares \cap {"evidence"}) :
          f \notin package[t].files}
       \cup IF PatchHeld(package[t].task, package[t].patch) THEN {} ELSE {"patch"}

PinErrors(c) == c.broken \cap {"source", "dependencies"}
SettingErrors(c) == c.broken \cap {"workflow", "runner", "no_commit_overlay"}

\* validate: no error anywhere.
Valid(c) == /\ PinErrors(c) \cup SettingErrors(c) = {}
            /\ c.tasks # <<>>
            /\ Cardinality(Registered(c)) = Len(c.tasks)
            /\ \A t \in Registered(c) : EntryErrors(t) = {}

-----------------------------------------------------------------------------
(* task-create *)

Steps == {"idle", "check", "mkdir", "task", "workload", "profile", "docs", "register"}
\* `stale` says that what was loaded is older than a change by hand (observer).
Create == [pc: Steps, id: Tasks \cup {None}, base: Commits \cup {None},
           register: BOOLEAN, loaded: Config, stale: BOOLEAN]

NoConfig == [tasks |-> <<>>, isolated |-> FALSE, broken |-> {}, example |-> FALSE]
IdleCreate == [pc |-> "idle", id |-> None, base |-> None, register |-> FALSE,
               loaded |-> NoConfig, stale |-> FALSE]

CreateGoto(k, pc) == create' = [create EXCEPT ![k].pc = pc]
CreateQuit(k) == create' = [create EXCEPT ![k] = IdleCreate]

\* build_task_record: an unstartable task that declares no results.
ScaffoldRecord(base) ==
  [status |-> "scaffolded", workload |-> "placeholder", optimization |-> "unresolved",
   base |-> base, declares |-> {}, patch |-> None]

\* command_task_create: the configuration is loaded, not validated.
CreateLoad(k) ==
  /\ create[k].pc = "idle"
  /\ \E t \in Tasks, c \in Commits, r \in BOOLEAN :
       create' = [create EXCEPT ![k] =
                    [IdleCreate EXCEPT !.pc = "check", !.id = t, !.base = c,
                                       !.register = r, !.loaded = config]]
  /\ UNCHANGED <<config, package, moves>>

\* scaffold, first half: all it validates before it writes.
CreateCheck(k) ==
  /\ create[k].pc = "check"
  /\ IF create[k].id \in Registered(create[k].loaded) \/ package[create[k].id] # None
     THEN CreateQuit(k)
     ELSE CreateGoto(k, "mkdir")
  /\ UNCHANGED <<config, package, moves>>

\* Mutant: the directory may exist already.
MutantMkdir(k) ==
  /\ create[k].pc = "mkdir"
  /\ package' = [package EXCEPT ![create[k].id] =
                   IF @ # None THEN @
                   ELSE [task |-> None, files |-> {}, patch |-> None, author |-> k]]
  /\ CreateGoto(k, "task")
  /\ UNCHANGED <<config, moves>>

\* target.mkdir: somebody may have been quicker since the check.
CreateMkdir(k) ==
  /\ create[k].pc = "mkdir"
  /\ IF package[create[k].id] # None
     THEN CreateQuit(k) /\ UNCHANGED package
     ELSE /\ package' = [package EXCEPT ![create[k].id] =
                           [task |-> None, files |-> {}, patch |-> None, author |-> k]]
          /\ CreateGoto(k, "task")
  /\ UNCHANGED <<config, moves>>

\* Each write makes the directory again if somebody removed it (write_text).
Here(k) == IF package[create[k].id] # None THEN package[create[k].id]
           ELSE [task |-> None, files |-> {}, patch |-> None, author |-> k]

CreateTask(k) ==
  /\ create[k].pc = "task"
  /\ package' = [package EXCEPT ![create[k].id] =
                   [Here(k) EXCEPT !.task = ScaffoldRecord(create[k].base)]]
  /\ CreateGoto(k, "workload")
  /\ UNCHANGED <<config, moves>>

CreateFile(k, file, next) ==
  /\ create[k].pc = file
  /\ package' = [package EXCEPT ![create[k].id] =
                   [Here(k) EXCEPT !.files = @ \cup {file}]]
  /\ IF next = "register" /\ ~create[k].register THEN CreateQuit(k)
                                                 ELSE CreateGoto(k, next)
  /\ UNCHANGED <<config, moves>>

CreateFiles(k) == \/ CreateFile(k, "workload", "profile")
                  \/ CreateFile(k, "profile", "docs")
                  \/ CreateFile(k, "docs", "register")

\* _register_task: the configuration as it was loaded, and one entry more; a
\* copy that was outdated outdates what others loaded since.  A
\* tracked example is refused only now, when the package is written.
CreateRegister(k) ==
  /\ create[k].pc = "register"
  /\ config' = IF create[k].loaded.example THEN config
               ELSE [create[k].loaded EXCEPT !.tasks = Append(@, create[k].id)]
  /\ create' = [j \in Creators |->
       IF j = k THEN IdleCreate
       ELSE [create[j] EXCEPT !.stale = @ \/ (create[k].stale /\ create[j].pc # "idle")]]
  /\ UNCHANGED <<package, moves>>

CreateDies(k) ==
  /\ create[k].pc \notin {"idle", "check"}
  /\ moves < MaxMoves
  /\ moves' = moves + 1
  /\ CreateQuit(k)
  /\ UNCHANGED <<config, package>>

CreateStep(k) == \/ CreateLoad(k) \/ CreateCheck(k) \/ CreateMkdir(k) \/ CreateTask(k)
                 \/ CreateFiles(k) \/ CreateRegister(k) \/ CreateDies(k)

-----------------------------------------------------------------------------
(* An operator *)

Move == moves < MaxMoves /\ moves' = moves + 1
Flip(set, x) == IF x \in set THEN set \ {x} ELSE set \cup {x}

\* Whoever removes or repairs something by hand, or writes another patch or evidence
\* than the task declares, leaves the creates that run with a copy of the
\* configuration, or a package, that is older than that.
Outdates == create' = [k \in Creators |-> [create[k] EXCEPT !.stale = create[k].pc # "idle"]]

\* The status, the workload's status, the verdict are written into task.json.
EditTask(t, s) ==
  /\ Move
  /\ package[t] # None /\ package[t].task # None
  /\ package' = [package EXCEPT ![t].task = [s EXCEPT !.base = package[t].task.base,
                                                      !.declares = package[t].task.declares,
                                                      !.patch = package[t].task.patch]]
  /\ UNCHANGED <<config, create>>

\* The task is given another base commit.
Rebase(t, c) ==
  /\ Move
  /\ package[t] # None /\ package[t].task # None
  /\ package' = [package EXCEPT ![t].task.base = c]
  /\ UNCHANGED <<config, create>>

\* A patch is written into the package; it is declared, with its hash or without, in
\* an edit of its own, and no longer declared when it is gone.
WritePatch(t, p) ==
  /\ Move
  /\ package[t] # None
  /\ package' = [package EXCEPT ![t].patch = p]
  /\ Outdates
  /\ UNCHANGED config

RecordPatch(t, hash) ==
  /\ Move
  /\ package[t] # None /\ package[t].task # None /\ hash \in {None, package[t].patch}
  /\ package' = [package EXCEPT ![t].task.patch = hash,
                   ![t].task.declares = IF package[t].patch = None THEN @ \ {"patch"}
                                        ELSE @ \cup {"patch"}]
  /\ UNCHANGED <<config, create>>

\* An evidence manifest is declared or no longer, comes or goes.
EditEvidence(t) ==
  /\ Move
  /\ package[t] # None /\ package[t].task # None
  /\ \/ package' = [package EXCEPT ![t].task.declares = Flip(@, "evidence")]
     \/ package' = [package EXCEPT ![t].files = Flip(@, "evidence")]
  /\ Outdates
  /\ UNCHANGED config

RemovePackage(t) ==
  /\ Move
  /\ package[t] # None
  /\ package' = [package EXCEPT ![t] = None]
  /\ Outdates
  /\ UNCHANGED config

\* Registered by hand once it is complete.
RegisterByHand(t) ==
  /\ Move
  /\ t \notin Registered(config) /\ EntryErrors(t) = {}
  /\ config' = [config EXCEPT !.tasks = Append(@, t)]
  /\ UNCHANGED <<package, create>>

Deregister(t) ==
  /\ Move
  /\ \E i \in DOMAIN config.tasks :
       /\ config.tasks[i] = t
       /\ config' = [config EXCEPT !.tasks = SubSeq(@, 1, i - 1) \o SubSeq(@, i + 1, Len(@))]
  /\ Outdates
  /\ UNCHANGED package

\* The reviewer's settings are changed in the configuration.
EditReviewer ==
  /\ Move
  /\ config' = [config EXCEPT !.isolated = ~@]
  /\ UNCHANGED <<package, create>>

\* A setting is written in a form that validate refuses, or repaired.
EditSection(f) ==
  /\ Move
  /\ config' = [config EXCEPT !.broken = IF f \in @ THEN @ \ {f} ELSE @ \cup {f}]
  /\ Outdates
  /\ UNCHANGED package

PackageEdit == \E t \in Tasks :
  \/ \E s \in Statuses : EditTask(t, s)
  \/ \E c \in Commits : Rebase(t, c)
  \/ \E p \in Patches : WritePatch(t, p)
  \/ \E h \in Patches \cup {None} : RecordPatch(t, h)
  \/ EditEvidence(t) \/ RemovePackage(t)

ConfigEdit == \/ \E t \in Tasks : RegisterByHand(t) \/ Deregister(t)
              \/ EditReviewer
              \/ \E f \in Breakable : EditSection(f)

-----------------------------------------------------------------------------

\* One task is registered and its package complete.
PackageInit ==
  /\ \E t \in Tasks, s \in Statuses, c \in Commits, d \in SUBSET {"patch", "evidence"},
        p, h \in Patches \cup {None}, x \in BOOLEAN, i \in BOOLEAN :
       /\ "patch" \in d => p # None
       /\ h \in {None, p}
       /\ config = [tasks |-> <<t>>, isolated |-> i, broken |-> {}, example |-> x]
       /\ package = [u \in Tasks |->
            IF u # t THEN None
            ELSE [task |-> [s EXCEPT !.base = c, !.declares = d, !.patch = h],
                  files |-> PackageFiles, patch |-> p, author |-> None]]
  /\ create = [k \in Creators |-> IdleCreate]
  /\ moves = 0

PackageTypeOK ==
  /\ config \in Config
  /\ package \in [Tasks -> Package \cup {None}]
  /\ create \in [Creators -> Create]
  /\ moves \in 0..MaxMoves

\* A create breaks no configuration that was valid and touches no package but
\* the one whose directory it made, whatever else creates and is killed beside
\* it -- unless somebody removed, repaired or patched something by hand meanwhile,
\* of which the create, with its copy of the configuration, knows nothing.  One
\* broken entry would stop every command of k3ctl.
CreatesHarmNothing ==
  [][\A k \in Creators : CreateStep(k) /\ ~create[k].stale =>
       /\ Valid(config) => Valid(config)'
       /\ \A t \in Tasks : package[t] # None /\ package[t].author # k =>
                             package'[t] = package[t]]_packageVars
=============================================================================
