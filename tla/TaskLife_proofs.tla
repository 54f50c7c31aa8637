-------------------------- MODULE TaskLife_proofs --------------------------
(***************************************************************************)
(* What holds of the task packages, the launch gate and the export for     *)
(* every set of tasks, commands and places: the state has its type, a loop *)
(* runs the binaries of its start, a start has found every gate's fact     *)
(* true, a bundle's manifest is honest and its claim of completeness       *)
(* earned, and a create harms neither another's package nor a valid        *)
(* configuration.  Each property but the type rests on an invariant of its *)
(* own; a command disturbs only the invariant of its own kind, so that the *)
(* steps of the others frame it.                                           *)
(***************************************************************************)
EXTENDS TaskLife, TLAPS, FiniteSetTheorems, SequenceTheorems

(* Types.  A command that runs knows what it was called for, which the type *)
(* of its record alone does not say.                                        *)

CreateKnows == \A k \in Creators : create[k].pc # "idle" =>
                 create[k].id \in Tasks /\ create[k].base \in Commits

LaunchKnows == \A l \in Launchers : launch[l].pc # "idle" => launch[l].id \in Tasks

ExportKnows ==
  \A e \in Exporters :
    /\ export[e].pc # "idle" => export[e].id \in Tasks /\ export[e].label \in Labels
    /\ export[e].pc \notin {"idle", "load"} => export[e].task \in Task
    /\ export[e].pc \notin {"idle", "load", "mkdir", "package"} => export[e].copied \in Task
    /\ export[e].pc \notin {"idle", "load", "mkdir"} => bundle[export[e].label] # None

\* What is inductive of the type.
Typed == TypeOK /\ CreateKnows /\ LaunchKnows /\ ExportKnows

\* The initial states have it.
LEMMA StartsTyped == Init => Typed
<1> SUFFICES ASSUME Init PROVE Typed
  OBVIOUS
<1>1. PackageTypeOK
  <2>1. PICK t \in Tasks, s \in Statuses, c \in Commits, d \in SUBSET {"patch", "evidence"},
          p \in Patches \cup {None}, h \in Patches \cup {None}, x \in BOOLEAN, i \in BOOLEAN :
       /\ "patch" \in d => p # None
       /\ h \in {None, p}
       /\ config = [tasks |-> <<t>>, isolated |-> i, broken |-> {}, example |-> x]
       /\ package = [u \in Tasks |->
            IF u # t THEN None
            ELSE [task |-> [s EXCEPT !.base = c, !.declares = d, !.patch = h],
                  files |-> PackageFiles, patch |-> p, author |-> None]]
    BY DEF Init, PackageInit
  <2>2. config \in Config
    BY <2>1 DEF Config
  <2>3. [s EXCEPT !.base = c, !.declares = d, !.patch = h] \in Task
    BY EditsAssumption DEF Task
  <2>4. package \in [Tasks -> Package \cup {None}]
    BY <2>1, <2>3 DEF Package
  <2>5. create \in [Creators -> Create]
    <3>1. NoConfig \in Config
      BY DEF NoConfig, Config
    <3>2. IdleCreate \in Create
      BY <3>1 DEF IdleCreate, Create, Steps
    <3>3. QED
      BY <3>2 DEF Init, PackageInit
  <2>6. moves \in 0..MaxMoves
    BY EditsAssumption DEF Init, PackageInit
  <2>7. QED
    BY <2>2, <2>4, <2>5, <2>6 DEF PackageTypeOK
<1>2. machine \in Machine
  BY PlacesAssumption, PinsAssumption DEF Init, MachineInit, Machine
<1>3. LaunchTypeOK
  <2>1. IdleLaunch \in Launch
    BY PinsAssumption DEF IdleLaunch, Launch, LaunchPoints, NoPaths, Paths, NoConfig, Config
  <2>2. QED
    BY <2>1 DEF Init, LaunchInit, LaunchTypeOK
<1>4. ExportTypeOK
  <2>1. IdleExport \in ExportCommand
    BY DEF IdleExport, ExportCommand, ExportPoints, NoDiff, NoFiles, Diff, Tree,
           NoPatch, PatchEntry, Answers
  <2>2. repo \in [index: Nat, files: Tree]
    BY DEF Init, ExportInit, Tree
  <2>3. QED
    BY <2>1, <2>2 DEF Init, ExportInit, ExportTypeOK
<1>5. CreateKnows /\ LaunchKnows /\ ExportKnows
  BY DEF CreateKnows, LaunchKnows, ExportKnows, Init, PackageInit, LaunchInit, ExportInit,
         IdleCreate, IdleLaunch, IdleExport
<1>6. QED
  BY <1>1, <1>2, <1>3, <1>4, <1>5 DEF TypeOK, Typed

\* The package's side: a create.
LEMMA CreateTyped ==
  ASSUME PackageTypeOK, CreateKnows, NEW k \in Creators, CreateStep(k)
  PROVE  PackageTypeOK' /\ CreateKnows'
<1> USE DEF PackageTypeOK, CreateKnows
<1>0. create[k] \in Create /\ create[k].loaded \in Config
      /\ (create[k].pc # "idle" => create[k].id \in Tasks /\ create[k].base \in Commits)
  BY DEF Create
<1>1. IdleCreate \in Create
  BY DEF IdleCreate, Create, Steps, NoConfig, Config
<1>2. ASSUME CreateQuit(k) PROVE create' \in [Creators -> Create] /\ CreateKnows'
  BY <1>1, <1>2 DEF CreateQuit, IdleCreate
<1>3. ASSUME NEW pc \in Steps, CreateGoto(k, pc), create[k].pc # "idle"
      PROVE create' \in [Creators -> Create] /\ CreateKnows'
  BY <1>0, <1>3 DEF CreateGoto, Create
<1>4. ASSUME create[k].pc # "idle" PROVE Here(k) \in Package
  BY <1>0, <1>4 DEF Here, Package
<1>5. CASE CreateLoad(k)
  <2>1. PICK t \in Tasks, c \in Commits, r \in BOOLEAN :
       create' = [create EXCEPT ![k] =
                    [IdleCreate EXCEPT !.pc = "check", !.id = t, !.base = c,
                                       !.register = r, !.loaded = config]]
    BY <1>5 DEF CreateLoad
  <2> DEFINE new == [IdleCreate EXCEPT !.pc = "check", !.id = t, !.base = c,
                                       !.register = r, !.loaded = config]
  <2>2. new \in Create /\ new.id \in Tasks /\ new.base \in Commits
    BY <1>1 DEF Create, Steps
  <2>3. create' = [create EXCEPT ![k] = new]
    BY <2>1
  <2> HIDE DEF new
  <2>4. create' \in [Creators -> Create] /\ CreateKnows'
    BY <2>2, <2>3
  <2>5. QED
    BY <1>5, <2>4 DEF CreateLoad
<1>6. CASE CreateCheck(k)
  BY <1>2, <1>3, <1>6 DEF CreateCheck, Steps
<1>7. CASE CreateMkdir(k)
  BY <1>2, <1>3, <1>7 DEF CreateMkdir, Steps, Package
<1>8. CASE CreateTask(k)
  <2>1. Here(k) \in Package /\ create[k].id \in Tasks /\ create[k] \in Create
    BY <1>0, <1>4, <1>8 DEF CreateTask
  <2>2. ScaffoldRecord(create[k].base) \in Task
    BY <1>0, <1>8 DEF CreateTask, ScaffoldRecord, Task, KNOWN
  <2>3. [Here(k) EXCEPT !.task = ScaffoldRecord(create[k].base)] \in Package
    BY <2>1, <2>2 DEF Package
  <2>4. QED
    BY <1>3, <1>8, <2>1, <2>3 DEF CreateTask, Steps
<1>9. CASE CreateFiles(k)
  <2>1. PICK file \in PackageFiles, next \in Steps : CreateFile(k, file, next)
    BY <1>9 DEF CreateFiles, PackageFiles, Steps
  <2>2. Here(k) \in Package
    BY <1>4, <2>1 DEF CreateFile, PackageFiles
  <2>3. [Here(k) EXCEPT !.files = @ \cup {file}] \in Package
    BY <2>2 DEF Package
  <2>4. QED
    BY <1>2, <1>3, <2>1, <2>3 DEF CreateFile, PackageFiles
<1>10. CASE CreateRegister(k)
  <2>1. config' \in Config
    <3>1. create[k].id \in Tasks
      BY <1>0, <1>10 DEF CreateRegister
    <3> DEFINE new == [create[k].loaded EXCEPT !.tasks = Append(@, create[k].id)]
    <3>2. new \in Config
      <4>1. create[k].loaded \in Config /\ create[k].loaded.tasks \in Seq(Tasks)
        BY <1>0 DEF Config
      <4>2. Append(create[k].loaded.tasks, create[k].id) \in Seq(Tasks)
        BY <3>1, <4>1
      <4>3. QED
        BY <4>1, <4>2 DEF Config
    <3>3. config' = config \/ config' = new
      BY <1>10 DEF CreateRegister
    <3>4. QED
      <4> HIDE DEF new
      <4> QED
        BY <3>2, <3>3
  <2>2. create' \in [Creators -> Create] /\ CreateKnows'
    BY <1>0, <1>1, <1>10 DEF CreateRegister, Create, IdleCreate
  <2>3. QED
    BY <1>10, <2>1, <2>2 DEF CreateRegister
<1>11. CASE CreateDies(k)
  BY <1>2, <1>11, EditsAssumption DEF CreateDies
<1>12. QED
  BY <1>5, <1>6, <1>7, <1>8, <1>9, <1>10, <1>11 DEF CreateStep

\* The operator's edits.
LEMMA EditTyped ==
  ASSUME PackageTypeOK, CreateKnows, PackageEdit \/ ConfigEdit
  PROVE  PackageTypeOK' /\ CreateKnows'
<1> USE DEF PackageTypeOK, CreateKnows
<1>1. ASSUME Outdates \/ UNCHANGED create
      PROVE  create' \in [Creators -> Create] /\ CreateKnows'
  <2>1. CASE Outdates
    BY <2>1 DEF Outdates, Create
  <2>2. QED
    BY <1>1, <2>1
<1>2. ASSUME Move PROVE moves' \in 0..MaxMoves
  BY <1>2, EditsAssumption DEF Move
<1>3. ASSUME NEW t \in Tasks, package[t] # None /\ package[t].task # None
      PROVE  package[t] \in Package /\ package[t].task \in Task
  BY <1>3 DEF Package
<1>4. ASSUME NEW t \in Tasks, NEW s \in Statuses, EditTask(t, s) PROVE PackageTypeOK'
  <2>1. package[t] \in Package /\ package[t].task \in Task /\ s \in Task
    BY <1>3, <1>4, EditsAssumption DEF EditTask
  <2> DEFINE r == [s EXCEPT !.base = package[t].task.base, !.declares = package[t].task.declares,
                            !.patch = package[t].task.patch]
  <2>2. r \in Task
    BY <2>1 DEF Task
  <2>3. package' = [package EXCEPT ![t].task = r]
    BY <1>4 DEF EditTask
  <2> HIDE DEF r
  <2>4. [package[t] EXCEPT !.task = r] \in Package
    BY <2>1, <2>2 DEF Package
  <2>5. QED
    BY <1>1, <1>2, <1>4, <2>3, <2>4 DEF EditTask
<1>5. ASSUME NEW t \in Tasks, NEW c \in Commits, Rebase(t, c) PROVE PackageTypeOK'
  <2>1. package[t] \in Package /\ package[t].task \in Task
    BY <1>3, <1>5 DEF Rebase
  <2>2. [package[t].task EXCEPT !.base = c] \in Task
    BY <2>1 DEF Task
  <2>3. [package[t] EXCEPT !.task.base = c] \in Package
    BY <2>1, <2>2 DEF Package
  <2>4. QED
    BY <1>1, <1>2, <1>5, <2>3 DEF Rebase
<1>6. ASSUME NEW t \in Tasks, NEW p \in Patches, WritePatch(t, p) PROVE PackageTypeOK'
  BY <1>1, <1>2, <1>6 DEF WritePatch, Package
<1>7. ASSUME NEW t \in Tasks, NEW h \in Patches \cup {None}, RecordPatch(t, h) PROVE PackageTypeOK'
  <2> DEFINE declared == IF package[t].patch = None THEN package[t].task.declares \ {"patch"}
                         ELSE package[t].task.declares \cup {"patch"}
             r == [package[t].task EXCEPT !.patch = h, !.declares = declared]
  <2>1. package[t] \in Package /\ package[t].task \in Task
    BY <1>3, <1>7 DEF RecordPatch
  <2>2. r \in Task
    BY <2>1 DEF Task
  <2>3. package' = [package EXCEPT ![t] = [package[t] EXCEPT !.task = r]]
    BY <1>7, <2>1 DEF RecordPatch, Package, Task
  <2> HIDE DEF r
  <2>4. [package[t] EXCEPT !.task = r] \in Package
    BY <2>1, <2>2 DEF Package
  <2>5. QED
    BY <1>1, <1>2, <1>7, <2>3, <2>4 DEF RecordPatch
<1>7a. ASSUME NEW t \in Tasks, EditEvidence(t) PROVE PackageTypeOK'
  <2> DEFINE r == [package[t].task EXCEPT !.declares = Flip(@, "evidence")]
             files == Flip(package[t].files, "evidence")
  <2>1. package[t] \in Package /\ package[t].task \in Task
    BY <1>3, <1>7a DEF EditEvidence
  <2>2. r \in Task /\ files \in SUBSET PackageFiles
    BY <2>1 DEF Task, Package, PackageFiles, Flip
  <2>3. \/ package' = [package EXCEPT ![t] = [package[t] EXCEPT !.task = r]]
        \/ package' = [package EXCEPT ![t] = [package[t] EXCEPT !.files = files]]
    BY <1>7a, <2>1 DEF EditEvidence, Package, Task
  <2> HIDE DEF r, files
  <2>4. [package[t] EXCEPT !.task = r] \in Package /\ [package[t] EXCEPT !.files = files] \in Package
    BY <2>1, <2>2 DEF Package
  <2>5. QED
    BY <1>1, <1>2, <1>7a, <2>3, <2>4 DEF EditEvidence
<1>8. ASSUME NEW t \in Tasks, RemovePackage(t) PROVE PackageTypeOK'
  BY <1>1, <1>2, <1>8 DEF RemovePackage
<1>9. ASSUME NEW t \in Tasks, RegisterByHand(t) PROVE PackageTypeOK'
  <2>1. Append(config.tasks, t) \in Seq(Tasks)
    BY DEF Config
  <2>2. [config EXCEPT !.tasks = Append(@, t)] \in Config
    BY <2>1 DEF Config
  <2>3. QED
    BY <1>1, <1>2, <1>9, <2>2 DEF RegisterByHand
<1>10. ASSUME NEW t \in Tasks, Deregister(t) PROVE PackageTypeOK'
  <2> DEFINE less(i) == SubSeq(config.tasks, 1, i - 1)
                        \o SubSeq(config.tasks, i + 1, Len(config.tasks))
  <2>1. PICK i \in DOMAIN config.tasks : config' = [config EXCEPT !.tasks = less(i)]
    BY <1>10 DEF Deregister
  <2>2. config.tasks \in Seq(Tasks) /\ i \in 1..Len(config.tasks)
    BY DEF Config
  <2>3. less(i) \in Seq(Tasks)
    BY <2>2
  <2>4. config' \in Config
    <3> HIDE DEF less
    <3> QED
      BY <2>1, <2>3 DEF Config
  <2>5. QED
    BY <1>1, <1>2, <1>10, <2>4 DEF Deregister
<1>11. ASSUME EditReviewer PROVE PackageTypeOK'
  BY <1>1, <1>2, <1>11 DEF EditReviewer, Config
<1>12. ASSUME NEW f \in Breakable, EditSection(f) PROVE PackageTypeOK'
  BY <1>1, <1>2, <1>12, EditsAssumption DEF EditSection, Config
<1>13. PackageTypeOK'
  BY <1>4, <1>5, <1>6, <1>7, <1>7a, <1>8, <1>9, <1>10, <1>11, <1>12 DEF PackageEdit, ConfigEdit
<1>14. Outdates \/ UNCHANGED create
  BY DEF PackageEdit, ConfigEdit, EditTask, Rebase, WritePatch, RecordPatch, EditEvidence,
         RemovePackage,
         RegisterByHand, Deregister, EditReviewer, EditSection
<1>15. QED
  BY <1>1, <1>13, <1>14

\* What the machine may become.
LEMMA MachineFields ==
  ASSUME machine \in Machine
  PROVE  /\ machine.head \in [Submodules -> Commits \cup {None}]
         /\ machine.link \in [Submodules -> Commits \cup {None}]
         /\ machine.dirty \in SUBSET Submodules
         /\ machine.files \in SUBSET ToolFiles
         /\ machine.path \in [Commands -> Places \cup {None}]
         /\ machine.commits \in SUBSET Commits
         /\ machine.workspace \in BOOLEAN
  BY DEF Machine

\* The machine's changes keep its type.
LEMMA MachineTyped ==
  ASSUME machine \in Machine, moves \in 0..MaxMoves, MachineMove
  PROVE  machine' \in Machine /\ moves' \in 0..MaxMoves
<1>1. moves' \in 0..MaxMoves
  BY EditsAssumption DEF MachineMove, Move
<1>2. ASSUME NEW d \in Submodules, NEW c \in Commits \cup {None}
      PROVE  [machine EXCEPT !.head[d] = c] \in Machine
  <2>1. [machine.head EXCEPT ![d] = c] \in [Submodules -> Commits \cup {None}]
    BY MachineFields
  <2>2. QED
    BY <2>1 DEF Machine
<1>3. ASSUME NEW d \in Submodules, NEW c \in Commits
      PROVE  [machine EXCEPT !.link[d] = c] \in Machine
  <2>1. [machine.link EXCEPT ![d] = c] \in [Submodules -> Commits \cup {None}]
    BY MachineFields
  <2>2. QED
    BY <2>1 DEF Machine
<1>4. ASSUME NEW d \in Submodules PROVE [machine EXCEPT !.dirty = Flip(@, d)] \in Machine
  BY DEF Machine, Flip
<1>5. ASSUME NEW f \in ToolFiles PROVE [machine EXCEPT !.files = Flip(@, f)] \in Machine
  BY DEF Machine, Flip
<1>6. ASSUME NEW n \in Commands, NEW p \in Places \cup {None}
      PROVE  [machine EXCEPT !.path[n] = p] \in Machine
  <2>1. [machine.path EXCEPT ![n] = p] \in [Commands -> Places \cup {None}]
    BY MachineFields
  <2>2. QED
    BY <2>1 DEF Machine
<1>7. ASSUME NEW c \in Commits PROVE [machine EXCEPT !.commits = Flip(@, c)] \in Machine
  BY DEF Machine, Flip
<1>8. [machine EXCEPT !.workspace = ~@] \in Machine
  BY DEF Machine
<1>9. QED
  BY <1>1, <1>2, <1>3, <1>4, <1>5, <1>6, <1>7, <1>8 DEF MachineMove

\* The parts of LaunchTypeOK that the commands change.
LaunchState ==
  /\ launch \in [Launchers -> Launch]
  /\ lock \in [Tasks -> Launchers \cup {None, "writer", "stale"}]
  /\ session \in [Tasks -> Session \cup {None}]
  /\ writer \in [Tasks -> Writer \cup {None}]
  /\ LaunchKnows

\* What a plan resolves are places, or nothing.
LEMMA ResolvedTyped ==
  ASSUME machine \in Machine
  PROVE  Resolved \in Paths
  BY MachineFields DEF Resolved, Paths, Names, Commands

\* The gate's side: a step of an agent command.
LEMMA LaunchTyped ==
  ASSUME LaunchState, PackageTypeOK, machine \in Machine, NEW l \in Launchers, LaunchStep(l)
  PROVE  LaunchState' /\ moves' \in 0..MaxMoves
<1> USE DEF LaunchState, LaunchKnows
<1>0. launch[l] \in Launch /\ (launch[l].pc # "idle" => launch[l].id \in Tasks)
  OBVIOUS
<1>1. IdleLaunch \in Launch
  BY PinsAssumption DEF IdleLaunch, Launch, LaunchPoints, NoPaths, Paths, NoConfig, Config
<1>2. ASSUME NEW new \in Launch, new.pc # "idle" => new.id \in Tasks,
             launch' = [launch EXCEPT ![l] = new]
      PROVE  launch' \in [Launchers -> Launch] /\ LaunchKnows'
  BY <1>2
<1>3. ASSUME Quit(l) PROVE launch' \in [Launchers -> Launch] /\ LaunchKnows'
  BY <1>1, <1>2, <1>3 DEF Quit, IdleLaunch
<1>4. ASSUME NEW pc \in LaunchPoints, Goto(l, pc), launch[l].pc # "idle"
      PROVE launch' \in [Launchers -> Launch] /\ LaunchKnows'
  BY <1>0, <1>4 DEF Goto, Launch
<1>5. ASSUME Release(l) PROVE lock' \in [Tasks -> Launchers \cup {None, "writer", "stale"}]
  BY <1>5 DEF Release
<1>6. ASSUME LaunchIssue(l) PROVE LaunchState'
  <2>1. PICK t \in Tasks, mode \in {"start", "resume"} :
       launch' = [launch EXCEPT ![l] = [IdleLaunch EXCEPT !.pc = "validate", !.mode = mode,
                                          !.id = t, !.loaded = config]]
    BY <1>6 DEF LaunchIssue
  <2> DEFINE new == [IdleLaunch EXCEPT !.pc = "validate", !.mode = mode,
                                          !.id = t, !.loaded = config]
  <2>2. new \in Launch /\ new.id = t
    BY <1>1 DEF PackageTypeOK, Launch, LaunchPoints
  <2>3. launch' = [launch EXCEPT ![l] = new]
    BY <2>1
  <2> HIDE DEF new
  <2>4. QED
    BY <1>2, <1>6, <2>2, <2>3 DEF LaunchIssue
<1>7. ASSUME LaunchValidate(l) PROVE LaunchState'
  BY <1>3, <1>4, <1>7 DEF LaunchValidate, LaunchPoints
<1>8. ASSUME LaunchLoad(l) PROVE LaunchState'
  <2> DEFINE t == launch[l].id
             new == [launch[l] EXCEPT !.pc = "lock", !.paths = session[t].paths,
                              !.codex = session[t].codex, !.isolated = session[t].isolated]
  <2>1. CASE Quit(l)
    BY <1>3, <1>8, <2>1 DEF LaunchLoad
  <2>2. CASE Goto(l, "lock")
    BY <1>4, <1>8, <2>2 DEF LaunchLoad, LaunchPoints
  <2>3. CASE session[t] # None
             /\ launch' = [launch EXCEPT ![l].pc = "lock", ![l].paths = session[t].paths,
                         ![l].codex = session[t].codex, ![l].isolated = session[t].isolated]
    <3>1. session[t] \in Session /\ t \in Tasks
      BY <1>0, <1>8, <2>3 DEF LaunchLoad
    <3>2. new \in Launch /\ new.id \in Tasks
      BY <1>0, <3>1 DEF Launch, LaunchPoints, Session
    <3>3. launch' = [launch EXCEPT ![l] = new]
      BY <2>3
    <3> HIDE DEF new
    <3>4. QED
      BY <1>2, <1>8, <3>2, <3>3 DEF LaunchLoad
  <2>4. QED
    BY <1>8, <2>1, <2>2, <2>3 DEF LaunchLoad
<1>9. ASSUME LaunchLock(l) PROVE LaunchState'
  BY <1>3, <1>4, <1>9 DEF LaunchLock, LaunchPoints
<1>10. ASSUME NEW pc, NEW found \in BOOLEAN, NEW next \in LaunchPoints, pc # "idle",
              Reading(l, pc, found, next)
       PROVE  LaunchState'
  <2> DEFINE new == [launch[l] EXCEPT !.pc = next, !.blocked = @ \/ found]
  <2>1. new \in Launch /\ new.id \in Tasks
    BY <1>0, <1>10 DEF Reading, Launch
  <2>2. launch' = [launch EXCEPT ![l] = new]
    BY <1>10 DEF Reading
  <2> HIDE DEF new
  <2>3. QED
    BY <1>2, <1>10, <2>1, <2>2 DEF Reading
<1>11. ASSUME PlanTask(l) PROVE LaunchState'
  <2> DEFINE new == [launch[l] EXCEPT !.pc = "links", !.blocked = Blocked(launch[l].id) \/ ~machine.workspace]
  <2>1. CASE Quit(l) /\ Release(l)
    BY <1>3, <1>5, <1>11, <2>1 DEF PlanTask
  <2>2. CASE ~(Quit(l) /\ Release(l))
    <3>1. new \in Launch /\ new.id \in Tasks
      BY <1>0, <1>11 DEF PlanTask, Launch, LaunchPoints
    <3>2. launch' = [launch EXCEPT ![l] = new] /\ UNCHANGED lock
      BY <1>11, <2>2 DEF PlanTask
    <3> HIDE DEF new
    <3>3. QED
      BY <1>2, <1>11, <3>1, <3>2 DEF PlanTask
  <2>3. QED
    BY <2>1, <2>2
<1>12. ASSUME PlanLinks(l) PROVE LaunchState'
  <2> DEFINE new == [launch[l] EXCEPT !.pc = "heads", !.links = machine.link, !.todo = Submodules]
  <2>1. new \in Launch /\ new.id \in Tasks
    BY <1>0, <1>12, MachineFields DEF PlanLinks, Launch, LaunchPoints
  <2>2. launch' = [launch EXCEPT ![l] = new]
    BY <1>12 DEF PlanLinks
  <2> HIDE DEF new
  <2>3. QED
    BY <1>2, <1>12, <2>1, <2>2 DEF PlanLinks
<1>13. ASSUME PlanDependency(l) PROVE LaunchState'
  <2>1. PICK todo \in SUBSET Submodules, found \in BOOLEAN, pc \in {"heads", "sections"} :
          launch' = [launch EXCEPT ![l] = [launch[l] EXCEPT !.todo = todo, !.blocked = @ \/ found, !.pc = pc]]
    <3> DEFINE d == IF SOURCE \in launch[l].todo THEN SOURCE ELSE CHOOSE x \in launch[l].todo : TRUE
               f == StatusOf(dependency_check(d, launch[l].links)) = "failed"
               p == IF launch[l].todo = {d} THEN "sections" ELSE "heads"
    <3>1. launch' = [launch EXCEPT ![l].todo = @ \ {d}, ![l].blocked = @ \/ f, ![l].pc = p]
      BY <1>13 DEF PlanDependency
    <3>2. launch[l].todo \ {d} \in SUBSET Submodules /\ f \in BOOLEAN /\ p \in {"heads", "sections"}
      BY <1>0 DEF Launch
    <3> HIDE DEF d, f, p
    <3>3. launch' = [launch EXCEPT ![l] = [launch[l] EXCEPT !.todo = launch[l].todo \ {d},
                                                       !.blocked = @ \/ f, !.pc = p]]
      BY <3>1
    <3>4. QED
      BY <3>2, <3>3
  <2> DEFINE new == [launch[l] EXCEPT !.todo = todo, !.blocked = @ \/ found, !.pc = pc]
  <2>2. new \in Launch /\ new.id \in Tasks
    BY <1>0, <1>13 DEF PlanDependency, Launch, LaunchPoints
  <2>3. launch' = [launch EXCEPT ![l] = new]
    BY <2>1
  <2> HIDE DEF new
  <2>4. QED
    BY <1>2, <1>13, <2>2, <2>3 DEF PlanDependency
<1>14. ASSUME PlanSections(l) \/ PlanAgents(l) \/ PlanSource(l) PROVE LaunchState'
  BY <1>10, <1>14 DEF PlanSections, PlanAgents, PlanSource, LaunchPoints
<1>15. ASSUME PlanResolve(l) PROVE LaunchState'
  <2> DEFINE new == [launch[l] EXCEPT !.pc = "paths", !.codex = Resolved["codex"]]
  <2>1. CASE Quit(l) /\ Release(l)
    BY <1>3, <1>5, <1>15, <2>1 DEF PlanResolve
  <2>2. CASE ~(Quit(l) /\ Release(l))
    <3>1. new \in Launch /\ new.id \in Tasks
      BY <1>0, <1>15, ResolvedTyped DEF PlanResolve, Launch, LaunchPoints, Paths, Names
    <3>2. launch' = [launch EXCEPT ![l] = new] /\ UNCHANGED lock
      BY <1>15, <2>2 DEF PlanResolve
    <3> HIDE DEF new
    <3>3. QED
      BY <1>2, <1>15, <3>1, <3>2 DEF PlanResolve
  <2>3. QED
    BY <2>1, <2>2
<1>16. ASSUME LaunchPaths(l) PROVE LaunchState'
  <2> DEFINE new == [launch[l] EXCEPT !.pc = "shim", !.paths = Resolved, !.isolated = launch[l].loaded.isolated]
  <2>1. CASE Quit(l) /\ Release(l)
    BY <1>3, <1>5, <1>16, <2>1 DEF LaunchPaths
  <2>2. CASE ~(Quit(l) /\ Release(l))
    <3>1. new \in Launch /\ new.id \in Tasks
      BY <1>0, <1>16, ResolvedTyped DEF LaunchPaths, Launch, LaunchPoints, Config
    <3>2. launch' = [launch EXCEPT ![l] = new] /\ UNCHANGED lock
      BY <1>16, <2>2 DEF LaunchPaths
    <3> HIDE DEF new
    <3>3. QED
      BY <1>2, <1>16, <3>1, <3>2 DEF LaunchPaths
  <2>3. QED
    BY <2>1, <2>2
<1>17. ASSUME LaunchShim(l) PROVE LaunchState'
  <2> DEFINE shim == build_shim(launch[l].paths, launch[l].isolated)
             new == [launch[l] EXCEPT !.pc = "spawn", !.shim = shim]
  <2>1. CASE Quit(l) /\ Release(l)
    BY <1>3, <1>5, <1>17, <2>1 DEF LaunchShim
  <2>2. CASE ~(Quit(l) /\ Release(l))
    <3>0. shim \in [SHIM_NAMES -> Places \cup {None, Launcher}]
      BY <1>0 DEF build_shim, Launch, Paths, SHIM_NAMES, Names
    <3>1. new \in Launch /\ new.id \in Tasks
      <4> HIDE DEF shim
      <4> QED
        BY <1>0, <1>17, <3>0 DEF LaunchShim, Launch, LaunchPoints
    <3>2. launch' = [launch EXCEPT ![l] = new] /\ UNCHANGED lock
      BY <1>17, <2>2 DEF LaunchShim
    <3> HIDE DEF new
    <3>3. QED
      BY <1>2, <1>17, <3>1, <3>2 DEF LaunchShim
  <2>3. QED
    BY <2>1, <2>2
<1>18. ASSUME LaunchSpawn(l) PROVE LaunchState'
  <2>1. [shim |-> launch[l].shim, codex |-> launch[l].codex] \in Writer
    BY <1>0 DEF Launch, Writer
  <2>2. [paths |-> launch[l].paths, codex |-> launch[l].codex, isolated |-> launch[l].isolated] \in Session
    BY <1>0 DEF Launch, Session
  <2>3. QED
    BY <1>3, <1>18, <2>1, <2>2 DEF LaunchSpawn
<1>19. ASSUME LaunchDies(l) PROVE LaunchState' /\ moves' \in 0..MaxMoves
  <2>1. moves' \in 0..MaxMoves
    BY <1>19, EditsAssumption DEF LaunchDies, Move, PackageTypeOK
  <2>2. QED
    BY <1>3, <1>19, <2>1 DEF LaunchDies
<1>20. QED
  BY <1>6, <1>7, <1>8, <1>9, <1>11, <1>12, <1>13, <1>14, <1>15, <1>16, <1>17, <1>18, <1>19
     DEF LaunchStep, PackageTypeOK

\* And the end of a writer.
LEMMA WriterTyped ==
  ASSUME LaunchState, NEW t \in Tasks, WriterEnds(t)
  PROVE  LaunchState'
  BY DEF LaunchState, LaunchKnows, WriterEnds

\* The parts of ExportTypeOK that the commands change.
ExportState ==
  /\ repo \in [index: Nat, files: Tree]
  /\ bundle \in [Labels -> Bundled \cup {None}]
  /\ export \in [Exporters -> ExportCommand]
  /\ ExportKnows

\* What a command in hand may become.
Proper(x) ==
  /\ x \in ExportCommand
  /\ x.pc # "idle" => x.id \in Tasks /\ x.label \in Labels
  /\ x.pc \notin {"idle", "load"} => x.task \in Task
  /\ x.pc \notin {"idle", "load", "mkdir", "package"} => x.copied \in Task

\* What an inspection reports has the form of a report.
LEMMA InspectTyped ==
  ASSUME machine \in Machine, NEW t
  PROVE  [status |-> StatusOf(inspect(machine.link, t)), identity |-> identity(machine.link)] \in Report
<1>1. StatusOf(inspect(machine.link, t)) \in {"ok", "degraded", "failed"}
  BY DEF StatusOf
<1>2. identity(machine.link) \in [Submodules -> [pin: Commits \cup {None}, link: Commits \cup {None},
                                     head: Commits \cup {None}]]
  BY MachineFields, PinsAssumption DEF identity
<1>3. QED
  BY <1>1, <1>2 DEF Report

\* So has what a manifest says of the task's life.
LEMMA DescribeTyped ==
  ASSUME NEW x \in Task
  PROVE  describe(x) \in [status: KNOWN, terminal: BOOLEAN,
                          blockers: SUBSET {"status", "workload", "optimization"}]
  BY DEF describe, Task, start_blockers

\* Directories are made and filled, never removed.
Kept == /\ bundle' \in [Labels -> Bundled \cup {None}]
        /\ \A b \in Labels : bundle[b] # None => bundle'[b] # None

\* The export's side: a step of an export.
LEMMA ExportTyped ==
  ASSUME ExportState, PackageTypeOK, machine \in Machine, NEW e \in Exporters, ExportStep(e)
  PROVE  ExportState' /\ moves' \in 0..MaxMoves
<1> USE DEF ExportState
<1>0. Proper(export[e])
  BY DEF Proper, ExportKnows
<1>1. ASSUME NEW new, Proper(new), export' = [export EXCEPT ![e] = new], Kept,
             new.pc \notin {"idle", "load", "mkdir"} => bundle'[new.label] # None
      PROVE  bundle' \in [Labels -> Bundled \cup {None}]
             /\ export' \in [Exporters -> ExportCommand] /\ ExportKnows'
  BY <1>1 DEF Proper, ExportKnows, Kept
<1>a. Kept \/ bundle' # bundle
  BY DEF Kept
<1>b. \/ export[e].pc \in {"idle", "load", "mkdir"}
      \/ export[e].label \in Labels /\ bundle[export[e].label] \in Bundled
  BY DEF ExportKnows
<1>2. Proper(IdleExport)
  BY DEF Proper, IdleExport, ExportCommand, ExportPoints, NoDiff, NoFiles, Diff, Tree,
         NoPatch, PatchEntry, Answers
<1>3. ASSUME ExportQuit(e), Kept
      PROVE bundle' \in [Labels -> Bundled \cup {None}]
            /\ export' \in [Exporters -> ExportCommand] /\ ExportKnows'
  BY <1>1, <1>2, <1>3 DEF ExportQuit, IdleExport
<1>4. ASSUME NEW new, Proper(new), new.label = export[e].label,
             export' = [export EXCEPT ![e] = new], Kept,
             export[e].pc \notin {"idle", "load", "mkdir"}
      PROVE bundle' \in [Labels -> Bundled \cup {None}]
            /\ export' \in [Exporters -> ExportCommand] /\ ExportKnows'
  BY <1>0, <1>1, <1>4 DEF Proper, ExportKnows, Kept
<1>5. ASSUME NEW pc \in ExportPoints \ {"idle", "load", "mkdir", "package"},
             NEW next \in ExportPoints \ {"idle", "load", "mkdir", "package"},
             NEW found \in SUBSET Missable, ExportNote(e, pc, found, next)
      PROVE  ExportState'
  <2> DEFINE new == [export[e] EXCEPT !.pc = next, !.missing = @ \cup found]
  <2>1. Proper(new) /\ new.label = export[e].label
    BY <1>0, <1>5 DEF Proper, ExportCommand, ExportNote
  <2>2. export' = [export EXCEPT ![e] = new]
    BY <1>5 DEF ExportNote
  <2> HIDE DEF new
  <2>3. QED
    BY <1>4, <1>5, <1>a, <2>1, <2>2 DEF ExportNote
<1>6. ASSUME ExportIssue(e) PROVE ExportState'
  <2>1. PICK t \in Tasks, b \in Labels :
       export' = [export EXCEPT ![e] = [IdleExport EXCEPT !.pc = "load", !.id = t, !.label = b]]
    BY <1>6 DEF ExportIssue
  <2> DEFINE new == [IdleExport EXCEPT !.pc = "load", !.id = t, !.label = b]
  <2>2. Proper(new) /\ new.pc = "load"
    BY <1>2 DEF Proper, ExportCommand, ExportPoints
  <2>3. export' = [export EXCEPT ![e] = new]
    BY <2>1
  <2> HIDE DEF new
  <2>4. QED
    BY <1>1, <1>6, <1>a, <2>2, <2>3 DEF ExportIssue
<1>7. ASSUME ExportLoad(e) PROVE ExportState'
  <2> DEFINE t == export[e].id
             new == [export[e] EXCEPT !.pc = "mkdir", !.task = package[t].task]
  <2>1. CASE ExportQuit(e)
    BY <1>3, <1>7, <1>a, <2>1 DEF ExportLoad
  <2>2. CASE ~ExportQuit(e)
    <3>1. Valid(config) /\ t \in Registered(config) /\ export' = [export EXCEPT ![e] = new]
      BY <1>7, <2>2 DEF ExportLoad
    <3>2. t \in Tasks
      BY <1>0, <1>7 DEF ExportLoad, Proper
    <3>3. EntryErrors(t) = {}
      BY <3>1 DEF Valid
    <3>4. package[t] # None /\ package[t].task # None
      BY <3>3 DEF EntryErrors
    <3>5. package[t].task \in Task
      BY <3>2, <3>4 DEF PackageTypeOK, Package
    <3>6. Proper(new) /\ new.pc = "mkdir"
      BY <1>0, <1>7, <3>5 DEF ExportLoad, Proper, ExportCommand, ExportPoints
    <3> HIDE DEF new
    <3>7. QED
      BY <1>1, <1>7, <1>a, <3>1, <3>6 DEF ExportLoad
  <2>3. QED
    BY <2>1, <2>2
<1>8. ASSUME ExportReserve(e) PROVE ExportState'
  <2>1. CASE ExportQuit(e) /\ UNCHANGED bundle
    BY <1>3, <1>8, <1>a, <2>1 DEF ExportReserve
  <2>2. CASE ~(ExportQuit(e) /\ UNCHANGED bundle)
    <3>1. EmptyBundle \in Bundled
      BY DEF EmptyBundle, Bundled, NoDiff, NoFiles, Diff, Tree
    <3> DEFINE new == [export[e] EXCEPT !.pc = "package"]
    <3>2. Proper(new) /\ new.label = export[e].label /\ new.label \in Labels
      BY <1>0, <1>8 DEF ExportReserve, Proper, ExportCommand, ExportPoints
    <3>3. /\ export' = [export EXCEPT ![e] = new]
          /\ bundle' = [bundle EXCEPT ![new.label] = EmptyBundle]
      BY <1>8, <2>2, <3>2 DEF ExportReserve, ExportGoto
    <3>4. Kept /\ bundle'[new.label] # None
      BY <3>1, <3>2, <3>3, BundleAssumption DEF Kept
    <3> HIDE DEF new
    <3>5. QED
      BY <1>1, <1>8, <3>2, <3>3, <3>4 DEF ExportReserve
  <2>3. QED
    BY <2>1, <2>2
<1>9. ASSUME NEW d \in Bundled, bundle' = [bundle EXCEPT ![export[e].label] = d]
      PROVE  Kept
  BY <1>9, BundleAssumption DEF Kept
<1>10. ASSUME ExportPackage(e) PROVE ExportState'
  <2> DEFINE p == package[export[e].id]
             d == [bundle[export[e].label] EXCEPT !.task = p.task]
             more == {f \in {"workload"} : f \notin p.files}
             new == [export[e] EXCEPT !.pc = "patch", !.copied = p.task, !.missing = @ \cup more]
  <2>1. CASE ExportQuit(e) /\ UNCHANGED bundle
    BY <1>3, <1>10, <1>a, <2>1 DEF ExportPackage
  <2>2. CASE ~(ExportQuit(e) /\ UNCHANGED bundle)
    <3>1. /\ p # None /\ p.task # None
          /\ bundle' = [bundle EXCEPT ![export[e].label] = d]
          /\ export' = [export EXCEPT ![e] = new]
      BY <1>10, <2>2 DEF ExportPackage
    <3>2. p.task \in Task
      BY <1>0, <1>10, <3>1 DEF ExportPackage, Proper, PackageTypeOK, Package
    <3>3. d \in Bundled
      BY <1>b, <1>10, <3>2 DEF ExportPackage, Bundled
    <3>4. Proper(new) /\ new.label = export[e].label
      BY <1>0, <1>10, <3>2 DEF ExportPackage, Proper, ExportCommand, ExportPoints, Missable,
             Needed
    <3> HIDE DEF d, new
    <3>5. QED
      BY <1>4, <1>9, <1>10, <3>1, <3>3, <3>4 DEF ExportPackage
  <2>3. QED
    BY <2>1, <2>2
\* The steps that only go on.
<1>11. ASSUME NEW pc \in ExportPoints \ {"idle", "load", "mkdir", "package"}, ExportGoto(e, pc),
             export[e].pc \notin {"idle", "load", "mkdir", "package"}, UNCHANGED <<repo, bundle>>
      PROVE  ExportState'
  <2> DEFINE new == [export[e] EXCEPT !.pc = pc]
  <2>1. Proper(new) /\ new.label = export[e].label
    BY <1>0, <1>11 DEF Proper, ExportCommand
  <2>2. export' = [export EXCEPT ![e] = new]
    BY <1>11 DEF ExportGoto
  <2> HIDE DEF new
  <2>3. QED
    BY <1>4, <1>11, <1>a, <2>1, <2>2
<1>12. ASSUME ExportPatch(e) PROVE ExportState'
  <2> DEFINE held == HeldPatch(export[e].id)
             hashed == [copied |-> FALSE, sha |-> held, recorded |-> export[e].task.patch]
             entry == IF held = None THEN NoPatch ELSE hashed
             copying == [export[e] EXCEPT !.pc = "copy", !.patch = hashed]
             missing == [export[e] EXCEPT !.pc = "reports", !.missing = @ \cup {"patch"},
                                          !.patch = entry]
  <2>1. held \in Patches \cup {None} /\ export[e].task \in Task
    BY <1>0, <1>12 DEF ExportPatch, Proper, HeldPatch, PackageTypeOK, Package
  <2>2. hashed \in PatchEntry /\ entry \in PatchEntry
    BY <2>1 DEF PatchEntry, NoPatch, Task
  <2>3. ExportGoto(e, "reports") \/ export' = [export EXCEPT ![e] = copying]
        \/ export' = [export EXCEPT ![e] = missing]
    BY <1>12 DEF ExportPatch
  <2> HIDE DEF hashed, entry
  <2>4. /\ Proper(copying) /\ copying.label = export[e].label
        /\ Proper(missing) /\ missing.label = export[e].label
    BY <1>0, <1>12, <2>2 DEF ExportPatch, Proper, ExportCommand, ExportPoints, Missable, Needed
  <2> HIDE DEF copying, missing
  <2>5. QED
    BY <1>4, <1>11, <1>12, <1>a, <2>3, <2>4 DEF ExportPatch, ExportPoints
<1>13. ASSUME ExportCopyPatch(e) PROVE ExportState'
  <2> DEFINE now == HeldPatch(export[e].id)
             d == [bundle[export[e].label] EXCEPT !.patch = now]
             new == [export[e] EXCEPT !.pc = "reports", !.patch.copied = TRUE]
  <2>1. CASE ExportQuit(e) /\ UNCHANGED bundle
    BY <1>3, <1>13, <1>a, <2>1 DEF ExportCopyPatch
  <2>2. CASE ~(ExportQuit(e) /\ UNCHANGED bundle)
    <3>1. /\ now # None
          /\ bundle' = [bundle EXCEPT ![export[e].label] = d]
          /\ export' = [export EXCEPT ![e] = new]
      BY <1>13, <2>2 DEF ExportCopyPatch
    <3>2. now \in Patches \cup {None}
      BY <1>0, <1>13 DEF ExportCopyPatch, Proper, HeldPatch, PackageTypeOK, Package
    <3>3. d \in Bundled
      BY <1>b, <1>13, <3>2 DEF ExportCopyPatch, Bundled
    <3>4. [export[e].patch EXCEPT !.copied = TRUE] \in PatchEntry
      BY <1>0 DEF Proper, ExportCommand, PatchEntry
    <3>5. Proper(new) /\ new.label = export[e].label
      BY <1>0, <1>13, <3>4 DEF ExportCopyPatch, Proper, ExportCommand, ExportPoints
    <3> HIDE DEF d, new
    <3>6. QED
      BY <1>4, <1>9, <1>13, <3>1, <3>3, <3>5 DEF ExportCopyPatch
  <2>3. QED
    BY <2>1, <2>2
<1>14. ASSUME ExportReports(e) \/ ExportEvidence(e) PROVE ExportState'
  BY <1>5, <1>14 DEF ExportReports, ExportEvidence, ExportPoints, Missable, Needed
<1>14a. ASSUME ExportWorkspace(e) PROVE ExportState'
  <2> DEFINE new == [export[e] EXCEPT !.pc = "evidence", !.prepared = machine.workspace]
  <2>1. Proper(new) /\ new.label = export[e].label /\ export' = [export EXCEPT ![e] = new]
    BY <1>0, <1>14a, MachineFields DEF ExportWorkspace, Proper, ExportCommand, ExportPoints
  <2> HIDE DEF new
  <2>2. QED
    BY <1>4, <1>14a, <1>a, <2>1 DEF ExportWorkspace
<1>15. ASSUME ExportInspect(e) PROVE ExportState'
  <2>1. PICK found \in SUBSET Missable : Inspected(e, found)
    BY <1>15 DEF ExportInspect, Missable, Needed
  <2> DEFINE base == task_base_available(export[e].id)
             r == inspect(machine.link, export[e].id)
             report == [status |-> StatusOf(r), identity |-> identity(machine.link)]
             new == [export[e] EXCEPT !.pc = "workspace", !.missing = @ \cup found,
                                      !.base = base, !.toolchain = report]
  <2>2. report \in Report /\ base \in Answers
    BY InspectTyped DEF task_base_available, Answers
  <2>3. export' = [export EXCEPT ![e] = new]
    BY <2>1 DEF Inspected
  <2>4. Proper(new) /\ new.label = export[e].label
    <3> HIDE DEF report, base
    <3> QED
      BY <1>0, <2>1, <2>2 DEF Inspected, Proper, ExportCommand, ExportPoints
  <2> HIDE DEF new
  <2>5. QED
    BY <1>4, <1>a, <2>1, <2>3, <2>4 DEF Inspected
<1>16. ASSUME ExportStaged(e) PROVE ExportState'
  <2> DEFINE new == [export[e] EXCEPT !.pc = "untracked", !.staged = repo.index]
  <2>1. Proper(new) /\ new.label = export[e].label /\ export' = [export EXCEPT ![e] = new]
    BY <1>0, <1>16 DEF ExportStaged, Proper, ExportCommand, ExportPoints
  <2> HIDE DEF new
  <2>2. QED
    BY <1>4, <1>16, <1>a, <2>1 DEF ExportStaged
<1>17. ASSUME ExportUntracked(e) PROVE ExportState'
  <2> DEFINE listed == {f \in WorkFiles : repo.files[f] # None}
             new == [export[e] EXCEPT !.pc = "before", !.listed = listed]
  <2>1. Proper(new) /\ new.label = export[e].label /\ export' = [export EXCEPT ![e] = new]
    BY <1>0, <1>17 DEF ExportUntracked, Proper, ExportCommand, ExportPoints
  <2> HIDE DEF new
  <2>2. QED
    BY <1>4, <1>17, <1>a, <2>1 DEF ExportUntracked
<1>18. ASSUME ExportBefore(e) PROVE ExportState'
  <2> DEFINE listed == {f \in export[e].listed : repo.files[f] # None}
             new == [export[e] EXCEPT !.pc = "diff", !.index = repo.index, !.listed = listed]
  <2>1. Proper(new) /\ new.label = export[e].label /\ export' = [export EXCEPT ![e] = new]
    BY <1>0, <1>18 DEF ExportBefore, Proper, ExportCommand, ExportPoints
  <2> HIDE DEF new
  <2>2. QED
    BY <1>4, <1>18, <1>a, <2>1 DEF ExportBefore
<1>19. ASSUME ExportDiff(e) PROVE ExportState'
  <2> DEFINE adds == [f \in WorkFiles |-> IF f \in export[e].listed THEN repo.files[f] ELSE None]
             diff == [base |-> repo.index, adds |-> adds]
             d == [bundle[export[e].label] EXCEPT !.diff = diff]
             new == [export[e] EXCEPT !.pc = "after", !.diff = diff]
  <2>1. CASE ExportQuit(e) /\ UNCHANGED bundle
    BY <1>3, <1>19, <1>a, <2>1 DEF ExportDiff
  <2>2. CASE ~(ExportQuit(e) /\ UNCHANGED bundle)
    <3>1. /\ bundle' = [bundle EXCEPT ![export[e].label] = d]
          /\ export' = [export EXCEPT ![e] = new]
      BY <1>19, <2>2 DEF ExportDiff
    <3>2. diff \in Diff
      BY DEF Diff, Tree
    <3> HIDE DEF diff
    <3>3. d \in Bundled
      BY <1>b, <1>19, <3>2 DEF ExportDiff, Bundled
    <3>4. Proper(new) /\ new.label = export[e].label
      BY <1>0, <1>19, <3>2 DEF ExportDiff, Proper, ExportCommand, ExportPoints
    <3> HIDE DEF d, new
    <3>5. QED
      BY <1>4, <1>9, <1>19, <3>1, <3>3, <3>4 DEF ExportDiff
  <2>3. QED
    BY <2>1, <2>2
<1>20. ASSUME ExportAfter(e) PROVE ExportState'
  BY <1>3, <1>11, <1>20, <1>a DEF ExportAfter, ExportPoints
<1>21. ASSUME ExportInventory(e) PROVE ExportState'
  <2> DEFINE work == [f \in WorkFiles |-> IF f \in export[e].listed THEN repo.files[f] ELSE None]
             new == [export[e] EXCEPT !.pc = "manifest", !.work = work]
  <2>1. work \in Tree
    BY DEF Tree
  <2>2. export' = [export EXCEPT ![e] = new]
    BY <1>21 DEF ExportInventory
  <2>3. Proper(new) /\ new.label = export[e].label
    <3> HIDE DEF work
    <3> QED
      BY <1>0, <1>21, <2>1 DEF ExportInventory, Proper, ExportCommand, ExportPoints
  <2> HIDE DEF new
  <2>4. QED
    BY <1>4, <1>21, <1>a, <2>2, <2>3 DEF ExportInventory
<1>22. ASSUME ExportManifest(e) PROVE ExportState'
  <2> DEFINE m == [author |-> e, task |-> export[e].copied, life |-> describe(export[e].task),
                   patch |-> export[e].patch, base |-> export[e].base,
                   prepared |-> export[e].prepared, index |-> export[e].index,
                   diff |-> export[e].diff, listing |-> export[e].staged,
                   work |-> export[e].work, toolchain |-> export[e].toolchain,
                   missing |-> export[e].missing]
             d == [bundle[export[e].label] EXCEPT !.manifest = m]
  <2>1. bundle' = [bundle EXCEPT ![export[e].label] = d]
    BY <1>22 DEF ExportManifest
  <2>2. m \in Manifest
    BY <1>0, <1>22, DescribeTyped DEF ExportManifest, Proper, ExportCommand, Manifest
  <2>3. d \in Bundled
    <3> HIDE DEF m
    <3> QED
      BY <1>b, <1>22, <2>2 DEF ExportManifest, Bundled
  <2> HIDE DEF d
  <2>4. QED
    BY <1>3, <1>9, <1>22, <2>1, <2>3 DEF ExportManifest
<1>23. ASSUME ExportDies(e) PROVE ExportState' /\ moves' \in 0..MaxMoves
  <2>1. moves' \in 0..MaxMoves
    BY <1>23, EditsAssumption DEF ExportDies, Move, PackageTypeOK
  <2>2. QED
    BY <1>3, <1>23, <1>a, <2>1 DEF ExportDies
<1>24. QED
  BY <1>6, <1>7, <1>8, <1>10, <1>12, <1>13, <1>14, <1>14a, <1>15, <1>16, <1>17, <1>18, <1>19,
     <1>20, <1>21, <1>22, <1>23 DEF ExportStep, PackageTypeOK

\* And of whoever works in the repository.
LEMMA RepoTyped ==
  ASSUME ExportState, PackageTypeOK, RepoMove
  PROVE  ExportState' /\ moves' \in 0..MaxMoves
<1>1. repo' \in [index: Nat, files: Tree]
  BY DEF RepoMove, ExportState, Tree
<1>2. moves' \in 0..MaxMoves
  BY EditsAssumption DEF RepoMove, Move, PackageTypeOK
<1>3. QED
  BY <1>1, <1>2 DEF RepoMove, ExportState, ExportKnows

\* The observers count members of their sets.
LEMMA WatchTyped ==
  ASSUME TypeOK, Watch
  PROVE  unmet' \in [Launchers -> SUBSET Conditions] /\ unproved' \in [Exporters -> SUBSET Needed]
<1>1. unmet' \in [Launchers -> SUBSET Conditions]
  BY DEF Watch, Observe, TypeOK, LaunchTypeOK
<1>2. unproved' \in [Exporters -> SUBSET Needed]
  BY DEF Watch, ExportObserve, TypeOK, ExportTypeOK
<1>3. QED
  BY <1>1, <1>2

\* Every step keeps the type.
LEMMA NextTyped ==
  ASSUME Typed, [Next]_vars
  PROVE  Typed'
<1>1. /\ PackageTypeOK /\ CreateKnows /\ machine \in Machine /\ LaunchState /\ ExportState
      /\ unmet \in [Launchers -> SUBSET Conditions] /\ unproved \in [Exporters -> SUBSET Needed]
      /\ config \in Config /\ package \in [Tasks -> Package \cup {None}]
      /\ create \in [Creators -> Create] /\ moves \in 0..MaxMoves
  BY DEF Typed, TypeOK, LaunchTypeOK, ExportTypeOK, LaunchState, ExportState, PackageTypeOK
<1>2. ASSUME Watch, PackageTypeOK', CreateKnows', machine' \in Machine, LaunchState', ExportState'
      PROVE  Typed'
  <2>1. unmet' \in [Launchers -> SUBSET Conditions] /\ unproved' \in [Exporters -> SUBSET Needed]
    BY <1>2, WatchTyped DEF Typed
  <2>2. QED
    BY <1>2, <2>1 DEF Typed, TypeOK, LaunchTypeOK, ExportTypeOK, LaunchState, ExportState
<1>3. ASSUME UNCHANGED <<launch, lock, session, writer>> PROVE LaunchState'
  BY <1>1, <1>3 DEF LaunchState, LaunchKnows
<1>4. ASSUME UNCHANGED <<repo, bundle, export>> PROVE ExportState'
  BY <1>1, <1>4 DEF ExportState, ExportKnows
<1>5. ASSUME UNCHANGED <<config, package, create>>, moves' \in 0..MaxMoves
      PROVE  PackageTypeOK' /\ CreateKnows'
  BY <1>1, <1>5 DEF PackageTypeOK, CreateKnows
<1>6. CASE Creating
  BY <1>1, <1>2, <1>3, <1>4, <1>6, CreateTyped DEF Creating
<1>7. CASE EditingPackage \/ EditingConfig
  BY <1>1, <1>2, <1>3, <1>4, <1>7, EditTyped DEF EditingPackage, EditingConfig
<1>8. CASE Changing
  <2>1. UNCHANGED <<config, package, create>>
    BY <1>8 DEF Changing, MachineMove
  <2>2. QED
    BY <1>1, <1>2, <1>3, <1>4, <1>5, <1>8, <2>1, MachineTyped DEF Changing
<1>9. CASE Launching
  <2>1. LaunchState' /\ moves' \in 0..MaxMoves
    BY <1>1, <1>9, LaunchTyped, WriterTyped DEF Launching
  <2>2. QED
    BY <1>1, <1>2, <1>4, <1>5, <1>9, <2>1 DEF Launching
<1>10. CASE Exporting
  <2>1. ExportState' /\ moves' \in 0..MaxMoves
    BY <1>1, <1>10, ExportTyped, RepoTyped DEF Exporting
  <2>2. QED
    BY <1>1, <1>2, <1>3, <1>5, <1>10, <2>1 DEF Exporting
<1>11. CASE UNCHANGED vars
  <2>1. UNCHANGED <<config, package, create, moves, machine, launch, lock, session, writer, unmet, repo, bundle, export, unproved>>
    BY <1>11 DEF vars, packageVars, launchVars, exportVars
  <2>2. QED
    BY <1>1, <1>3, <1>4, <1>5, <2>1 DEF Typed, TypeOK, LaunchTypeOK, ExportTypeOK, LaunchState, ExportState
<1>12. QED
  BY <1>6, <1>7, <1>8, <1>9, <1>10, <1>11 DEF Next

-----------------------------------------------------------------------------
(* The binaries of a loop *)

\* A start has resolved every command its hooks call.
Found(paths) == \A n \in SHIM_NAMES : paths[n] \in Places

\* Whatever a start resolved it resolved in full, its shim is built from that, and
\* so are the session and the writer that it leaves.
ToolsInv ==
  /\ \A l \in Launchers :
       /\ launch[l].pc \in {"shim", "spawn"} \/ (launch[l].pc = "lock" /\ launch[l].mode = "resume")
            => Found(launch[l].paths)
       /\ launch[l].pc = "spawn" => launch[l].shim = build_shim(launch[l].paths, launch[l].isolated)
  /\ \A t \in Tasks :
       /\ session[t] # None => Found(session[t].paths)
       /\ writer[t] # None =>
            /\ Found(session[t].paths)
            /\ writer[t].shim = build_shim(session[t].paths, session[t].isolated)
            /\ writer[t].codex = session[t].codex

\* A step of an agent command keeps it: a resume takes the session's paths, a start
\* its own.
LEMMA ToolsStep ==
  ASSUME Typed, ToolsInv, NEW l \in Launchers, LaunchStep(l)
  PROVE  ToolsInv'
<1> DEFINE LI(x) == /\ x.pc \in {"shim", "spawn"} \/ (x.pc = "lock" /\ x.mode = "resume") => Found(x.paths)
                    /\ x.pc = "spawn" => x.shim = build_shim(x.paths, x.isolated)
<1>0. /\ launch \in [Launchers -> Launch] /\ session \in [Tasks -> Session \cup {None}]
      /\ writer \in [Tasks -> Writer \cup {None}]
      /\ launch[l].pc # "idle" => launch[l].id \in Tasks
      /\ launch[l] \in Launch
  BY DEF Typed, TypeOK, LaunchTypeOK, LaunchKnows
<1>1. ASSUME NEW new, LI(new), launch' = [launch EXCEPT ![l] = new], UNCHANGED <<session, writer>>
      PROVE  ToolsInv'
  BY <1>0, <1>1 DEF ToolsInv, Found, build_shim
<1>2. LI(IdleLaunch)
  BY DEF IdleLaunch
<1>3. ASSUME Quit(l), UNCHANGED <<session, writer>> PROVE ToolsInv'
  BY <1>1, <1>2, <1>3 DEF Quit
<1>4. ASSUME NEW new, launch' = [launch EXCEPT ![l] = new], UNCHANGED <<session, writer>>,
             new.pc \notin {"shim", "spawn", "lock"}
      PROVE  ToolsInv'
  BY <1>1, <1>4
<1>5. CASE LaunchIssue(l)
  <2>1. PICK t \in Tasks, mode \in {"start", "resume"} :
       launch' = [launch EXCEPT ![l] = [IdleLaunch EXCEPT !.pc = "validate", !.mode = mode,
                                          !.id = t, !.loaded = config]]
    BY <1>5 DEF LaunchIssue
  <2>2. [IdleLaunch EXCEPT !.pc = "validate", !.mode = mode, !.id = t, !.loaded = config].pc = "validate"
    BY DEF IdleLaunch
  <2>3. QED
    BY <1>4, <1>5, <2>1, <2>2 DEF LaunchIssue
<1>6. CASE LaunchValidate(l)
  <2>1. [launch[l] EXCEPT !.pc = "load"].pc = "load"
    BY <1>0 DEF Launch
  <2>2. QED
    BY <1>3, <1>4, <1>6, <2>1 DEF LaunchValidate, Goto
<1>7. CASE LaunchLoad(l)
  <2> DEFINE t == launch[l].id
             new == [launch[l] EXCEPT !.pc = "lock", !.paths = session[t].paths,
                              !.codex = session[t].codex, !.isolated = session[t].isolated]
  <2>1. CASE Quit(l)
    BY <1>3, <1>7, <2>1 DEF LaunchLoad
  <2>2. CASE launch[l].mode = "start" /\ Goto(l, "lock")
    <3>1. LI([launch[l] EXCEPT !.pc = "lock"])
      BY <1>0, <2>2 DEF Launch
    <3>2. QED
      BY <1>1, <1>7, <2>2, <3>1 DEF LaunchLoad, Goto
  <2>3. CASE session[t] # None
             /\ launch' = [launch EXCEPT ![l].pc = "lock", ![l].paths = session[t].paths,
                         ![l].codex = session[t].codex, ![l].isolated = session[t].isolated]
    <3>1. session[t] \in Session /\ t \in Tasks /\ Found(session[t].paths)
      BY <1>0, <1>7, <2>3 DEF LaunchLoad, ToolsInv
    <3>2. LI(new)
      BY <1>0, <3>1 DEF Launch, Session
    <3>3. launch' = [launch EXCEPT ![l] = new]
      BY <2>3
    <3> HIDE DEF new, LI
    <3>4. QED
      BY <1>1, <1>7, <3>2, <3>3 DEF LaunchLoad
  <2>4. QED
    BY <1>7, <2>1, <2>2, <2>3 DEF LaunchLoad
<1>8. CASE LaunchLock(l)
  <2>1. CASE Quit(l)
    BY <1>3, <1>8, <2>1 DEF LaunchLock
  <2>2. CASE launch[l].mode = "start" /\ Goto(l, "task")
    BY <1>0, <1>4, <1>8, <2>2 DEF LaunchLock, Goto, Launch
  <2>3. CASE launch[l].mode = "resume" /\ Goto(l, "shim")
    <3>1. Found(launch[l].paths)
      BY <1>8, <2>3 DEF LaunchLock, ToolsInv
    <3>2. LI([launch[l] EXCEPT !.pc = "shim"])
      BY <1>0, <3>1 DEF Launch
    <3>3. QED
      BY <1>1, <1>8, <2>3, <3>2 DEF LaunchLock, Goto
  <2>4. launch[l].mode \in {"start", "resume"}
    BY <1>0 DEF Launch
  <2>5. QED
    BY <1>8, <2>1, <2>2, <2>3, <2>4 DEF LaunchLock
<1>9. CASE PlanTask(l)
  BY <1>0, <1>3, <1>4, <1>9 DEF PlanTask, Launch
<1>10. CASE PlanLinks(l)
  BY <1>0, <1>4, <1>10 DEF PlanLinks, Launch
<1>11. CASE PlanDependency(l)
  <2> DEFINE d == IF SOURCE \in launch[l].todo THEN SOURCE ELSE CHOOSE x \in launch[l].todo : TRUE
             found == StatusOf(dependency_check(d, launch[l].links)) = "failed"
             pc == IF launch[l].todo = {d} THEN "sections" ELSE "heads"
             new == [launch[l] EXCEPT !.todo = @ \ {d}, !.blocked = @ \/ found, !.pc = pc]
  <2>1. launch' = [launch EXCEPT ![l] = new]
    BY <1>11 DEF PlanDependency
  <2>2. new.pc \in {"heads", "sections"}
    <3> HIDE DEF d, found
    <3> QED
      BY <1>0 DEF Launch
  <2> HIDE DEF new
  <2>3. QED
    BY <1>4, <1>11, <2>1, <2>2 DEF PlanDependency
<1>12. CASE PlanSections(l) \/ PlanAgents(l) \/ PlanSource(l)
  BY <1>0, <1>4, <1>12 DEF PlanSections, PlanAgents, PlanSource, Reading, Launch
<1>13. CASE PlanResolve(l)
  BY <1>0, <1>3, <1>4, <1>13 DEF PlanResolve, Launch
<1>14. CASE LaunchPaths(l)
  <2> DEFINE new == [launch[l] EXCEPT !.pc = "shim", !.paths = Resolved,
                                      !.isolated = launch[l].loaded.isolated]
  <2>1. CASE Quit(l)
    BY <1>3, <1>14, <2>1 DEF LaunchPaths
  <2>2. CASE ~Quit(l)
    <3>1. PathProblems(launch[l].loaded.isolated) = {} /\ launch' = [launch EXCEPT ![l] = new]
      BY <1>14, <2>2 DEF LaunchPaths
    <3>2. Resolved \in Paths /\ \A n \in Names : Resolved[n] # None
      BY <3>1, ResolvedTyped DEF PathProblems, Typed, TypeOK
    <3>3. Found(Resolved)
      BY <3>2 DEF Found, Paths, Names, SHIM_NAMES
    <3>4. LI(new)
      BY <1>0, <3>3 DEF Launch
    <3> HIDE DEF new, LI
    <3>5. QED
      BY <1>1, <1>14, <3>1, <3>4 DEF LaunchPaths
  <2>3. QED
    BY <2>1, <2>2
<1>15. CASE LaunchShim(l)
  <2> DEFINE shim == build_shim(launch[l].paths, launch[l].isolated)
             new == [launch[l] EXCEPT !.pc = "spawn", !.shim = shim]
  <2>1. CASE Quit(l)
    BY <1>3, <1>15, <2>1 DEF LaunchShim
  <2>2. CASE ~Quit(l)
    <3>1. launch' = [launch EXCEPT ![l] = new] /\ Found(launch[l].paths)
      BY <1>15, <2>2 DEF LaunchShim, ToolsInv
    <3>2. LI(new)
      BY <1>0, <3>1 DEF Launch
    <3> HIDE DEF new, LI
    <3>5. QED
      BY <1>1, <1>15, <3>1, <3>2 DEF LaunchShim
  <2>3. QED
    BY <2>1, <2>2
<1>16. CASE LaunchSpawn(l)
  <2> DEFINE t == launch[l].id
             w == [shim |-> launch[l].shim, codex |-> launch[l].codex]
             s == [paths |-> launch[l].paths, codex |-> launch[l].codex, isolated |-> launch[l].isolated]
  <2>1. /\ Found(launch[l].paths) /\ launch[l].shim = build_shim(launch[l].paths, launch[l].isolated)
        /\ t \in Tasks /\ writer' = [writer EXCEPT ![t] = w] /\ session' = [session EXCEPT ![t] = s]
        /\ launch' = [launch EXCEPT ![l] = IdleLaunch]
    BY <1>0, <1>16 DEF LaunchSpawn, ToolsInv, Quit
  <2>2. \A u \in Tasks : /\ session'[u] # None => Found(session'[u].paths)
                         /\ writer'[u] # None =>
                              /\ Found(session'[u].paths)
                              /\ writer'[u].shim = build_shim(session'[u].paths, session'[u].isolated)
                              /\ writer'[u].codex = session'[u].codex
    <3> TAKE u \in Tasks
    <3>1. CASE u = t
      <4>1. session'[u] = s /\ writer'[u] = w
        BY <1>0, <2>1, <3>1
      <4>2. QED
        BY <2>1, <4>1
    <3>2. CASE u # t
      BY <1>0, <2>1, <3>2 DEF ToolsInv
    <3>3. QED
      BY <3>1, <3>2
  <2>3. \A k \in Launchers : LI(launch'[k])
    BY <1>0, <1>2, <2>1 DEF ToolsInv
  <2>4. QED
    BY <2>2, <2>3 DEF ToolsInv, Found, build_shim
<1>17. CASE LaunchDies(l)
  BY <1>3, <1>17 DEF LaunchDies
<1>18. QED
  BY <1>5, <1>6, <1>7, <1>8, <1>9, <1>10, <1>11, <1>12, <1>13, <1>14, <1>15, <1>16, <1>17
     DEF LaunchStep

-----------------------------------------------------------------------------
(* The facts of a start *)

\* What a start that has found no reason so far has not read yet.
Pending(x) ==
  LET tasks == {<<"task", f>> : f \in {"status", "workload", "optimization"}}
      files == {<<"file", f>> : f \in ToolFiles}
      commands == {<<"command", n>> : n \in Names}
  IN CASE x.pc = "task" -> Conditions
       [] x.pc = "links" -> Conditions \ (tasks \cup {<<"workspace", "">>})
       [] x.pc = "heads" -> {<<"head", d>> : d \in x.todo}
                            \cup {<<"link", d>> : d \in {e \in x.todo : Differ(Pins[e], x.links[e])}}
                            \cup {<<"base", "">>} \cup files \cup commands
       [] x.pc = "sections" -> {<<"base", "">>} \cup files \cup commands
       [] x.pc = "agents" -> {<<"base", "">>, <<"file", "codex_home">>} \cup commands
       [] x.pc = "source" -> {<<"base", "">>, <<"file", "codex_home">>}
       [] x.pc = "resolve" -> {<<"file", "codex_home">>}
       [] OTHER -> {}

\* Where a start gathers reasons not to run, and where it has found none.
Planning == {"task", "links", "heads", "sections", "agents", "source", "resolve"}
Passed == {"paths", "shim", "spawn"}

\* A start that nothing blocks has read all but what is pending.
Reads(x, u) == x.mode = "start" /\ (x.pc \in Passed \/ (x.pc \in Planning /\ ~x.blocked))
                 => u \subseteq Pending(x)

\* Hence nothing is unmet when it spawns.
ReadyInv == \A l \in Launchers : Reads(launch[l], unmet[l])

\* What each gate lets pass holds as the gate reads it: the task's status, workload
\* and verdict,
LEMMA TaskGate ==
  ASSUME NEW t \in Tasks, NEW i, ~Blocked(t), package[t] # None, package[t].task # None
  PROVE  \A f \in {"status", "workload", "optimization"} : Holds(<<"task", f>>, t, i)
  BY DEF Blocked, Holds

\* the prepared workspace,
LEMMA WorkspaceGate ==
  ASSUME NEW t, NEW i, machine.workspace
  PROVE  Holds(<<"workspace", "">>, t, i)
  BY DEF Holds

\* a gitlink that is what is pinned,
LEMMA LinkGate ==
  ASSUME NEW d \in Submodules, NEW t, NEW i, ~Holds(<<"link", d>>, t, i)
  PROVE  Differ(Pins[d], machine.link[d])
  BY DEF Holds, Differ

\* a checkout that is what is pinned,
LEMMA HeadGate ==
  ASSUME NEW d \in Submodules, NEW links, NEW t, NEW i,
         StatusOf(dependency_check(d, links)) # "failed"
  PROVE  Holds(<<"head", d>>, t, i) /\ ~Differ(Pins[d], links[d])
<1>1. dependency_check(d, links) = {}
  <2>1. \A c \in dependency_check(d, links) : c.severity = "error"
    BY DEF dependency_check, Verdict, Check
  <2>2. QED
    BY <2>1 DEF StatusOf
<1>2. machine.head[d] # None
  BY <1>1 DEF dependency_check
<1>3. ~Differ(Pins[d], machine.head[d]) /\ ~Differ(Pins[d], links[d])
  BY <1>1, <1>2 DEF dependency_check, Verdict
<1>4. QED
  BY <1>2, <1>3 DEF Holds, Differ

\* the files a section asks for,
LEMMA FilesFound ==
  ASSUME NEW names, NEW rest, StatusOf(rest) # "failed", Files(names) \subseteq rest
  PROVE  names \subseteq machine.files
<1> SUFFICES ASSUME NEW f \in names, f \notin machine.files PROVE FALSE
  OBVIOUS
<1>1. Check(f, "missing", "error") \in Files(names)
  BY DEF Files, Verdict
<1>2. QED
  BY <1>1 DEF StatusOf, Check

\* those of all sections,
LEMMA SectionGate ==
  ASSUME StatusOf(Sections) # "failed", NEW f \in ToolFiles \ {"codex_home"}, NEW t, NEW i
  PROVE  Holds(<<"file", f>>, t, i)
<1>0. \A c \in Sections : c.severity # "error"
  BY DEF StatusOf
<1>1. SkillFiles \subseteq machine.files
  BY FilesFound DEF Sections, skill_check
<1>2. KdaFiles \subseteq machine.files
  BY FilesFound DEF Sections, kda_section
<1>3. "manifest" \in machine.files
  <2>1. "manifest" \notin machine.files => Check("manifest", "missing", "error") \in Sections
    BY DEF Sections, humanize_section
  <2>2. QED
    BY <1>0, <2>1 DEF Check
<1>4. HumanizeFiles \subseteq machine.files
  BY <1>3, FilesFound DEF Sections, humanize_section
<1>5. RuntimeFiles \subseteq machine.files
  <2>1. ~(RuntimeFiles \subseteq machine.files)
          => Check("humanize2-runtime", "missing", "error") \in Sections
    BY DEF Sections, humanize2_section
  <2>2. QED
    BY <1>0, <2>1 DEF Check
<1>6. {"flow"} \subseteq machine.files
  <2>1. Files({"flow"}) \subseteq Sections
    BY <1>5 DEF Sections, humanize2_section
  <2>2. QED
    BY <2>1, FilesFound
<1>7. QED
  BY <1>1, <1>2, <1>3, <1>4, <1>5, <1>6 DEF ToolFiles, Holds

\* the commands,
LEMMA AgentGate ==
  ASSUME AgentChecks = {}, NEW n \in Names, NEW t, NEW i
  PROVE  Holds(<<"command", n>>, t, i)
<1>1. bash_check = {} /\ \A c \in {"jq", "writer", "codex"} : command_check(c) = {}
  BY DEF AgentChecks
<1>2. \A c \in {"jq", "writer", "codex"} : machine.path[c] # None
  BY <1>1 DEF command_check, Verdict
<1>3. machine.path["bash"] # None /\ machine.path["bash"] \notin OldBash
  BY <1>1 DEF bash_check, Verdict
<1>4. QED
  BY <1>2, <1>3 DEF Holds, Names

\* the task's base in the source,
LEMMA SourceGate ==
  ASSUME NEW t \in Tasks, NEW i, source_availability(t) = {}
  PROVE  Holds(<<"base", "">>, t, i)
<1>1. machine.head[SOURCE] # None
  BY DEF source_availability
<1>2. package[t] # None /\ package[t].task # None
  BY <1>1 DEF source_availability
<1>3. Available(package[t].task.base)
  BY <1>1, <1>2 DEF source_availability, Verdict
<1>4. QED
  BY <1>2, <1>3 DEF Holds, Available

\* and the home of an isolated reviewer.
LEMMA PathGate ==
  ASSUME NEW t, NEW i, PathProblems(i) = {}
  PROVE  Holds(<<"file", "codex_home">>, t, i)
  BY DEF PathProblems, Holds

\* What is still unmet after a step of another command, or of nobody.
LEMMA UnmetShrinks ==
  ASSUME Typed, Observe, NEW l \in Launchers, launch'[l] = launch[l]
  PROVE  /\ unmet'[l] \subseteq unmet[l] \/ launch[l].pc = "lock"
         /\ launch[l].pc = "lock" => unmet'[l] = {}
  BY DEF Typed, TypeOK, LaunchTypeOK, Observe

\* And after a step of its own, in which nothing else changes: what holds is met.
LEMMA UnmetNow ==
  ASSUME Typed, Observe, NEW l \in Launchers, UNCHANGED <<package, machine>>,
         launch'[l].id = launch[l].id, launch'[l].loaded = launch[l].loaded
  PROVE  /\ launch[l].pc # "lock" => unmet'[l] \subseteq unmet[l]
         /\ unmet'[l] \subseteq Conditions
         /\ \A c \in unmet'[l] : ~Holds(c, launch[l].id, launch[l].loaded.isolated)
<1>1. ASSUME NEW c
      PROVE  Holds(c, launch[l].id, launch[l].loaded.isolated)' <=>
               Holds(c, launch[l].id, launch[l].loaded.isolated)
  BY DEF Holds
<1>2. QED
  BY <1>1 DEF Typed, TypeOK, LaunchTypeOK, Observe

\* A step that is not the start's own takes nothing away from it.
LEMMA ReadyFrame ==
  ASSUME Typed, Observe, NEW l \in Launchers, launch'[l] = launch[l], Reads(launch[l], unmet[l])
  PROVE  Reads(launch[l], unmet[l])'
<1>1. CASE launch[l].pc = "lock"
  BY <1>1 DEF Reads, Planning, Passed
<1>2. CASE launch[l].pc # "lock"
  <2>1. unmet'[l] \subseteq unmet[l]
    BY <1>2, UnmetShrinks
  <2>2. QED
    BY <2>1 DEF Reads, Pending
<1>3. QED
  BY <1>1, <1>2

\* A step of its own: what it reads it finds true, or it is blocked.
LEMMA ReadyStep ==
  ASSUME Typed, ReadyInv, Observe, NEW l \in Launchers, LaunchStep(l), UNCHANGED <<package, machine>>
  PROVE  Reads(launch[l], unmet[l])'
<1> DEFINE x == launch[l]
           t == launch[l].id
           i == launch[l].loaded.isolated
<1>0. /\ launch \in [Launchers -> Launch] /\ x \in Launch /\ Reads(x, unmet[l])
      /\ x.pc # "idle" => t \in Tasks
  BY DEF Typed, TypeOK, LaunchTypeOK, ReadyInv, LaunchKnows
<1>1. ASSUME launch'[l].pc \notin Planning \cup Passed PROVE Reads(launch[l], unmet[l])'
  BY <1>1 DEF Reads
<1>2. ASSUME Quit(l) PROVE Reads(launch[l], unmet[l])'
  BY <1>0, <1>1, <1>2 DEF Quit, IdleLaunch, Planning, Passed
<1>3. CASE LaunchIssue(l) \/ LaunchValidate(l) \/ LaunchLoad(l)
  <2>1. launch'[l].pc \in {"idle", "validate", "load", "lock"}
    <3>1. CASE LaunchIssue(l)
      <4>1. PICK u \in Tasks, mode \in {"start", "resume"} :
              launch' = [launch EXCEPT ![l] = [IdleLaunch EXCEPT !.pc = "validate", !.mode = mode,
                                                                 !.id = u, !.loaded = config]]
        BY <3>1 DEF LaunchIssue
      <4>2. QED
        BY <1>0, <4>1 DEF IdleLaunch
    <3>2. CASE LaunchValidate(l)
      BY <1>0, <3>2 DEF LaunchValidate, Goto, Quit, IdleLaunch, Launch
    <3>3. CASE LaunchLoad(l)
      BY <1>0, <3>3 DEF LaunchLoad, Goto, Quit, IdleLaunch, Launch
    <3>4. QED
      BY <1>3, <3>1, <3>2, <3>3
  <2>2. QED
    BY <1>1, <2>1 DEF Planning, Passed
<1>4. CASE LaunchLock(l)
  <2>1. CASE Quit(l)
    BY <1>2, <2>1
  <2>2. CASE Goto(l, "task") /\ x.mode = "start"
    <3>1. launch'[l].pc = "task"
      BY <1>0, <2>2 DEF Goto, Launch
    <3>2. unmet'[l] \subseteq Conditions
      BY <1>0, <2>2, UnmetNow DEF Goto, Launch
    <3>3. QED
      BY <3>1, <3>2 DEF Reads, Pending, Planning, Passed
  <2>3. CASE Goto(l, "shim") /\ x.mode # "start"
    BY <1>0, <2>3 DEF Goto, Launch, Reads
  <2>4. QED
    BY <1>4, <2>1, <2>2, <2>3 DEF LaunchLock
\* A step that reads: what it leaves unmet.
<1>5. ASSUME x.pc # "lock", launch'[l].id = t, launch'[l].loaded = x.loaded
      PROVE  unmet'[l] \subseteq unmet[l] /\ \A c \in unmet'[l] : ~Holds(c, t, i)
  BY <1>5, UnmetNow
<1>6. CASE PlanTask(l)
  <2>1. CASE Quit(l)
    BY <1>2, <2>1
  <2>2. CASE ~Quit(l)
    <3>1. /\ launch'[l].pc = "links" /\ launch'[l].id = t /\ launch'[l].loaded = x.loaded
          /\ launch'[l].blocked = (Blocked(t) \/ ~machine.workspace)
          /\ package[t] # None /\ package[t].task # None /\ x.pc = "task"
      BY <1>0, <1>6, <2>2 DEF PlanTask, Launch
    <3>2. ~launch'[l].blocked =>
            /\ \A f \in {"status", "workload", "optimization"} : Holds(<<"task", f>>, t, i)
            /\ Holds(<<"workspace", "">>, t, i)
      BY <1>0, <3>1, TaskGate, WorkspaceGate
    <3>3. unmet'[l] \subseteq Conditions /\ \A c \in unmet'[l] : ~Holds(c, t, i)
      BY <3>1, UnmetNow
    <3>4. QED
      BY <3>1, <3>2, <3>3 DEF Reads, Pending, Planning, Passed
  <2>3. QED
    BY <2>1, <2>2
<1>7. CASE PlanLinks(l)
  <2>1. /\ launch'[l].pc = "heads" /\ launch'[l].id = t /\ launch'[l].loaded = x.loaded
        /\ launch'[l].links = machine.link /\ launch'[l].todo = Submodules
        /\ launch'[l].blocked = x.blocked /\ launch'[l].mode = x.mode /\ x.pc = "links"
    BY <1>0, <1>7 DEF PlanLinks, Launch
  <2>2. unmet'[l] \subseteq unmet[l] /\ \A c \in unmet'[l] : ~Holds(c, t, i)
    BY <1>5, <2>1
  <2>3. SUFFICES ASSUME x.mode = "start", ~x.blocked PROVE unmet'[l] \subseteq Pending(launch'[l])
    BY <2>1 DEF Reads, Passed, Pending
  <2>4. unmet[l] \subseteq Conditions \ ({<<"task", f>> : f \in {"status", "workload", "optimization"}}
                                           \cup {<<"workspace", "">>})
    BY <1>0, <2>1, <2>3 DEF Reads, Pending, Planning
  <2>5. \A d \in Submodules : <<"link", d>> \in unmet'[l] => Differ(Pins[d], machine.link[d])
    BY <2>2, LinkGate
  <2>6. unmet'[l] \subseteq {<<"head", d>> : d \in Submodules} \cup {<<"link", d>> : d \in Submodules}
                            \cup {<<"base", "">>} \cup {<<"file", f>> : f \in ToolFiles}
                            \cup {<<"command", n>> : n \in Names}
    BY <2>2, <2>4 DEF Conditions
  <2>7. {<<"link", d>> : d \in Submodules} \cap unmet'[l]
          \subseteq {<<"link", d>> : d \in {e \in Submodules : Differ(Pins[e], machine.link[e])}}
    BY <2>5
  <2>8. unmet'[l] \subseteq {<<"head", d>> : d \in Submodules}
             \cup {<<"link", d>> : d \in {e \in Submodules : Differ(Pins[e], machine.link[e])}}
             \cup {<<"base", "">>} \cup {<<"file", f>> : f \in ToolFiles}
             \cup {<<"command", n>> : n \in Names}
    BY <2>6, <2>7
  <2>9. QED
    BY <2>1, <2>8 DEF Pending
<1>8. CASE PlanDependency(l)
  <2> DEFINE d == IF SOURCE \in x.todo THEN SOURCE ELSE CHOOSE y \in x.todo : TRUE
             found == StatusOf(dependency_check(d, x.links)) = "failed"
  <2>1. /\ launch'[l].todo = x.todo \ {d} /\ launch'[l].blocked = (x.blocked \/ found)
        /\ launch'[l].pc = IF x.todo = {d} THEN "sections" ELSE "heads"
        /\ launch'[l].id = t /\ launch'[l].loaded = x.loaded /\ launch'[l].mode = x.mode
        /\ launch'[l].links = x.links /\ x.pc = "heads"
    BY <1>0, <1>8 DEF PlanDependency, Launch
  <2>2. unmet'[l] \subseteq unmet[l] /\ \A c \in unmet'[l] : ~Holds(c, t, i)
    BY <1>5, <2>1
  <2>3. x.todo \in SUBSET Submodules /\ (x.todo # {} => d \in x.todo)
    BY <1>0 DEF Launch
  <2> HIDE DEF d
  <2>4. SUFFICES ASSUME x.mode = "start", ~x.blocked, ~found PROVE unmet'[l] \subseteq Pending(launch'[l])
    BY <2>1 DEF Reads, Passed, Pending
  <2>5. unmet[l] \subseteq {<<"head", e>> : e \in x.todo}
                            \cup {<<"link", e>> : e \in {f \in x.todo : Differ(Pins[f], x.links[f])}}
                            \cup {<<"base", "">>} \cup {<<"file", f>> : f \in ToolFiles}
                            \cup {<<"command", n>> : n \in Names}
    BY <1>0, <2>1, <2>4 DEF Reads, Pending, Planning
  <2>6. d \in x.todo => <<"head", d>> \notin unmet'[l] /\ ~Differ(Pins[d], x.links[d])
    BY <2>2, <2>3, <2>4, HeadGate
  <2>7. unmet'[l] \subseteq {<<"head", e>> : e \in x.todo \ {d}}
             \cup {<<"link", e>> : e \in {f \in x.todo \ {d} : Differ(Pins[f], x.links[f])}}
             \cup {<<"base", "">>} \cup {<<"file", f>> : f \in ToolFiles}
             \cup {<<"command", n>> : n \in Names}
    BY <2>2, <2>5, <2>6
  <2>8. CASE x.todo = {d}
    BY <2>1, <2>7, <2>8 DEF Pending
  <2>9. CASE x.todo # {d}
    BY <2>1, <2>7, <2>9 DEF Pending
  <2>10. QED
    BY <2>8, <2>9
<1>9. CASE PlanSections(l) \/ PlanAgents(l) \/ PlanSource(l)
  <2>1. /\ launch'[l].id = t /\ launch'[l].loaded = x.loaded /\ launch'[l].mode = x.mode
        /\ \/ /\ x.pc = "sections" /\ launch'[l].pc = "agents"
              /\ launch'[l].blocked = (x.blocked \/ StatusOf(Sections) = "failed")
           \/ /\ x.pc = "agents" /\ launch'[l].pc = "source"
              /\ launch'[l].blocked = (x.blocked \/ AgentChecks # {})
           \/ /\ x.pc = "source" /\ launch'[l].pc = "resolve"
              /\ launch'[l].blocked = (x.blocked \/ source_availability(t) # {})
    BY <1>0, <1>9 DEF PlanSections, PlanAgents, PlanSource, Reading, Launch
  <2>2. unmet'[l] \subseteq unmet[l] /\ \A c \in unmet'[l] : ~Holds(c, t, i)
    BY <1>5, <2>1
  <2>3. SUFFICES ASSUME x.mode = "start", ~launch'[l].blocked PROVE unmet'[l] \subseteq Pending(launch'[l])
    BY <2>1 DEF Reads, Passed, Pending
  <2>4. unmet[l] \subseteq Pending(x)
    BY <1>0, <2>1, <2>3 DEF Reads, Planning
  <2>5. CASE x.pc = "sections"
    <3>1. \A f \in ToolFiles \ {"codex_home"} : <<"file", f>> \notin unmet'[l]
      BY <2>1, <2>2, <2>3, <2>5, SectionGate
    <3>2. QED
      BY <2>1, <2>2, <2>4, <2>5, <3>1 DEF Pending
  <2>6. CASE x.pc = "agents"
    <3>1. \A n \in Names : <<"command", n>> \notin unmet'[l]
      BY <2>1, <2>2, <2>3, <2>6, AgentGate
    <3>2. QED
      BY <2>1, <2>2, <2>4, <2>6, <3>1 DEF Pending
  <2>7. CASE x.pc = "source"
    <3>1. <<"base", "">> \notin unmet'[l]
      BY <1>0, <2>1, <2>2, <2>3, <2>7, SourceGate
    <3>2. QED
      BY <2>1, <2>2, <2>4, <2>7, <3>1 DEF Pending
  <2>8. QED
    BY <2>1, <2>5, <2>6, <2>7
<1>10. CASE PlanResolve(l)
  <2>1. CASE Quit(l)
    BY <1>2, <2>1
  <2>2. CASE ~Quit(l)
    <3>1. /\ launch'[l].pc = "paths" /\ launch'[l].id = t /\ launch'[l].loaded = x.loaded
          /\ launch'[l].mode = x.mode /\ ~x.blocked /\ PathProblems(i) = {} /\ x.pc = "resolve"
      BY <1>0, <1>10, <2>2 DEF PlanResolve, Launch
    <3>2. unmet'[l] \subseteq unmet[l] /\ \A c \in unmet'[l] : ~Holds(c, t, i)
      BY <1>5, <3>1
    <3>3. x.mode = "start" => unmet[l] \subseteq {<<"file", "codex_home">>}
      BY <1>0, <3>1 DEF Reads, Pending, Planning
    <3>4. <<"file", "codex_home">> \notin unmet'[l]
      BY <3>1, <3>2, PathGate
    <3>5. x.mode = "start" => unmet'[l] = {}
      BY <3>2, <3>3, <3>4
    <3>6. QED
      BY <3>1, <3>5 DEF Reads
  <2>3. QED
    BY <2>1, <2>2
<1>11. CASE LaunchPaths(l) \/ LaunchShim(l)
  <2>1. CASE Quit(l)
    BY <1>2, <2>1
  <2>2. CASE ~Quit(l)
    <3>1. /\ launch'[l].pc \in Passed /\ launch'[l].id = t /\ launch'[l].loaded = x.loaded
          /\ launch'[l].mode = x.mode /\ x.pc \in Passed /\ x.pc # "lock"
      BY <1>0, <1>11, <2>2 DEF LaunchPaths, LaunchShim, Launch, Passed
    <3>2. unmet'[l] \subseteq unmet[l]
      BY <1>5, <3>1
    <3>3. x.mode = "start" => unmet[l] = {}
      BY <1>0, <3>1 DEF Reads, Pending, Passed
    <3>4. QED
      BY <3>1, <3>2, <3>3 DEF Reads
  <2>3. QED
    BY <2>1, <2>2
<1>12. CASE LaunchSpawn(l) \/ LaunchDies(l)
  BY <1>2, <1>12 DEF LaunchSpawn, LaunchDies
<1>13. QED
  BY <1>3, <1>4, <1>6, <1>7, <1>8, <1>9, <1>10, <1>11, <1>12 DEF LaunchStep

-----------------------------------------------------------------------------
(* The bundles *)

\* Where an export has no directory yet.
Outside == {"idle", "load", "mkdir"}

\* What a command says and what lies in its directory d, the index being n.
Agrees(x, d, n) ==
  /\ d.manifest = None
  /\ x.patch.copied = (d.patch # None)
  /\ x.pc # "package" => d.task = x.copied
  /\ x.pc \in {"diff", "after"} => x.index \in Nat /\ x.index <= n
  /\ x.pc = "after" => x.diff.base \in Nat /\ x.index <= x.diff.base /\ x.diff.base <= n
  /\ x.pc \in {"inventory", "manifest"} => x.diff.base = x.index
  /\ x.pc \in {"after", "inventory", "manifest"} => d.diff = x.diff

\* What an export knows of the directory it writes.
Writes(x, d, n) ==
  /\ x.pc \in {"load", "mkdir", "package", "patch", "copy"} => ~x.patch.copied
  /\ x.pc \notin Outside => Agrees(x, d, n)

\* No two exports write into one directory.
Alone == \A e, f \in Exporters :
  export[e].pc \notin Outside /\ export[f].pc \notin Outside /\ export[e].label = export[f].label
    => e = f

\* Why manifests are honest: a directory has one writer, and that one says what lies
\* there.
BundleInv ==
  /\ \A e \in Exporters : Writes(export[e], bundle[export[e].label], repo.index)
  /\ Alone
  /\ BundleIsHonest

\* BundleIsHonest, of one directory.
Honest(d) == d # None /\ d.manifest # None =>
  /\ d.manifest.task = d.task
  /\ d.manifest.patch.copied = (d.patch # None)
  /\ d.manifest.diff = d.diff
  /\ d.manifest.diff.base = d.manifest.index

\* A command that writes only into its own directory leaves the others' alone.
LEMMA BundleKept ==
  ASSUME Typed, BundleInv, NEW e \in Exporters, NEW new,
         export' = [export EXCEPT ![e] = new], UNCHANGED repo,
         Writes(new, bundle'[new.label], repo.index),
         new.pc \notin Outside =>
           new.label = export[e].label
           /\ (export[e].pc \notin Outside \/ bundle[export[e].label] = None),
         \A b \in Labels : b # export[e].label => bundle'[b] = bundle[b],
         \/ bundle' = bundle
         \/ export[e].label \in Labels /\ Honest(bundle'[export[e].label])
            /\ (export[e].pc \notin Outside \/ bundle[export[e].label] = None)
  PROVE  BundleInv'
<1>0. /\ export \in [Exporters -> ExportCommand] /\ bundle \in [Labels -> Bundled \cup {None}]
      /\ ExportKnows
  BY DEF Typed, TypeOK, ExportTypeOK
<1>1. export'[e] = new /\ \A f \in Exporters : f # e => export'[f] = export[f]
  BY <1>0
<1>2. Alone'
  <2> SUFFICES ASSUME NEW f \in Exporters, NEW g \in Exporters, f # g,
                      export'[f].pc \notin Outside, export'[g].pc \notin Outside,
                      export'[f].label = export'[g].label
               PROVE  FALSE
    BY DEF Alone
  <2>1. CASE f # e /\ g # e
    BY <1>1, <2>1 DEF BundleInv, Alone
  <2>2. ASSUME NEW h \in Exporters, h # e, export[h].pc \notin Outside, new.pc \notin Outside,
               export[h].label = new.label
        PROVE  FALSE
    BY <1>0, <2>2 DEF BundleInv, Alone, ExportKnows, Outside
  <2>3. QED
    BY <1>1, <2>1, <2>2
<1>3. ASSUME NEW f \in Exporters, f # e
      PROVE  Writes(export'[f], bundle'[export'[f].label], repo.index)
  <2>1. Writes(export[f], bundle[export[f].label], repo.index) /\ export'[f] = export[f]
    BY <1>1, <1>3 DEF BundleInv
  <2>2. CASE export[f].pc \in Outside
    BY <2>1, <2>2 DEF Writes
  <2>3. CASE export[f].pc \notin Outside
    <3>1. export[f].label \in Labels /\ bundle[export[f].label] # None
      BY <1>0, <2>3 DEF ExportKnows, Outside
    <3>2. CASE export[f].label = export[e].label
      <4>1. export[e].pc \in Outside /\ bundle[export[e].label] # None
        BY <1>3, <2>3, <3>1, <3>2 DEF BundleInv, Alone
      <4>2. QED
        BY <2>1, <4>1
    <3>3. CASE export[f].label # export[e].label
      BY <2>1, <3>1, <3>3
    <3>4. QED
      BY <3>2, <3>3
  <2>4. QED
    BY <2>2, <2>3
<1>4. \A f \in Exporters : Writes(export[f], bundle[export[f].label], repo.index)'
  <2>1. \A f \in Exporters : Writes(export'[f], bundle'[export'[f].label], repo.index)
    BY <1>1, <1>3
  <2>2. QED
    BY <2>1 DEF Writes, Agrees
<1>5. BundleIsHonest'
  <2>1. \A b \in Labels : Honest(bundle[b])
    BY DEF BundleInv, BundleIsHonest, Honest
  <2>2. \A b \in Labels : Honest(bundle'[b])
    BY <2>1
  <2>3. QED
    BY <2>2 DEF BundleIsHonest, Honest
<1>6. QED
  BY <1>2, <1>4, <1>5 DEF BundleInv

\* Every step of an export keeps that.
LEMMA BundleStep ==
  ASSUME Typed, BundleInv, NEW e \in Exporters, ExportStep(e)
  PROVE  BundleInv'
<1> DEFINE x == export[e]
           L == export[e].label
           d == bundle[L]
<1>0. /\ export \in [Exporters -> ExportCommand] /\ bundle \in [Labels -> Bundled \cup {None}]
      /\ repo \in [index: Nat, files: Tree] /\ x \in ExportCommand
      /\ x.pc # "idle" => L \in Labels
      /\ x.pc \notin Outside => d \in Bundled /\ d # None /\ Agrees(x, d, repo.index)
      /\ Writes(x, d, repo.index)
  <2>1. Writes(x, d, repo.index)
    BY DEF BundleInv
  <2>2. QED
    BY <2>1 DEF Typed, TypeOK, ExportTypeOK, ExportKnows, Writes, Outside
\* A step that ends the command or writes nothing.
<1>1. ASSUME ExportQuit(e), UNCHANGED <<repo, bundle>> PROVE BundleInv'
  <2>1. Writes(IdleExport, bundle'[IdleExport.label], repo.index) /\ IdleExport.pc \in Outside
    BY DEF Writes, IdleExport, NoPatch, Outside
  <2>2. QED
    BY <1>1, <2>1, BundleKept DEF ExportQuit
<1>2. ASSUME NEW new, Writes(new, d, repo.index), new.label = L, x.pc \notin Outside,
             export' = [export EXCEPT ![e] = new], UNCHANGED <<repo, bundle>>
      PROVE  BundleInv'
  BY <1>2, BundleKept
\* A step that writes into the directory.
<1>3. ASSUME NEW new, NEW dir, Writes(new, dir, repo.index), Honest(dir), new.label = L,
             x.pc \notin Outside,
             export' = [export EXCEPT ![e] = new], bundle' = [bundle EXCEPT ![L] = dir], UNCHANGED repo
      PROVE  BundleInv'
  <2>1. bundle'[L] = dir /\ L \in Labels /\ \A b \in Labels : b # L => bundle'[b] = bundle[b]
    BY <1>0, <1>3 DEF Outside
  <2>2. QED
    BY <1>3, <2>1, BundleKept
<1>4. CASE ExportIssue(e)
  <2>1. PICK t \in Tasks, b \in Labels :
       export' = [export EXCEPT ![e] = [IdleExport EXCEPT !.pc = "load", !.id = t, !.label = b]]
    BY <1>4 DEF ExportIssue
  <2> DEFINE new == [IdleExport EXCEPT !.pc = "load", !.id = t, !.label = b]
  <2>2. Writes(new, bundle'[new.label], repo.index) /\ new.pc \in Outside
    BY DEF Writes, IdleExport, NoPatch, Outside
  <2>3. export' = [export EXCEPT ![e] = new]
    BY <2>1
  <2> HIDE DEF new
  <2>4. QED
    BY <1>4, <2>2, <2>3, BundleKept DEF ExportIssue
<1>5. CASE ExportLoad(e)
  <2> DEFINE new == [x EXCEPT !.pc = "mkdir", !.task = package[x.id].task]
  <2>1. CASE ExportQuit(e)
    BY <1>1, <1>5, <2>1 DEF ExportLoad
  <2>2. CASE export' = [export EXCEPT ![e] = new]
    <3>1. Writes(new, bundle'[new.label], repo.index) /\ new.pc \in Outside
      BY <1>0, <1>5 DEF ExportLoad, Writes, Outside, ExportCommand
    <3> HIDE DEF new
    <3>2. QED
      BY <1>5, <2>2, <3>1, BundleKept DEF ExportLoad
  <2>3. QED
    BY <1>5, <2>1, <2>2 DEF ExportLoad
<1>6. CASE ExportReserve(e)
  <2> DEFINE new == [x EXCEPT !.pc = "package"]
  <2>1. CASE ExportQuit(e) /\ UNCHANGED bundle
    BY <1>1, <1>6, <2>1 DEF ExportReserve
  <2>2. CASE ~(ExportQuit(e) /\ UNCHANGED bundle)
    <3>1. /\ bundle[L] = None /\ bundle' = [bundle EXCEPT ![L] = EmptyBundle]
          /\ export' = [export EXCEPT ![e] = new] /\ L \in Labels /\ UNCHANGED repo
      BY <1>0, <1>6, <2>2 DEF ExportReserve, ExportGoto, Bundle
    <3>2. new.label = L /\ bundle'[L] = EmptyBundle
          /\ \A b \in Labels : b # L => bundle'[b] = bundle[b]
      BY <1>0, <3>1 DEF ExportCommand
    <3>3. Writes(new, EmptyBundle, repo.index) /\ Honest(EmptyBundle)
      BY <1>0, <1>6 DEF ExportReserve, Writes, Agrees, EmptyBundle, Honest, ExportCommand,
             PatchEntry, Outside
    <3> HIDE DEF new
    <3>4. QED
      BY <3>1, <3>2, <3>3, BundleKept
  <2>3. QED
    BY <2>1, <2>2
<1>7. CASE ExportPackage(e)
  <2> DEFINE p == package[x.id]
             dir == [d EXCEPT !.task = p.task]
             more == {f \in {"workload"} : f \notin p.files}
             new == [x EXCEPT !.pc = "patch", !.copied = p.task, !.missing = @ \cup more]
  <2>1. CASE ExportQuit(e) /\ UNCHANGED bundle
    BY <1>1, <1>7, <2>1 DEF ExportPackage
  <2>2. CASE ~(ExportQuit(e) /\ UNCHANGED bundle)
    <3>1. bundle' = [bundle EXCEPT ![L] = dir] /\ export' = [export EXCEPT ![e] = new]
          /\ UNCHANGED repo /\ x.pc = "package"
      BY <1>7, <2>2 DEF ExportPackage
    <3>2. Writes(new, dir, repo.index) /\ Honest(dir) /\ new.label = L
      <4> HIDE DEF more
      <4> QED
        BY <1>0, <3>1 DEF Writes, Agrees, Honest, Outside, ExportCommand, Bundled
    <3> HIDE DEF dir, new
    <3>3. QED
      BY <1>3, <3>1, <3>2 DEF Outside
  <2>3. QED
    BY <2>1, <2>2
<1>8. CASE ExportPatch(e)
  <2>1. PICK pc \in {"reports", "copy"}, missing \in SUBSET Missable, entry \in PatchEntry :
          /\ export' = [export EXCEPT ![e] = [x EXCEPT !.pc = pc, !.missing = missing, !.patch = entry]]
          /\ ~entry.copied
    <3> DEFINE held == HeldPatch(x.id)
               hashed == [copied |-> FALSE, sha |-> held, recorded |-> x.task.patch]
               entry == IF held = None THEN NoPatch ELSE hashed
    <3>1. x.pc = "patch" /\ ~x.patch.copied /\ x.patch \in PatchEntry /\ x.missing \in SUBSET Missable
          /\ x.missing \cup {"patch"} \in SUBSET Missable
      BY <1>0, <1>8 DEF ExportPatch, Writes, ExportCommand, Missable, Needed
    <3>2. held \in Patches \cup {None} /\ x.task.patch \in Patches \cup {None}
      BY <3>1 DEF HeldPatch, Typed, TypeOK, PackageTypeOK, Package, ExportKnows, Task
    <3>3. hashed \in PatchEntry /\ ~hashed.copied /\ entry \in PatchEntry /\ ~entry.copied
      BY <3>2 DEF PatchEntry, NoPatch
    <3>4. \/ ExportGoto(e, "reports")
          \/ export' = [export EXCEPT ![e].pc = "copy", ![e].patch = hashed]
          \/ export' = [export EXCEPT ![e].pc = "reports", ![e].missing = @ \cup {"patch"},
                                      ![e].patch = entry]
      BY <1>8 DEF ExportPatch
    <3> HIDE DEF hashed, entry
    <3>5. CASE ExportGoto(e, "reports")
      <4>1. export' = [export EXCEPT ![e] = [x EXCEPT !.pc = "reports", !.missing = x.missing,
                                                      !.patch = x.patch]]
        BY <1>0, <3>5 DEF ExportGoto, ExportCommand
      <4>2. QED
        BY <3>1, <4>1
    <3>6. CASE export' = [export EXCEPT ![e].pc = "copy", ![e].patch = hashed]
      <4>1. export' = [export EXCEPT ![e] = [x EXCEPT !.pc = "copy", !.missing = x.missing,
                                                      !.patch = hashed]]
        BY <1>0, <3>6 DEF ExportCommand
      <4>2. QED
        BY <3>1, <3>3, <4>1
    <3>7. CASE export' = [export EXCEPT ![e].pc = "reports", ![e].missing = @ \cup {"patch"},
                                        ![e].patch = entry]
      <4>1. export' = [export EXCEPT ![e] = [x EXCEPT !.pc = "reports",
                                               !.missing = x.missing \cup {"patch"}, !.patch = entry]]
        BY <1>0, <3>7 DEF ExportCommand
      <4>2. QED
        BY <3>1, <3>3, <4>1
    <3>8. QED
      BY <3>4, <3>5, <3>6, <3>7
  <2> DEFINE new == [x EXCEPT !.pc = pc, !.missing = missing, !.patch = entry]
  <2>2. Writes(new, d, repo.index) /\ new.label = L /\ x.pc \notin Outside
    BY <1>0, <1>8, <2>1 DEF ExportPatch, Writes, Agrees, Outside, ExportCommand, PatchEntry
  <2>3. export' = [export EXCEPT ![e] = new]
    BY <2>1
  <2> HIDE DEF new
  <2>4. QED
    BY <1>2, <1>8, <2>2, <2>3 DEF ExportPatch
<1>9. CASE ExportCopyPatch(e)
  <2> DEFINE now == HeldPatch(x.id)
             dir == [d EXCEPT !.patch = now]
             new == [x EXCEPT !.pc = "reports", !.patch.copied = TRUE]
  <2>1. CASE ExportQuit(e) /\ UNCHANGED bundle
    BY <1>1, <1>9, <2>1 DEF ExportCopyPatch
  <2>2. CASE ~(ExportQuit(e) /\ UNCHANGED bundle)
    <3>1. bundle' = [bundle EXCEPT ![L] = dir] /\ export' = [export EXCEPT ![e] = new]
          /\ UNCHANGED repo /\ x.pc = "copy" /\ now # None
      BY <1>9, <2>2 DEF ExportCopyPatch
    <3>2. Writes(new, dir, repo.index) /\ Honest(dir) /\ new.label = L
      <4> HIDE DEF now
      <4> QED
        BY <1>0, <3>1 DEF Writes, Agrees, Honest, Outside, ExportCommand, PatchEntry, Bundled
    <3> HIDE DEF dir, new
    <3>3. QED
      BY <1>3, <3>1, <3>2 DEF Outside
  <2>3. QED
    BY <2>1, <2>2
\* A step that looks at something.
<1>10. CASE ExportReports(e) \/ ExportInspect(e) \/ ExportWorkspace(e) \/ ExportEvidence(e)
  <2> DEFINE Beside(y) == /\ y.pc \in {"inspect", "workspace", "evidence", "staged"}
                          /\ y.label = L /\ y.copied = x.copied /\ y.patch = x.patch
                          /\ y.index = x.index /\ y.diff = x.diff
  <2>1. /\ x.pc \in {"reports", "inspect", "workspace", "evidence"} /\ UNCHANGED <<repo, bundle>>
        /\ \E new : export' = [export EXCEPT ![e] = new] /\ Beside(new)
    <3>1. CASE ExportReports(e) \/ ExportEvidence(e)
      <4>1. PICK found, pc, from :
              /\ pc \in {"inspect", "staged"} /\ from \in {"reports", "evidence"}
              /\ ExportNote(e, from, found, pc)
        BY <3>1 DEF ExportReports, ExportEvidence
      <4> DEFINE new == [x EXCEPT !.pc = pc, !.missing = @ \cup found]
      <4>2. export' = [export EXCEPT ![e] = new] /\ Beside(new)
        BY <1>0, <4>1 DEF ExportNote, ExportCommand
      <4> HIDE DEF new, Beside
      <4>3. QED
        BY <4>1, <4>2 DEF ExportNote
    <3>2. CASE ExportInspect(e)
      <4>1. PICK found : Inspected(e, found)
        BY <3>2 DEF ExportInspect
      <4> DEFINE base == task_base_available(x.id)
                 report == [status |-> StatusOf(inspect(machine.link, x.id)), identity |-> identity(machine.link)]
                 new == [x EXCEPT !.pc = "workspace", !.missing = @ \cup found, !.base = base,
                                  !.toolchain = report]
      <4>2. export' = [export EXCEPT ![e] = new]
        BY <4>1 DEF Inspected
      <4> HIDE DEF base, report
      <4>3. Beside(new)
        BY <1>0 DEF ExportCommand
      <4> HIDE DEF new, Beside
      <4>4. QED
        BY <4>1, <4>2, <4>3 DEF Inspected
    <3>3. CASE ExportWorkspace(e)
      <4> DEFINE new == [x EXCEPT !.pc = "evidence", !.prepared = machine.workspace]
      <4>1. export' = [export EXCEPT ![e] = new] /\ Beside(new)
        BY <1>0, <3>3 DEF ExportWorkspace, ExportCommand
      <4> HIDE DEF new, Beside
      <4>2. QED
        BY <3>3, <4>1 DEF ExportWorkspace
    <3>4. QED
      BY <1>10, <3>1, <3>2, <3>3
  <2>2. PICK new : export' = [export EXCEPT ![e] = new] /\ Beside(new)
    BY <2>1
  <2>3. Writes(new, d, repo.index)
    BY <1>0, <2>1, <2>2 DEF Writes, Agrees, Outside
  <2>4. QED
    BY <1>2, <2>1, <2>2, <2>3 DEF Outside
<1>11. CASE ExportStaged(e)
  <2> DEFINE new == [x EXCEPT !.pc = "untracked", !.staged = repo.index]
  <2>1. Writes(new, d, repo.index) /\ new.label = L /\ export' = [export EXCEPT ![e] = new]
    BY <1>0, <1>11 DEF ExportStaged, Writes, Agrees, Outside, ExportCommand
  <2> HIDE DEF new
  <2>2. QED
    BY <1>2, <1>11, <2>1 DEF ExportStaged, Outside
<1>12. CASE ExportUntracked(e)
  <2> DEFINE listed == {f \in WorkFiles : repo.files[f] # None}
             new == [x EXCEPT !.pc = "before", !.listed = listed]
  <2>1. Writes(new, d, repo.index) /\ new.label = L /\ export' = [export EXCEPT ![e] = new]
    BY <1>0, <1>12 DEF ExportUntracked, Writes, Agrees, Outside, ExportCommand
  <2> HIDE DEF new
  <2>2. QED
    BY <1>2, <1>12, <2>1 DEF ExportUntracked, Outside
<1>13. CASE ExportBefore(e)
  <2> DEFINE listed == {f \in x.listed : repo.files[f] # None}
             new == [x EXCEPT !.pc = "diff", !.index = repo.index, !.listed = listed]
  <2>1. export' = [export EXCEPT ![e] = new] /\ UNCHANGED <<repo, bundle>> /\ x.pc = "before"
    BY <1>13 DEF ExportBefore
  <2> HIDE DEF listed
  <2>2. repo.index \in Nat /\ repo.index <= repo.index
    BY <1>0
  <2>3. Writes(new, d, repo.index) /\ new.label = L
    BY <1>0, <2>1, <2>2 DEF Writes, Agrees, Outside, ExportCommand
  <2> HIDE DEF new
  <2>4. QED
    BY <1>2, <2>1, <2>3 DEF Outside
<1>14. CASE ExportDiff(e)
  <2> DEFINE adds == [f \in WorkFiles |-> IF f \in x.listed THEN repo.files[f] ELSE None]
             diff == [base |-> repo.index, adds |-> adds]
             dir == [d EXCEPT !.diff = diff]
             new == [x EXCEPT !.pc = "after", !.diff = diff]
  <2>1. CASE ExportQuit(e) /\ UNCHANGED bundle
    BY <1>1, <1>14, <2>1 DEF ExportDiff
  <2>2. CASE ~(ExportQuit(e) /\ UNCHANGED bundle)
    <3>1. bundle' = [bundle EXCEPT ![L] = dir] /\ export' = [export EXCEPT ![e] = new]
          /\ UNCHANGED repo /\ x.pc = "diff"
      BY <1>14, <2>2 DEF ExportDiff
    <3>2. diff.base = repo.index
      OBVIOUS
    <3>3. Writes(new, dir, repo.index) /\ Honest(dir) /\ new.label = L
      <4> HIDE DEF diff
      <4> QED
        BY <1>0, <3>1, <3>2 DEF Writes, Agrees, Honest, Outside, ExportCommand, Bundled
    <3> HIDE DEF dir, new
    <3>4. QED
      BY <1>3, <3>1, <3>3 DEF Outside
  <2>3. QED
    BY <2>1, <2>2
<1>15. CASE ExportAfter(e)
  <2> DEFINE new == [x EXCEPT !.pc = "inventory"]
  <2>1. CASE ExportQuit(e)
    BY <1>1, <1>15, <2>1 DEF ExportAfter
  <2>2. CASE ~ExportQuit(e)
    <3>1. export' = [export EXCEPT ![e] = new] /\ repo.index = x.index /\ x.pc = "after"
      BY <1>15, <2>2 DEF ExportAfter, ExportGoto
    <3>2. x.diff.base = x.index
      BY <1>0, <3>1 DEF Agrees, Outside
    <3>3. Writes(new, d, repo.index) /\ new.label = L
      BY <1>0, <3>1, <3>2 DEF Writes, Agrees, Outside, ExportCommand
    <3> HIDE DEF new
    <3>4. QED
      BY <1>2, <1>15, <3>1, <3>3 DEF ExportAfter, Outside
  <2>3. QED
    BY <2>1, <2>2
<1>16. CASE ExportInventory(e)
  <2> DEFINE work == [f \in WorkFiles |-> IF f \in x.listed THEN repo.files[f] ELSE None]
             new == [x EXCEPT !.pc = "manifest", !.work = work]
  <2>1. export' = [export EXCEPT ![e] = new]
    BY <1>16 DEF ExportInventory
  <2>2. Writes(new, d, repo.index) /\ new.label = L
    <3> HIDE DEF work
    <3> QED
      BY <1>0, <1>16 DEF ExportInventory, Writes, Agrees, Outside, ExportCommand
  <2> HIDE DEF new
  <2>3. QED
    BY <1>2, <1>16, <2>1, <2>2 DEF ExportInventory, Outside
<1>17. CASE ExportManifest(e)
  <2> DEFINE m == [author |-> e, task |-> x.copied, life |-> describe(x.task),
                   patch |-> x.patch, base |-> x.base, prepared |-> x.prepared, index |-> x.index,
                   diff |-> x.diff, listing |-> x.staged,
                   work |-> x.work, toolchain |-> x.toolchain,
                   missing |-> x.missing]
             dir == [d EXCEPT !.manifest = m]
  <2>1. /\ bundle' = [bundle EXCEPT ![L] = dir] /\ export' = [export EXCEPT ![e] = IdleExport]
        /\ UNCHANGED repo /\ x.pc = "manifest"
    BY <1>17 DEF ExportManifest, ExportQuit
  <2>2. /\ m.task = x.copied /\ m.patch = x.patch /\ m.diff = x.diff /\ m.index = x.index
    OBVIOUS
  <2>3. Honest(dir)
    <3> HIDE DEF m
    <3> QED
      BY <1>0, <2>1, <2>2 DEF Agrees, Honest, Outside, Bundled
  <2>4. Writes(IdleExport, bundle'[IdleExport.label], repo.index) /\ IdleExport.pc \in Outside
    BY DEF Writes, IdleExport, NoPatch, Outside
  <2> HIDE DEF dir
  <2>5. bundle'[L] = dir /\ L \in Labels /\ \A b \in Labels : b # L => bundle'[b] = bundle[b]
    BY <1>0, <2>1 DEF Outside
  <2>6. QED
    BY <2>1, <2>3, <2>4, <2>5, BundleKept DEF Outside
<1>18. CASE ExportDies(e)
  BY <1>1, <1>18 DEF ExportDies
<1>19. QED
  BY <1>4, <1>5, <1>6, <1>7, <1>8, <1>9, <1>10, <1>11, <1>12, <1>13, <1>14, <1>15, <1>16, <1>17,
     <1>18 DEF ExportStep

\* So does whatever happens beside it: the index only moves on.
LEMMA BundleFrame ==
  ASSUME Typed, BundleInv, UNCHANGED <<bundle, export>>, UNCHANGED repo \/ RepoMove
  PROVE  BundleInv'
<1>1. repo.index \in Nat /\ repo'.index \in Nat /\ repo.index <= repo'.index
  BY DEF RepoMove, Typed, TypeOK, ExportTypeOK
<1>2. \A e \in Exporters : Writes(export[e], bundle[export[e].label], repo.index)'
  <2>1. \A e \in Exporters : Writes(export[e], bundle[export[e].label], repo.index)
    BY DEF BundleInv
  <2>2. \A e \in Exporters : export[e] \in ExportCommand
    BY DEF Typed, TypeOK, ExportTypeOK
  <2>3. ASSUME NEW x \in ExportCommand, NEW d, Writes(x, d, repo.index)
        PROVE  Writes(x, d, repo'.index)
    BY <1>1, <2>3 DEF Writes, Agrees
  <2>4. QED
    BY <2>1, <2>2, <2>3 DEF Writes, Agrees
<1>3. QED
  BY <1>2 DEF BundleInv, Alone, BundleIsHonest

\* What an export that misses nothing so far has not looked at yet.
Unproven(pc) ==
  CASE pc \in {"mkdir", "package"} -> Needed
    [] pc = "patch" -> {"patch", "reports", "base", "workspace", "evidence"}
    [] pc \in {"copy", "reports"} -> {"reports", "base", "workspace", "evidence"}
    [] pc = "inspect" -> {"base", "workspace", "evidence"}
    [] pc = "workspace" -> {"workspace", "evidence"}
    [] pc = "evidence" -> {"evidence"}
    [] OTHER -> {}

\* An export that misses nothing so far has found all but that, and what it tells.
Proves(x, u) == x.pc \notin {"idle", "load"} /\ x.missing = {} =>
                  u \subseteq Unproven(x.pc) \cup Told(x)

\* Hence nothing but what it tells is unproved when it writes its manifest.
ProvedInv == \A e \in Exporters : Proves(export[e], unproved[e])

\* What has held once counts for the rest of the export.
LEMMA UnprovedShrinks ==
  ASSUME Typed, ExportObserve, NEW e \in Exporters, export'[e].pc \notin {"idle", "load"}
  PROVE  /\ unproved'[e] \subseteq Needed
         /\ export[e].pc # "load" => unproved'[e] \subseteq unproved[e]
  BY DEF Typed, TypeOK, ExportTypeOK, ExportObserve

\* And what holds now counts.
LEMMA UnprovedNow ==
  ASSUME Typed, ExportObserve, NEW e \in Exporters, UNCHANGED <<package, machine>>,
         export'[e].pc \notin {"idle", "load"},
         export'[e].id = export[e].id, export'[e].task = export[e].task
  PROVE  \A p \in unproved'[e] : ~Proved(p, e)
<1>1. ASSUME NEW p PROVE Proved(p, e)' <=> Proved(p, e)
  BY DEF Proved, Held, HeldPatch, PatchHeld, task_base_available, Available
<1>2. QED
  BY <1>1 DEF ExportObserve

\* A step that is not the export's own takes nothing away from it.
LEMMA ProvedFrame ==
  ASSUME Typed, ExportObserve, NEW e \in Exporters, export'[e] = export[e],
         Proves(export[e], unproved[e])
  PROVE  Proves(export[e], unproved[e])'
  BY UnprovedShrinks DEF Proves, Told

\* A step of its own: what it looks for it finds or notes as missing.
LEMMA ProvedStep ==
  ASSUME Typed, ProvedInv, ExportObserve, NEW e \in Exporters, ExportStep(e),
         UNCHANGED <<package, machine>>
  PROVE  Proves(export[e], unproved[e])'
<1> DEFINE x == export[e]
           t == export[e].id
<1>0. /\ export \in [Exporters -> ExportCommand] /\ x \in ExportCommand /\ Proves(x, unproved[e])
      /\ x.missing \in SUBSET Missable
  BY DEF Typed, TypeOK, ExportTypeOK, ProvedInv, ExportCommand
<1>1. ASSUME export'[e].pc \in {"idle", "load"} PROVE Proves(export[e], unproved[e])'
  BY <1>1 DEF Proves
<1>2. ASSUME ExportQuit(e) PROVE Proves(export[e], unproved[e])'
  BY <1>0, <1>1, <1>2 DEF ExportQuit, IdleExport
\* A step that looks at nothing.
<1>3. ASSUME NEW pc, export'[e].pc = pc, export'[e].missing = x.missing, x.pc \notin {"idle", "load"},
             export'[e].base = x.base, export'[e].prepared = x.prepared,
             Unproven(x.pc) \subseteq Unproven(pc)
      PROVE  Proves(export[e], unproved[e])'
  BY <1>0, <1>3, UnprovedShrinks DEF Proves, Told
\* A step that looks at p and finds it, notes it as missing or tells that it did not.
<1>4. ASSUME NEW p \in Needed, NEW pc, export'[e].pc = pc, pc \notin {"idle", "load"},
             export'[e].id = t, export'[e].task = x.task, x.pc \notin {"idle", "load"},
             export'[e].missing = {} => x.missing = {} /\ (Proved(p, e) \/ p \in Told(export'[e])),
             Told(x) \ {p} \subseteq Told(export'[e]),
             Unproven(x.pc) \ {p} \subseteq Unproven(pc)
      PROVE  Proves(export[e], unproved[e])'
  <2>1. unproved'[e] \subseteq unproved[e] /\ \A q \in unproved'[e] : ~Proved(q, e)
    BY <1>4, UnprovedShrinks, UnprovedNow
  <2>2. ASSUME export'[e].missing = {} PROVE unproved'[e] \subseteq Unproven(pc) \cup Told(export'[e])
    BY <1>0, <1>4, <2>1, <2>2 DEF Proves
  <2>3. QED
    BY <1>4, <2>2 DEF Proves, Told
<1>5. CASE ExportIssue(e)
  <2>1. PICK u \in Tasks, b \in Labels :
       export' = [export EXCEPT ![e] = [IdleExport EXCEPT !.pc = "load", !.id = u, !.label = b]]
    BY <1>5 DEF ExportIssue
  <2>2. QED
    BY <1>0, <1>1, <2>1 DEF IdleExport
<1>6. CASE ExportLoad(e)
  <2>1. CASE ExportQuit(e)
    BY <1>2, <2>1
  <2>2. CASE export' = [export EXCEPT ![e].pc = "mkdir", ![e].task = package[t].task]
    <3>1. export'[e].pc = "mkdir"
      BY <1>0, <2>2 DEF ExportCommand
    <3>2. unproved'[e] \subseteq Needed
      BY <3>1, UnprovedShrinks
    <3>3. QED
      BY <3>1, <3>2 DEF Proves, Unproven
  <2>3. QED
    BY <1>6, <2>1, <2>2 DEF ExportLoad
<1>7. CASE ExportReserve(e)
  <2>1. CASE ExportQuit(e)
    BY <1>2, <2>1
  <2>2. CASE ExportGoto(e, "package")
    <3>1. /\ export'[e].pc = "package" /\ export'[e].missing = x.missing /\ x.pc = "mkdir"
          /\ export'[e].base = x.base /\ export'[e].prepared = x.prepared
      BY <1>0, <1>7, <2>2 DEF ExportReserve, ExportGoto, ExportCommand
    <3>2. QED
      BY <1>3, <3>1 DEF Unproven
  <2>3. QED
    BY <1>7, <2>1, <2>2 DEF ExportReserve
<1>8. CASE ExportPackage(e)
  <2>1. CASE ExportQuit(e)
    BY <1>2, <2>1
  <2>2. CASE ~ExportQuit(e)
    <3>1. /\ package[t] # None /\ x.pc = "package"
          /\ export'[e].pc = "patch" /\ export'[e].id = t /\ export'[e].task = x.task
          /\ Told(export'[e]) = Told(x)
          /\ export'[e].missing = x.missing \cup {f \in {"workload"} : f \notin package[t].files}
      BY <1>0, <1>8, <2>2 DEF ExportPackage, ExportCommand, Told
    <3>2. export'[e].missing = {} => x.missing = {} /\ Proved("workload", e)
      BY <3>1 DEF Proved, Held
    <3>3. QED
      BY <1>4, <3>1, <3>2 DEF Unproven, Needed
  <2>3. QED
    BY <2>1, <2>2
<1>9. CASE ExportPatch(e)
  <2>1. /\ x.pc = "patch" /\ export'[e].pc \in {"reports", "copy"}
        /\ export'[e].id = t /\ export'[e].task = x.task /\ Told(export'[e]) = Told(x)
        /\ \/ export'[e].missing = x.missing /\ PatchHeld(x.task, HeldPatch(t))
           \/ export'[e].missing = x.missing \cup {"patch"}
    <3>1. \/ "patch" \notin x.task.declares /\ ExportGoto(e, "reports")
          \/ PatchHeld(x.task, HeldPatch(t))
             /\ \E entry : export' = [export EXCEPT ![e].pc = "copy", ![e].patch = entry]
          \/ \E entry : export' = [export EXCEPT ![e].pc = "reports", ![e].missing = @ \cup {"patch"},
                                                 ![e].patch = entry]
      BY <1>9 DEF ExportPatch
    <3>2. x.pc = "patch"
      BY <1>9 DEF ExportPatch
    <3>3. CASE "patch" \notin x.task.declares /\ ExportGoto(e, "reports")
      BY <1>0, <3>2, <3>3 DEF ExportGoto, ExportCommand, Told, PatchHeld
    <3>4. CASE /\ PatchHeld(x.task, HeldPatch(t))
               /\ \E entry : export' = [export EXCEPT ![e].pc = "copy", ![e].patch = entry]
      BY <1>0, <3>2, <3>4 DEF ExportCommand, Told
    <3>5. CASE \E entry : export' = [export EXCEPT ![e].pc = "reports", ![e].missing = @ \cup {"patch"},
                                                   ![e].patch = entry]
      BY <1>0, <3>2, <3>5 DEF ExportCommand, Told
    <3>6. QED
      BY <3>1, <3>3, <3>4, <3>5
  <2>2. export'[e].missing = {} => x.missing = {} /\ Proved("patch", e)
    BY <2>1 DEF Proved
  <2>3. QED
    BY <1>4, <2>1, <2>2 DEF Unproven, Needed
<1>10. CASE ExportCopyPatch(e)
  <2>1. CASE ExportQuit(e)
    BY <1>2, <2>1
  <2>2. CASE ~ExportQuit(e)
    <3>1. /\ export'[e].pc = "reports" /\ export'[e].missing = x.missing /\ x.pc = "copy"
          /\ export'[e].base = x.base /\ export'[e].prepared = x.prepared
      BY <1>0, <1>10, <2>2 DEF ExportCopyPatch, ExportCommand
    <3>2. QED
      BY <1>3, <3>1 DEF Unproven
  <2>3. QED
    BY <2>1, <2>2
<1>11. CASE ExportReports(e)
  <2>1. /\ x.pc = "reports" /\ export'[e].pc = "inspect" /\ export'[e].id = t /\ export'[e].task = x.task
        /\ export'[e].missing = x.missing \cup ({"reports"} \ Held(t)) /\ Told(export'[e]) = Told(x)
    BY <1>0, <1>11 DEF ExportReports, ExportNote, ExportCommand, Told
  <2>2. export'[e].missing = {} => x.missing = {} /\ Proved("reports", e)
    BY <2>1 DEF Proved
  <2>3. QED
    BY <1>4, <2>1, <2>2 DEF Unproven, Needed
<1>12. CASE ExportInspect(e)
  <2> DEFINE base == task_base_available(t)
             found == {m \in {"base"} : base = "no"}
  <2>1. /\ x.pc = "inspect" /\ export'[e].pc = "workspace" /\ export'[e].id = t
        /\ export'[e].task = x.task /\ export'[e].missing = x.missing \cup found
        /\ export'[e].base = base /\ export'[e].prepared = x.prepared
    <3> HIDE DEF base
    <3> QED
      BY <1>0, <1>12 DEF ExportInspect, Inspected, ExportCommand, base
  <2>2. base \in {"yes", "no", "unknown"}
    BY DEF task_base_available
  <2>3. /\ export'[e].missing = {} => x.missing = {} /\ (Proved("base", e) \/ "base" \in Told(export'[e]))
        /\ Told(x) \ {"base"} \subseteq Told(export'[e])
    BY <2>1, <2>2 DEF Proved, Told
  <2>4. QED
    BY <1>4, <2>1, <2>3 DEF Unproven, Needed
<1>13. CASE ExportWorkspace(e)
  <2>1. /\ x.pc = "workspace" /\ export'[e].pc = "evidence" /\ export'[e].id = t /\ export'[e].task = x.task
        /\ export'[e].missing = x.missing /\ export'[e].base = x.base
        /\ export'[e].prepared = machine.workspace
    BY <1>0, <1>13 DEF ExportWorkspace, ExportCommand
  <2>2. /\ Proved("workspace", e) \/ "workspace" \in Told(export'[e])
        /\ Told(x) \ {"workspace"} \subseteq Told(export'[e])
    BY <2>1 DEF Proved, Told
  <2>3. QED
    BY <1>4, <2>1, <2>2 DEF Unproven, Needed
<1>13a. CASE ExportEvidence(e)
  <2>1. /\ x.pc = "evidence" /\ export'[e].pc = "staged" /\ export'[e].id = t /\ export'[e].task = x.task
        /\ export'[e].missing = x.missing \cup ((x.task.declares \cap {"evidence"}) \ Held(t))
        /\ Told(export'[e]) = Told(x)
    BY <1>0, <1>13a DEF ExportEvidence, ExportNote, ExportCommand, Told
  <2>2. export'[e].missing = {} => x.missing = {} /\ Proved("evidence", e)
    BY <2>1 DEF Proved
  <2>3. QED
    BY <1>4, <2>1, <2>2 DEF Unproven, Needed
<1>14. CASE ExportStaged(e) \/ ExportUntracked(e) \/ ExportBefore(e) \/ ExportInventory(e)
  <2>1. /\ x.pc \in {"staged", "untracked", "before", "inventory"} /\ export'[e].missing = x.missing
        /\ export'[e].pc \in {"untracked", "before", "diff", "manifest"}
        /\ export'[e].base = x.base /\ export'[e].prepared = x.prepared
    BY <1>0, <1>14 DEF ExportStaged, ExportUntracked, ExportBefore, ExportInventory, ExportCommand
  <2>2. QED
    BY <1>3, <2>1 DEF Unproven
<1>15. CASE ExportDiff(e) \/ ExportAfter(e)
  <2>1. CASE ExportQuit(e)
    BY <1>2, <2>1
  <2>2. CASE ~ExportQuit(e)
    <3>1. /\ x.pc \in {"diff", "after"} /\ export'[e].missing = x.missing
          /\ export'[e].pc \in {"after", "inventory"}
          /\ export'[e].base = x.base /\ export'[e].prepared = x.prepared
      BY <1>0, <1>15, <2>2 DEF ExportDiff, ExportAfter, ExportGoto, ExportCommand
    <3>2. QED
      BY <1>3, <3>1 DEF Unproven
  <2>3. QED
    BY <2>1, <2>2
<1>16. CASE ExportManifest(e) \/ ExportDies(e)
  BY <1>2, <1>16 DEF ExportManifest, ExportDies
<1>17. QED
  BY <1>5, <1>6, <1>7, <1>8, <1>9, <1>10, <1>11, <1>12, <1>13, <1>13a, <1>14, <1>15,
     <1>16 DEF ExportStep

-----------------------------------------------------------------------------
(* The creates *)

\* Package p holds what a task.json declares of it.
Carries(p, task) == /\ PatchHeld(task, p.patch)
                    /\ "evidence" \in task.declares => "evidence" \in p.files

\* A package that an entry may point to.
Good(p) == /\ p # None /\ p.task # None /\ {"workload", "profile"} \subseteq p.files
           /\ Carries(p, p.task)

\* No id is registered twice.
Counted(c) == Cardinality(Registered(c)) = Len(c.tasks)

\* What a create that is not outdated knows of its package p: it made the
\* directory and filled it so far.
Wrote(k, p, pc) ==
  /\ pc \notin {"idle", "check", "mkdir"} => p # None /\ p.author = k
  /\ pc \in {"workload", "profile", "docs", "register"} =>
       p.task # None /\ Carries(p, p.task)
  /\ pc \in {"profile", "docs", "register"} => "workload" \in p.files
  /\ pc \in {"docs", "register"} => "profile" \in p.files

\* Its copy c of the configuration differs from the file in good entries only.
Current(c) ==
  /\ c.broken = config.broken
  /\ Counted(c) <=> Counted(config)
  /\ \A t \in Tasks : ~Good(package[t]) =>
       (t \in Registered(c) <=> t \in Registered(config))

\* A create past its check adds a new id; one that is not outdated is current.
Harm(k) ==
  /\ create[k].pc \notin {"idle", "check"} => create[k].id \notin Registered(create[k].loaded)
  /\ create[k].pc # "idle" /\ ~create[k].stale =>
       Current(create[k].loaded) /\ Wrote(k, package[create[k].id], create[k].pc)

\* Why creates are harmless.
HarmInv == \A k \in Creators : Harm(k)

\* An entry has no errors if it points to a good package.
LEMMA EntryGood ==
  ASSUME NEW t
  PROVE  EntryErrors(t) = {} <=> Good(package[t])
<1>1. CASE package[t] = None \/ package[t].task = None
  BY <1>1 DEF EntryErrors, Good
<1>2. CASE package[t] # None /\ package[t].task # None
  <2>1. EntryErrors(t) = {f \in {"workload", "profile"} \cup (package[t].task.declares \cap {"evidence"}) :
                            f \notin package[t].files}
                         \cup IF PatchHeld(package[t].task, package[t].patch) THEN {} ELSE {"patch"}
    BY <1>2 DEF EntryErrors
  <2>2. {f \in {"workload", "profile"} \cup (package[t].task.declares \cap {"evidence"}) :
           f \notin package[t].files} = {}
        <=> /\ {"workload", "profile"} \subseteq package[t].files
            /\ "evidence" \in package[t].task.declares => "evidence" \in package[t].files
    OBVIOUS
  <2>3. EntryErrors(t) = {} <=>
          /\ {"workload", "profile"} \subseteq package[t].files
          /\ "evidence" \in package[t].task.declares => "evidence" \in package[t].files
          /\ PatchHeld(package[t].task, package[t].patch)
    BY <2>1, <2>2
  <2>4. QED
    BY <1>2, <2>3 DEF Good, Carries
<1>3. QED
  BY <1>1, <1>2

\* A valid configuration: nothing broken, no id twice, good entries only.
LEMMA ValidMeans ==
  ASSUME config \in Config
  PROVE  Valid(config) <=> /\ config.broken = {} /\ config.tasks # <<>> /\ Counted(config)
                           /\ \A t \in Registered(config) : Good(package[t])
<1>1. PinErrors(config) \cup SettingErrors(config) = {} <=> config.broken = {}
  BY DEF PinErrors, SettingErrors, Config, ConfigSections
<1>2. QED
  BY <1>1, EntryGood DEF Valid, Counted

\* One entry more.
LEMMA Registering ==
  ASSUME NEW c \in Config, NEW d \in Config, NEW t \in Tasks, d.tasks = Append(c.tasks, t)
  PROVE  /\ Registered(d) = Registered(c) \cup {t}
         /\ Registered(c) \subseteq Tasks
         /\ d.tasks # <<>>
         /\ t \notin Registered(c) => (Counted(d) <=> Counted(c))
<1>1. c.tasks \in Seq(Tasks) /\ Len(c.tasks) \in Nat
  BY DEF Config
<1>2. /\ Len(d.tasks) = Len(c.tasks) + 1 /\ d.tasks[Len(c.tasks) + 1] = t
      /\ \A i \in 1..Len(c.tasks) : d.tasks[i] = c.tasks[i]
      /\ DOMAIN c.tasks = 1..Len(c.tasks) /\ DOMAIN d.tasks = 1..(Len(c.tasks) + 1)
  BY <1>1
<1>3. Registered(d) = Registered(c) \cup {t}
  BY <1>1, <1>2 DEF Registered
<1>4. IsFiniteSet(Registered(c))
  <2> DEFINE f == [i \in 1..Len(c.tasks) |-> c.tasks[i]]
  <2>1. IsFiniteSet(1..Len(c.tasks))
    BY <1>1, FS_Interval
  <2>2. f \in Surjection(1..Len(c.tasks), Registered(c))
    BY <1>2 DEF Registered, Surjection
  <2>3. QED
    BY <2>1, <2>2, FS_Surjection
<1>5. t \notin Registered(c) => Cardinality(Registered(d)) = Cardinality(Registered(c)) + 1
  BY <1>3, <1>4, FS_AddElement
<1>6. Cardinality(Registered(c)) \in Nat
  BY <1>4, FS_CardinalityType
<1>7. Registered(c) \subseteq Tasks
  BY <1>1 DEF Registered
<1>8. d.tasks # <<>>
  BY <1>1, <1>2
<1>9. QED
  BY <1>1, <1>2, <1>3, <1>5, <1>6, <1>7, <1>8 DEF Counted

\* q is p with nothing taken out that an entry or a create relies on.
Better(p, q) == p # None =>
  /\ q # None /\ q.author = p.author /\ p.files \subseteq q.files
  /\ p.task # None => q.task # None
  /\ p.task # None /\ Carries(p, p.task) => Carries(q, q.task)

\* A step that adds to packages, and to the configuration good entries only.
Adds ==
  /\ config'.broken = config.broken
  /\ Counted(config') <=> Counted(config)
  /\ config.tasks # <<>> => config'.tasks # <<>>
  /\ \A t \in Tasks : Better(package[t], package'[t])
  /\ \A t \in Tasks : ~Good(package'[t]) =>
       (t \in Registered(config') <=> t \in Registered(config))

\* What is good stays good as it gets better.
LEMMA GoodStays ==
  ASSUME NEW p, NEW q, Better(p, q), Good(p)
  PROVE  Good(q)
BY DEF Better, Good

\* Such a step keeps a valid configuration valid.
LEMMA AddsKeepValid ==
  ASSUME config \in Config, config' \in Config, Adds, Valid(config)
  PROVE  Valid(config)'
<1>1. config.broken = {} /\ config.tasks # <<>> /\ Counted(config)
      /\ \A t \in Registered(config) : Good(package[t])
  BY ValidMeans
<1>2. Registered(config') \subseteq Tasks
  BY DEF Registered, Config
<1>3. \A t \in Registered(config') : Good(package'[t])
  BY <1>1, <1>2, GoodStays DEF Adds
<1>4. (config.broken = {} /\ config.tasks # <<>> /\ Counted(config)
       /\ \A t \in Registered(config) : Good(package[t]))'
  BY <1>1, <1>3 DEF Adds, Counted, Registered, Good
<1>5. QED
  <2>1. (config \in Config => (Valid(config) <=> /\ config.broken = {} /\ config.tasks # <<>> /\ Counted(config)
                           /\ \A t \in Registered(config) : Good(package[t])))'
    BY ValidMeans, PTL
  <2>2. QED
    BY <1>4, <2>1

\* Such a step, of whomever, leaves every other create as informed as it was.
LEMMA AddsKeepHarm ==
  ASSUME PackageTypeOK, CreateKnows, HarmInv, Adds, NEW k \in Creators,
         create'[k] = create[k] \/ create'[k] = [create[k] EXCEPT !.stale = TRUE]
  PROVE  Harm(k)'
<1>0. create[k] \in Create /\ (create[k].pc # "idle" => create[k].id \in Tasks)
  BY DEF PackageTypeOK, CreateKnows
<1>1. /\ create'[k].pc = create[k].pc /\ create'[k].id = create[k].id
      /\ create'[k].loaded = create[k].loaded
      /\ ~create'[k].stale => create'[k] = create[k]
  BY <1>0 DEF Create
<1>2. ASSUME create'[k].pc # "idle", ~create'[k].stale
      PROVE  Current(create[k].loaded)' /\ Wrote(k, package'[create[k].id], create[k].pc)
  <2>1. Current(create[k].loaded) /\ Wrote(k, package[create[k].id], create[k].pc)
        /\ create[k].id \in Tasks /\ create'[k] = create[k]
    BY <1>0, <1>1, <1>2 DEF HarmInv, Harm
  <2>2. \A t \in Tasks : ~Good(package'[t]) => ~Good(package[t])
    BY GoodStays DEF Adds
  <2>3. Current(create[k].loaded)'
    BY <2>1, <2>2 DEF Adds, Current, Counted, Registered, Good
  <2>4. Better(package[create[k].id], package'[create[k].id])
    BY <2>1 DEF Adds
  <2>5. Wrote(k, package'[create[k].id], create[k].pc)
    BY <2>1, <2>4 DEF Better, Wrote
  <2>6. QED
    BY <2>3, <2>5
<1>3. QED
  BY <1>1, <1>2 DEF Harm, HarmInv, Registered, Wrote

\* Better is meant weakly.
LEMMA SameIsBetter == ASSUME NEW p PROVE Better(p, p)
BY DEF Better

\* Packages change, one of them, for the better.
LEMMA AddsToOne ==
  ASSUME PackageTypeOK, NEW t \in Tasks, NEW new, package' = [package EXCEPT ![t] = new],
         Better(package[t], new), UNCHANGED config
  PROVE  Adds
<1>1. \A u \in Tasks : Better(package[u], package'[u])
  BY SameIsBetter DEF PackageTypeOK
<1>2. QED
  BY <1>1 DEF Adds, Counted, Registered

\* To change neither packages nor configuration is to add nothing.
LEMMA AddsNothing ==
  ASSUME UNCHANGED <<config, package>>
  PROVE  Adds
BY SameIsBetter DEF Adds, Counted, Registered

\* What a create adds, if it does not register.
LEMMA CreateAdds ==
  ASSUME PackageTypeOK, CreateKnows, NEW k \in Creators, CreateStep(k), ~CreateRegister(k)
  PROVE  Adds
<1>0. create[k].pc # "idle" => create[k].id \in Tasks
  BY DEF CreateKnows
<1>1. CASE CreateLoad(k) \/ CreateCheck(k) \/ CreateDies(k)
  BY <1>1, AddsNothing DEF CreateLoad, CreateCheck, CreateDies
<1>2. CASE CreateMkdir(k)
  <2>1. CASE package[create[k].id] # None
    BY <1>2, <2>1, AddsNothing DEF CreateMkdir
  <2>2. CASE package[create[k].id] = None
    BY <1>0, <1>2, <2>2, AddsToOne DEF CreateMkdir, Better
  <2>3. QED
    BY <2>1, <2>2
<1>3. create[k].pc # "idle" /\ package[create[k].id] # None => Here(k) = package[create[k].id]
                                  /\ package[create[k].id] \in Package
  BY <1>0 DEF Here, PackageTypeOK
<1>4. CASE CreateTask(k)
  <2> DEFINE new == [Here(k) EXCEPT !.task = ScaffoldRecord(create[k].base)]
  <2>1. package' = [package EXCEPT ![create[k].id] = new] /\ create[k].id \in Tasks
    BY <1>0, <1>4 DEF CreateTask
  <2>2. ScaffoldRecord(create[k].base) # None /\ ScaffoldRecord(create[k].base).declares = {}
    BY <1>0, <1>4, PackageAssumption DEF CreateTask, CreateKnows, ScaffoldRecord, Task, KNOWN
  <2>2a. new # None
    <3>1. Here(k) \in Package
      BY <1>3, <1>4 DEF CreateTask, Here, Package
    <3>2. ScaffoldRecord(create[k].base) \in Task
      BY <1>4 DEF CreateTask, CreateKnows, ScaffoldRecord, Task, KNOWN
    <3>3. QED
      BY <3>1, <3>2, PackageAssumption DEF Package
  <2>3. Better(package[create[k].id], new)
    BY <1>3, <1>4, <2>2, <2>2a DEF Better, Carries, PatchHeld, Package, CreateTask
  <2>4. QED
    BY <1>4, <2>1, <2>3, AddsToOne DEF CreateTask
<1>5. CASE CreateFiles(k)
  <2>1. PICK file \in PackageFiles, next \in Steps : CreateFile(k, file, next)
    BY <1>5 DEF CreateFiles, PackageFiles, Steps
  <2> DEFINE new == [Here(k) EXCEPT !.files = @ \cup {file}]
  <2>2. package' = [package EXCEPT ![create[k].id] = new] /\ create[k].id \in Tasks
        /\ create[k].pc # "idle"
    BY <1>0, <2>1 DEF CreateFile, PackageFiles
  <2>3. Here(k) \in Package
    BY <1>3, <2>2 DEF Here, Package
  <2>4. new # None
    BY <2>3, PackageAssumption DEF Package
  <2>5. Better(package[create[k].id], new)
    BY <1>3, <2>2, <2>4 DEF Better, Carries, Package
  <2>6. QED
    BY <2>1, <2>2, <2>5, AddsToOne DEF CreateFile
<1>6. QED
  BY <1>1, <1>2, <1>4, <1>5 DEF CreateStep

\* One that registers on what is current adds a good entry.
LEMMA RegisterAdds ==
  ASSUME PackageTypeOK, CreateKnows, HarmInv, NEW k \in Creators, CreateRegister(k), ~create[k].stale
  PROVE  Adds
<1> DEFINE c == create[k].loaded
           t == create[k].id
<1>0. /\ create[k].pc = "register" /\ t \in Tasks /\ c \in Config /\ config \in Config
      /\ t \notin Registered(c) /\ Current(c) /\ Wrote(k, package[t], "register")
      /\ UNCHANGED package
  BY DEF PackageTypeOK, CreateKnows, HarmInv, Harm, CreateRegister, Create
<1>1. CASE c.example
  BY <1>1, AddsNothing DEF CreateRegister
<1>2. CASE ~c.example
  <2> DEFINE d == [c EXCEPT !.tasks = Append(@, t)]
  <2>1. config' = d
    BY <1>2 DEF CreateRegister
  <2>2. c.tasks \in Seq(Tasks)
    BY <1>0 DEF Config
  <2>3. Append(c.tasks, t) \in Seq(Tasks)
    BY <1>0, <2>2
  <2>4. d \in Config /\ d.tasks = Append(c.tasks, t) /\ d.broken = c.broken
    BY <1>0, <2>3 DEF Config
  <2> HIDE DEF d
  <2>5. /\ Registered(d) = Registered(c) \cup {t} /\ d.tasks # <<>>
        /\ Counted(d) <=> Counted(c)
    BY <1>0, <2>4, Registering
  <2>6. Good(package[t])
    BY <1>0 DEF Wrote, Good
  <2>7. \A u \in Tasks : ~Good(package[u]) => (u \in Registered(d) <=> u \in Registered(config))
    BY <1>0, <2>5, <2>6 DEF Current
  <2>8. \A u \in Tasks : Better(package[u], package'[u])
    BY <1>0, SameIsBetter
  <2>9. QED
    BY <1>0, <2>1, <2>4, <2>5, <2>7, <2>8 DEF Adds, Current, Counted
<1>3. QED
  BY <1>1, <1>2

\* Current, after the step, of a configuration c of before it.
StillCurrent(c) ==
  /\ c.broken = config'.broken
  /\ Counted(c) <=> Counted(config')
  /\ \A t \in Tasks : ~Good(package'[t]) =>
       (t \in Registered(c) <=> t \in Registered(config'))

\* What is current stays so.
LEMMA CurrentLater ==
  ASSUME Adds, NEW c, Current(c)
  PROVE  StillCurrent(c)
<1>1. \A t \in Tasks : ~Good(package'[t]) => ~Good(package[t])
  BY GoodStays DEF Adds
<1>2. QED
  BY <1>1 DEF Adds, Current, StillCurrent

\* A step of a create leaves all creates as informed as they were, itself included.
LEMMA HarmCreate ==
  ASSUME PackageTypeOK, CreateKnows, HarmInv, NEW k \in Creators, CreateStep(k)
  PROVE  HarmInv'
<1>0. /\ create \in [Creators -> Create] /\ create[k] \in Create
      /\ create[k].pc # "idle" => create[k].id \in Tasks
      /\ package \in [Tasks -> Package \cup {None}]
  BY DEF PackageTypeOK, CreateKnows
<1>1. ASSUME Adds, NEW new, create' = [create EXCEPT ![k] = new],
             new.pc \notin {"idle", "check"} => new.id \notin Registered(new.loaded),
             new.pc # "idle" /\ ~new.stale =>
               StillCurrent(new.loaded) /\ Wrote(k, package'[new.id], new.pc)
      PROVE  HarmInv'
  <2>1. create'[k] = new /\ \A j \in Creators : j # k => create'[j] = create[j]
    BY <1>0, <1>1
  <2>2. ASSUME NEW j \in Creators PROVE Harm(j)'
    <3>1. CASE j # k
      BY <1>1, <2>1, <3>1, AddsKeepHarm
    <3>2. CASE j = k
      <4>1. create'[j] = new
        BY <2>1, <3>2
      <4>2. StillCurrent(create'[j].loaded) => Current(create[j].loaded)'
        BY DEF StillCurrent, Current, Counted, Registered, Good
      <4>3. (create[j].id \notin Registered(create[j].loaded))' <=>
               new.id \notin Registered(new.loaded)
        BY <4>1 DEF Registered
      <4>4. Wrote(j, package[create[j].id], create[j].pc)' <=> Wrote(j, package'[new.id], new.pc)
        BY <4>1 DEF Wrote
      <4>5. QED
        BY <1>1, <3>2, <4>1, <4>2, <4>3, <4>4 DEF Harm
    <3>3. QED
      BY <3>1, <3>2
  <2>3. QED
    BY <2>2 DEF HarmInv, Harm
<1>2. ASSUME Adds, CreateQuit(k) PROVE HarmInv'
  <2>1. IdleCreate.pc = "idle"
    BY DEF IdleCreate
  <2>2. QED
    BY <1>1, <1>2, <2>1 DEF CreateQuit
\* A step of its own after the check, to the point pc.
<1>3. ASSUME Adds, NEW pc \in Steps, CreateGoto(k, pc), create[k].pc # "idle",
             pc # "idle" /\ create[k].id \notin Registered(create[k].loaded),
             ~create[k].stale => Wrote(k, package'[create[k].id], pc)
      PROVE  HarmInv'
  <2> DEFINE new == [create[k] EXCEPT !.pc = pc]
  <2>1. /\ new.pc = pc /\ new.id = create[k].id /\ new.loaded = create[k].loaded
        /\ new.stale = create[k].stale
    BY <1>0, <1>3 DEF Create
  <2>2. create' = [create EXCEPT ![k] = new]
    BY <1>3 DEF CreateGoto
  <2> HIDE DEF new
  <2>3. ~create[k].stale => StillCurrent(create[k].loaded)
    BY <1>3, CurrentLater DEF HarmInv, Harm
  <2>4. QED
    BY <1>1, <1>3, <2>1, <2>2, <2>3
<1>4. ~CreateRegister(k) => Adds
  BY CreateAdds
<1>5. CASE CreateLoad(k)
  <2>1. PICK t \in Tasks, c \in Commits, r \in BOOLEAN :
       create' = [create EXCEPT ![k] =
                    [IdleCreate EXCEPT !.pc = "check", !.id = t, !.base = c,
                                       !.register = r, !.loaded = config]]
    BY <1>5 DEF CreateLoad
  <2> DEFINE new == [IdleCreate EXCEPT !.pc = "check", !.id = t, !.base = c,
                                       !.register = r, !.loaded = config]
  <2>2. new.pc = "check" /\ new.loaded = config
    BY DEF IdleCreate
  <2>3. create' = [create EXCEPT ![k] = new]
    BY <2>1
  <2> HIDE DEF new
  <2>4. UNCHANGED <<config, package>>
    BY <1>5 DEF CreateLoad
  <2>5. StillCurrent(config) /\ Wrote(k, package'[new.id], "check")
    BY <2>4 DEF Wrote, StillCurrent
  <2>6. Adds
    BY <1>5, AddsNothing DEF CreateLoad
  <2>7. QED
    BY <1>1, <2>2, <2>3, <2>5, <2>6
<1>6. CASE CreateCheck(k)
  <2>1. Adds
    BY <1>6, AddsNothing DEF CreateCheck
  <2>2. QED
    BY <1>2, <1>3, <1>6, <2>1 DEF CreateCheck, Wrote, Steps
<1>7. CASE CreateMkdir(k)
  <2>1. Adds \/ CreateRegister(k)
    BY <1>4
  <2>2. Adds
    BY <1>7, <2>1 DEF CreateMkdir, CreateRegister
  <2>3. CASE package[create[k].id] # None
    BY <1>2, <1>7, <2>2, <2>3 DEF CreateMkdir
  <2>4. CASE package[create[k].id] = None
    <3>1. package'[create[k].id] = [task |-> None, files |-> {}, patch |-> None, author |-> k]
      BY <1>0, <1>7, <2>4 DEF CreateMkdir
    <3>2. [task |-> None, files |-> {}, patch |-> None, author |-> k] # None
      BY PackageAssumption DEF Package
    <3>3. Wrote(k, package'[create[k].id], "task")
      BY <3>1, <3>2 DEF Wrote
    <3>4. QED
      BY <1>3, <1>7, <2>2, <2>4, <3>3 DEF CreateMkdir, HarmInv, Harm, Steps
  <2>5. QED
    BY <2>3, <2>4
<1>8. CASE CreateTask(k)
  <2>1. Adds
    BY <1>4, <1>8 DEF CreateTask, CreateRegister
  <2>2. create[k].id \in Tasks /\ create[k].base \in Commits /\ create[k].pc = "task"
    BY <1>0, <1>8 DEF CreateTask, CreateKnows
  <2>3. ASSUME ~create[k].stale PROVE Wrote(k, package'[create[k].id], "workload")
    <3>1. package[create[k].id] # None /\ package[create[k].id].author = k
      BY <2>2, <2>3 DEF HarmInv, Harm, Wrote
    <3>2. package[create[k].id] \in Package /\ Here(k) = package[create[k].id]
      BY <1>0, <2>2, <3>1 DEF Here
    <3>3. package'[create[k].id] = [Here(k) EXCEPT !.task = ScaffoldRecord(create[k].base)]
      BY <1>0, <1>8, <2>2 DEF CreateTask
    <3>4. /\ package'[create[k].id].task = ScaffoldRecord(create[k].base)
          /\ package'[create[k].id].author = k
      BY <3>1, <3>2, <3>3 DEF Package
    <3>5. package'[create[k].id] # None
      BY <2>1, <2>2, <3>1 DEF Adds, Better
    <3>6. ScaffoldRecord(create[k].base) # None /\ ScaffoldRecord(create[k].base).declares = {}
      BY <2>2, PackageAssumption DEF ScaffoldRecord, Task, KNOWN
    <3>7. QED
      BY <3>4, <3>5, <3>6 DEF Wrote, Carries, PatchHeld
  <2>4. QED
    BY <1>3, <1>8, <2>1, <2>2, <2>3 DEF CreateTask, HarmInv, Harm, Steps
<1>9. CASE CreateFiles(k)
  <2>1. PICK file \in PackageFiles, next \in Steps :
          /\ CreateFile(k, file, next)
          /\ <<file, next>> \in {<<"workload", "profile">>, <<"profile", "docs">>, <<"docs", "register">>}
    BY <1>9 DEF CreateFiles, PackageFiles, Steps
  <2>2. create[k].id \in Tasks /\ create[k].pc = file
    BY <1>0, <2>1 DEF CreateFile, PackageFiles
  <2>3. Adds
    BY <1>4, <2>1, <2>2 DEF CreateRegister, PackageFiles
  <2>4. ASSUME ~create[k].stale PROVE Wrote(k, package'[create[k].id], next)
    <3>1. /\ Wrote(k, package[create[k].id], file) /\ package[create[k].id] # None
          /\ package[create[k].id].author = k
      BY <2>1, <2>2, <2>4 DEF HarmInv, Harm, Wrote, PackageFiles
    <3>2. package[create[k].id] \in Package /\ Here(k) = package[create[k].id]
      BY <1>0, <2>2, <3>1 DEF Here
    <3>3. package'[create[k].id] = [Here(k) EXCEPT !.files = @ \cup {file}]
      BY <1>0, <2>1, <2>2 DEF CreateFile
    <3>4. /\ package'[create[k].id].task = package[create[k].id].task
          /\ package'[create[k].id].author = k
          /\ package'[create[k].id].patch = package[create[k].id].patch
          /\ package'[create[k].id].files = package[create[k].id].files \cup {file}
      BY <3>1, <3>2, <3>3 DEF Package
    <3>5. package'[create[k].id] # None
      BY <2>2, <2>3, <3>1 DEF Adds, Better
    <3>6. QED
      BY <2>1, <3>1, <3>4, <3>5 DEF Wrote, Carries
  <2>5. create[k].id \notin Registered(create[k].loaded) /\ create[k].pc # "idle" /\ next # "idle"
    BY <2>1, <2>2 DEF HarmInv, Harm, PackageFiles
  <2>6. CreateQuit(k) \/ CreateGoto(k, next)
    BY <2>1 DEF CreateFile
  <2>7. QED
    BY <1>2, <1>3, <2>3, <2>4, <2>5, <2>6
<1>10. CASE CreateRegister(k)
  <2>1. ASSUME NEW j \in Creators PROVE Harm(j)'
    <3>1. CASE j = k
      <4>1. create'[j].pc = "idle"
        BY <1>10, <3>1 DEF CreateRegister, IdleCreate
      <4>2. QED
        BY <4>1 DEF Harm
    <3>2. CASE j # k
      <4>1. create[j] \in Create
        BY <1>0
      <4>2. create'[j] = [create[j] EXCEPT !.stale = @ \/ (create[k].stale /\ create[j].pc # "idle")]
        BY <1>10, <3>2 DEF CreateRegister
      <4>3. CASE ~create[k].stale
        <5>1. Adds
          BY <1>10, <4>3, RegisterAdds
        <5>2. create'[j] = create[j]
          BY <4>1, <4>2, <4>3 DEF Create
        <5>3. QED
          BY <5>1, <5>2, AddsKeepHarm
      <4>4. CASE create[k].stale
        <5>1. /\ create'[j].pc = create[j].pc /\ create'[j].id = create[j].id
              /\ create'[j].loaded = create[j].loaded
              /\ create[j].pc # "idle" => create'[j].stale
          BY <4>1, <4>2, <4>4 DEF Create
        <5>2. QED
          BY <5>1 DEF Harm, HarmInv, Registered
      <4>5. QED
        BY <4>3, <4>4
    <3>3. QED
      BY <3>1, <3>2
  <2>2. QED
    BY <2>1 DEF HarmInv, Harm
<1>11. CASE CreateDies(k)
  <2>1. Adds
    BY <1>11, AddsNothing DEF CreateDies
  <2>2. QED
    BY <1>2, <1>11, <2>1 DEF CreateDies
<1>12. QED
  BY <1>5, <1>6, <1>7, <1>8, <1>9, <1>10, <1>11 DEF CreateStep

\* An edit either adds or outdates every create that runs.
LEMMA EditAdds ==
  ASSUME PackageTypeOK, PackageEdit \/ ConfigEdit
  PROVE  Outdates \/ (Adds /\ UNCHANGED create)
<1>0. package \in [Tasks -> Package \cup {None}] /\ config \in Config
  BY DEF PackageTypeOK
<1>1. ASSUME NEW t \in Tasks, package[t] # None, package[t].task # None, NEW r \in Task,
             Carries(package[t], package[t].task) => Carries(package[t], r)
      PROVE  Better(package[t], [package[t] EXCEPT !.task = r])
  <2>1. package[t] \in Package
    BY <1>0, <1>1
  <2>2. [package[t] EXCEPT !.task = r] \in Package
    BY <2>1 DEF Package
  <2>3. QED
    BY <1>1, <2>1, <2>2, PackageAssumption DEF Better, Carries, Package
<1>1a. \A t \in Tasks : package[t] # None /\ package[t].task # None => package[t].task \in Task
  BY <1>0 DEF Package
<1>2. ASSUME NEW t \in Tasks, NEW s \in Statuses, EditTask(t, s)
      PROVE  Adds /\ UNCHANGED create
  <2> DEFINE r == [s EXCEPT !.base = package[t].task.base, !.declares = package[t].task.declares,
                            !.patch = package[t].task.patch]
  <2>1. /\ package[t] # None /\ package[t].task # None /\ UNCHANGED <<config, create>>
        /\ package' = [package EXCEPT ![t] = [package[t] EXCEPT !.task = r]]
    BY <1>2 DEF EditTask
  <2>2. r \in Task /\ r.patch = package[t].task.patch /\ r.declares = package[t].task.declares
    BY <1>1a, <2>1, EditsAssumption DEF Task
  <2> HIDE DEF r
  <2>3. Better(package[t], [package[t] EXCEPT !.task = r])
    BY <1>1, <2>1, <2>2 DEF Carries, PatchHeld
  <2>4. QED
    BY <2>1, <2>3, AddsToOne
<1>3. ASSUME NEW t \in Tasks, NEW c \in Commits, Rebase(t, c)
      PROVE  Adds /\ UNCHANGED create
  <2> DEFINE r == [package[t].task EXCEPT !.base = c]
  <2>1. /\ package[t] # None /\ package[t].task # None /\ UNCHANGED <<config, create>>
        /\ package' = [package EXCEPT ![t] = [package[t] EXCEPT !.task = r]]
    BY <1>3 DEF Rebase
  <2>2. r \in Task /\ r.patch = package[t].task.patch /\ r.declares = package[t].task.declares
    BY <1>1a, <2>1 DEF Task
  <2> HIDE DEF r
  <2>3. Better(package[t], [package[t] EXCEPT !.task = r])
    BY <1>1, <2>1, <2>2 DEF Carries, PatchHeld
  <2>4. QED
    BY <2>1, <2>3, AddsToOne
<1>4. ASSUME NEW t \in Tasks, NEW h \in Patches \cup {None}, RecordPatch(t, h)
      PROVE  Adds /\ UNCHANGED create
  <2> DEFINE declared == IF package[t].patch = None THEN package[t].task.declares \ {"patch"}
                         ELSE package[t].task.declares \cup {"patch"}
             r == [package[t].task EXCEPT !.patch = h, !.declares = declared]
  <2>1. /\ package[t] # None /\ package[t].task # None /\ UNCHANGED <<config, create>>
        /\ h \in {None, package[t].patch} /\ package[t] \in Package /\ package[t].task \in Task
    BY <1>0, <1>1a, <1>4 DEF RecordPatch
  <2>2. package' = [package EXCEPT ![t] = [package[t] EXCEPT !.task = r]]
    BY <1>4, <2>1 DEF RecordPatch, Package, Task
  <2>3. r \in Task /\ r.patch = h /\ r.declares = declared
    BY <2>1 DEF Task
  <2> HIDE DEF r
  <2>3a. /\ "patch" \in r.declares => package[t].patch # None
         /\ "evidence" \in r.declares => "evidence" \in package[t].task.declares
    BY <2>3
  <2> HIDE DEF declared
  <2>4. Carries(package[t], package[t].task) => Carries(package[t], r)
    BY <2>1, <2>3, <2>3a DEF Carries, PatchHeld
  <2>5. Better(package[t], [package[t] EXCEPT !.task = r])
    BY <1>1, <2>1, <2>3, <2>4
  <2>6. QED
    BY <2>1, <2>2, <2>5, AddsToOne
<1>5. ASSUME NEW t \in Tasks, RegisterByHand(t)
      PROVE  Adds /\ UNCHANGED create
  <2> DEFINE d == [config EXCEPT !.tasks = Append(@, t)]
  <2>1. config' = d /\ UNCHANGED <<package, create>> /\ Good(package[t]) /\ t \notin Registered(config)
    BY <1>5, EntryGood DEF RegisterByHand
  <2>2. config.tasks \in Seq(Tasks)
    BY <1>0 DEF Config
  <2>3. Append(config.tasks, t) \in Seq(Tasks)
    BY <2>2
  <2>4. d \in Config /\ d.tasks = Append(config.tasks, t) /\ d.broken = config.broken
    BY <1>0, <2>3 DEF Config
  <2> HIDE DEF d
  <2>5. /\ Registered(d) = Registered(config) \cup {t} /\ d.tasks # <<>>
        /\ Counted(d) <=> Counted(config)
    BY <1>0, <2>1, <2>4, Registering
  <2>6. \A u \in Tasks : Better(package[u], package'[u])
    BY <2>1, SameIsBetter
  <2>7. QED
    BY <2>1, <2>4, <2>5, <2>6 DEF Adds
<1>6. ASSUME EditReviewer PROVE Adds /\ UNCHANGED create
  <2>1. config'.tasks = config.tasks /\ config'.broken = config.broken
        /\ UNCHANGED <<package, create>>
    BY <1>0, <1>6 DEF EditReviewer, Config
  <2>2. QED
    BY <2>1, SameIsBetter DEF Adds, Counted, Registered
<1>7. QED
  BY <1>2, <1>3, <1>4, <1>5, <1>6
     DEF PackageEdit, ConfigEdit, WritePatch, EditEvidence, RemovePackage, Deregister, EditSection

\* So does an edit, but for those it outdates.
LEMMA HarmEdit ==
  ASSUME PackageTypeOK, CreateKnows, HarmInv, PackageEdit \/ ConfigEdit
  PROVE  HarmInv'
<1>1. CASE Adds /\ UNCHANGED create
  <2>1. \A k \in Creators : Harm(k)'
    BY <1>1, AddsKeepHarm
  <2>2. QED
    BY <2>1 DEF HarmInv, Harm
<1>2. CASE Outdates
  <2>1. \A k \in Creators : /\ create'[k].pc = create[k].pc /\ create'[k].id = create[k].id
                            /\ create'[k].loaded = create[k].loaded
                            /\ create[k].pc # "idle" => create'[k].stale
    BY <1>2 DEF Outdates, PackageTypeOK, Create
  <2>2. QED
    BY <2>1 DEF HarmInv, Harm, Registered
<1>3. QED
  BY <1>1, <1>2, EditAdds

\* The property itself, of every step.
LEMMA HarmlessStep ==
  ASSUME PackageTypeOK, CreateKnows, HarmInv, NEW k \in Creators, CreateStep(k), ~create[k].stale
  PROVE  /\ Valid(config) => Valid(config)'
         /\ \A t \in Tasks : package[t] # None /\ package[t].author # k =>
                               package'[t] = package[t]
<1>1. PackageTypeOK'
  BY CreateTyped
<1>2. Adds
  BY CreateAdds, RegisterAdds
<1>3. Valid(config) => Valid(config)'
  BY <1>1, <1>2, AddsKeepValid DEF PackageTypeOK
<1>4. ASSUME NEW t \in Tasks, package[t] # None, package[t].author # k
      PROVE  package'[t] = package[t]
  <2>1. create[k].pc \notin {"idle", "check", "mkdir"} =>
          package[create[k].id].author = k
    BY DEF HarmInv, Harm, Wrote
  <2>2. package \in [Tasks -> Package \cup {None}]
    BY DEF PackageTypeOK
  <2>3. CASE CreateLoad(k) \/ CreateCheck(k) \/ CreateDies(k) \/ CreateRegister(k)
    BY <2>3 DEF CreateLoad, CreateCheck, CreateDies, CreateRegister
  <2>4. CASE CreateMkdir(k)
    BY <1>4, <2>2, <2>4 DEF CreateMkdir
  <2>5. CASE CreateTask(k)
    BY <1>4, <2>1, <2>2, <2>5 DEF CreateTask
  <2>6. CASE CreateFiles(k)
    BY <1>4, <2>1, <2>2, <2>6 DEF CreateFiles, CreateFile
  <2>7. QED
    BY <2>3, <2>4, <2>5, <2>6 DEF CreateStep
<1>5. QED
  BY <1>3, <1>4

-----------------------------------------------------------------------------
(* The steps of Next, and the theorems *)

\* All invariants hold in the initial states.
LEMMA StartsRight ==
  ASSUME Init
  PROVE  ToolsInv /\ ReadyInv /\ BundleInv /\ ProvedInv /\ HarmInv
<1>1. /\ \A l \in Launchers : launch[l] = IdleLaunch
      /\ \A t \in Tasks : session[t] = None /\ writer[t] = None
      /\ \A e \in Exporters : export[e] = IdleExport
      /\ \A b \in Labels : bundle[b] = None
      /\ \A k \in Creators : create[k] = IdleCreate
  BY DEF Init, PackageInit, LaunchInit, ExportInit
<1>2. ToolsInv
  BY <1>1 DEF ToolsInv, IdleLaunch
<1>3. ReadyInv
  BY <1>1 DEF ReadyInv, Reads, IdleLaunch, Passed, Planning
<1>4. BundleInv
  BY <1>1 DEF BundleInv, Writes, Alone, BundleIsHonest, Outside, IdleExport, NoPatch
<1>5. ProvedInv
  BY <1>1 DEF ProvedInv, Proves, IdleExport
<1>6. HarmInv
  BY <1>1 DEF HarmInv, Harm, IdleCreate
<1>7. QED
  BY <1>2, <1>3, <1>4, <1>5, <1>6

\* A loop's binaries, in every step.
LEMMA ToolsNext ==
  ASSUME Typed, ToolsInv, [Next]_vars
  PROVE  ToolsInv'
<1>1. ASSUME UNCHANGED <<launch, session, writer>> PROVE ToolsInv'
  BY <1>1 DEF ToolsInv, Found, build_shim
<1>2. ASSUME NEW t \in Tasks, WriterEnds(t) PROVE ToolsInv'
  <2>1. /\ UNCHANGED <<launch, session>>
        /\ \A u \in Tasks : writer'[u] # None => writer'[u] = writer[u]
    BY <1>2 DEF WriterEnds, Typed, TypeOK, LaunchTypeOK
  <2>2. QED
    BY <2>1 DEF ToolsInv, Found, build_shim
<1>3. CASE Launching
  BY <1>2, <1>3, ToolsStep DEF Launching
<1>4. CASE Creating \/ EditingPackage \/ EditingConfig \/ Changing \/ Exporting
  BY <1>1, <1>4 DEF Creating, EditingPackage, EditingConfig, Changing, Exporting
<1>5. CASE UNCHANGED vars
  BY <1>1, <1>5 DEF vars, launchVars
<1>6. QED
  BY <1>3, <1>4, <1>5 DEF Next

\* The same of the facts of a start,
LEMMA ReadyNext ==
  ASSUME Typed, ReadyInv, [Next]_vars
  PROVE  ReadyInv'
<1>1. ASSUME Observe, UNCHANGED launch PROVE ReadyInv'
  BY <1>1, ReadyFrame DEF ReadyInv
<1>2. ASSUME Observe, NEW l \in Launchers, LaunchStep(l), UNCHANGED <<package, machine>>
      PROVE  ReadyInv'
  <2>1. \A k \in Launchers : k # l => launch'[k] = launch[k]
    BY <1>2 DEF Typed, TypeOK, LaunchTypeOK, LaunchStep, LaunchIssue, LaunchValidate, LaunchLoad, LaunchLock,
         PlanTask, PlanLinks, PlanDependency, PlanSections, PlanAgents, PlanSource, PlanResolve,
         LaunchPaths, LaunchShim, LaunchSpawn, LaunchDies, Goto, Quit, Reading
  <2>2. ASSUME NEW k \in Launchers PROVE Reads(launch[k], unmet[k])'
    <3>1. CASE k = l
      BY <1>2, <3>1, ReadyStep
    <3>2. CASE k # l
      BY <1>2, <2>1, <3>2, ReadyFrame DEF ReadyInv
    <3>3. QED
      BY <3>1, <3>2
  <2>3. QED
    BY <2>2 DEF ReadyInv
<1>3. CASE Launching
  BY <1>1, <1>2, <1>3 DEF Launching, Watch, WriterEnds
<1>4. CASE Creating \/ EditingPackage \/ EditingConfig \/ Changing \/ Exporting
  BY <1>1, <1>4 DEF Creating, EditingPackage, EditingConfig, Changing, Exporting, Watch
<1>5. CASE UNCHANGED vars
  <2>1. UNCHANGED <<launch, unmet>>
    BY <1>5 DEF vars, launchVars
  <2>2. ASSUME NEW l \in Launchers PROVE Reads(launch[l], unmet[l])'
    BY <2>1 DEF ReadyInv, Reads, Pending
  <2>3. QED
    BY <2>2 DEF ReadyInv
<1>6. QED
  BY <1>3, <1>4, <1>5 DEF Next

\* of the bundles,
LEMMA BundleNext ==
  ASSUME Typed, BundleInv, [Next]_vars
  PROVE  BundleInv'
<1>1. CASE Exporting
  BY <1>1, BundleStep, BundleFrame DEF Exporting, RepoMove
<1>2. CASE Creating \/ EditingPackage \/ EditingConfig \/ Changing \/ Launching
  BY <1>2, BundleFrame DEF Creating, EditingPackage, EditingConfig, Changing, Launching
<1>3. CASE UNCHANGED vars
  BY <1>3, BundleFrame DEF vars, exportVars
<1>4. QED
  BY <1>1, <1>2, <1>3 DEF Next

\* of what an export has proved,
LEMMA ProvedNext ==
  ASSUME Typed, ProvedInv, [Next]_vars
  PROVE  ProvedInv'
<1>1. ASSUME ExportObserve, UNCHANGED export PROVE ProvedInv'
  BY <1>1, ProvedFrame DEF ProvedInv
<1>2. ASSUME ExportObserve, NEW e \in Exporters, ExportStep(e), UNCHANGED <<package, machine>>
      PROVE  ProvedInv'
  <2>1. \A f \in Exporters : f # e => export'[f] = export[f]
    BY <1>2 DEF Typed, TypeOK, ExportTypeOK, ExportStep, ExportIssue, ExportLoad, ExportReserve,
         ExportPackage, ExportPatch, ExportCopyPatch, ExportReports, ExportInspect, Inspected,
         ExportWorkspace, ExportEvidence, ExportStaged, ExportUntracked, ExportBefore, ExportDiff, ExportAfter,
         ExportInventory, ExportManifest, ExportDies, ExportGoto, ExportQuit, ExportNote
  <2>2. ASSUME NEW f \in Exporters PROVE Proves(export[f], unproved[f])'
    <3>1. CASE f = e
      BY <1>2, <3>1, ProvedStep
    <3>2. CASE f # e
      BY <1>2, <2>1, <3>2, ProvedFrame DEF ProvedInv
    <3>3. QED
      BY <3>1, <3>2
  <2>3. QED
    BY <2>2 DEF ProvedInv
<1>3. CASE Exporting
  BY <1>1, <1>2, <1>3 DEF Exporting, Watch, RepoMove
<1>4. CASE Creating \/ EditingPackage \/ EditingConfig \/ Changing \/ Launching
  BY <1>1, <1>4 DEF Creating, EditingPackage, EditingConfig, Changing, Launching, Watch
<1>5. CASE UNCHANGED vars
  BY <1>5 DEF vars, exportVars, ProvedInv, Proves, Unproven, Told
<1>6. QED
  BY <1>3, <1>4, <1>5 DEF Next

\* and of the creates.
LEMMA HarmNext ==
  ASSUME Typed, HarmInv, [Next]_vars
  PROVE  HarmInv'
<1>0. PackageTypeOK /\ CreateKnows
  BY DEF Typed, TypeOK
<1>1. ASSUME UNCHANGED <<config, package, create>> PROVE HarmInv'
  <2>1. \A k \in Creators : Harm(k)'
    BY <1>0, <1>1, AddsNothing, AddsKeepHarm
  <2>2. QED
    BY <2>1 DEF HarmInv, Harm
<1>2. CASE Creating
  BY <1>0, <1>2, HarmCreate DEF Creating
<1>3. CASE EditingPackage \/ EditingConfig
  BY <1>0, <1>3, HarmEdit DEF EditingPackage, EditingConfig
<1>4. CASE Changing \/ Launching \/ Exporting
  BY <1>1, <1>4 DEF Changing, Launching, Exporting, MachineMove
<1>5. CASE UNCHANGED vars
  BY <1>1, <1>5 DEF vars, packageVars
<1>6. QED
  BY <1>2, <1>3, <1>4, <1>5 DEF Next

-----------------------------------------------------------------------------

\* The state has its type: records of the right form, bounded moves, observers over
\* their sets.
THEOREM TypeCorrect == Spec => []TypeOK
<1>1. Typed /\ [Next]_vars => Typed'
  BY NextTyped
<1>2. Typed => TypeOK
  BY DEF Typed
<1>3. QED
  BY StartsTyped, <1>1, <1>2, PTL DEF Spec

\* Whatever becomes of PATH and the configuration, the hooks of a live writer run
\* the binaries that its start resolved (build_shim_dir, shim_env).
THEOREM LoopsRunAsLaunched == Spec => []RunsAsLaunched
<1>1. Init => Typed /\ ToolsInv
  BY StartsTyped, StartsRight
<1>2. Typed /\ ToolsInv /\ [Next]_vars => (Typed /\ ToolsInv)'
  BY NextTyped, ToolsNext
<1>3. Typed /\ ToolsInv => RunsAsLaunched
  <2> SUFFICES ASSUME Typed, ToolsInv, NEW t \in Tasks, writer[t] # None, NEW n \in SHIM_NAMES
               PROVE  Runs(n, writer[t].shim, writer[t].codex, machine.path) =
                        IF n = "codex" /\ session[t].isolated THEN session[t].codex
                        ELSE session[t].paths[n]
    BY DEF RunsAsLaunched
  <2>1. /\ session[t].paths[n] \in Places
        /\ writer[t].shim = build_shim(session[t].paths, session[t].isolated)
        /\ writer[t].codex = session[t].codex
    BY DEF ToolsInv, Found
  <2>2. session[t].paths[n] \notin {None, Launcher}
    BY <2>1, PlacesAssumption
  <2>3. QED
    BY <2>1, <2>2 DEF Runs, build_shim
<1>4. QED
  BY <1>1, <1>2, <1>3, PTL DEF Spec

\* A start spawns a writer only if each gate of `start` has found its fact true since
\* the lock was taken, however often the facts change beside it.
THEOREM StartsReady == Spec => StartsOnlyOnReadyFacts
<1> DEFINE A == \A l \in Launchers : launch[l].mode = "start" /\ LaunchSpawn(l) => unmet[l] = {}
<1>1. Init => Typed /\ ReadyInv
  BY StartsTyped, StartsRight
<1>2. Typed /\ ReadyInv /\ [Next]_vars => (Typed /\ ReadyInv)'
  BY NextTyped, ReadyNext
<1>3. ReadyInv => A
  BY DEF ReadyInv, Reads, Passed, Pending, LaunchSpawn
<1>4. QED
  BY <1>1, <1>2, <1>3, PTL DEF Spec, StartsOnlyOnReadyFacts

\* A manifest names the task.json and the diff of the directory it lies in, speaks of
\* a copied patch exactly if one lies there, and its diff applies to the index it
\* names, whoever exports beside it, works in the index or is killed.  That the patch
\* is the one whose hash it gives does not hold (VerifiedPatchIsCopied).
THEOREM BundlesAreHonest == Spec => []BundleIsHonest
<1>1. Init => Typed /\ BundleInv
  BY StartsTyped, StartsRight
<1>2. Typed /\ BundleInv /\ [Next]_vars => (Typed /\ BundleInv)'
  BY NextTyped, BundleNext
<1>3. BundleInv => BundleIsHonest
  BY DEF BundleInv
<1>4. QED
  BY <1>1, <1>2, <1>3, PTL DEF Spec

\* Each thing that a bundle called complete is made from was there at some moment of
\* the export, but for a base nobody could look for and a workspace nobody prepared,
\* both of which its manifest tells.
THEOREM CompleteBundlesAreProved == Spec => CompleteBundleIsProved
<1> DEFINE A == \A e \in Exporters : ExportManifest(e) /\ export[e].missing = {} =>
                                   unproved[e] \subseteq Told(export[e])
<1>1. Init => Typed /\ ProvedInv
  BY StartsTyped, StartsRight
<1>2. Typed /\ ProvedInv /\ [Next]_vars => (Typed /\ ProvedInv)'
  BY NextTyped, ProvedNext
<1>3. ProvedInv => A
  BY DEF ProvedInv, Proves, Unproven, ExportManifest
<1>4. QED
  BY <1>1, <1>2, <1>3, PTL DEF Spec, CompleteBundleIsProved

\* A create that no edit outdated leaves a valid configuration valid and the packages
\* of others alone, however many creates run and are killed beside it.
THEOREM CreatesAreHarmless == Spec => CreatesHarmNothing
<1> DEFINE A == \A k \in Creators : CreateStep(k) /\ ~create[k].stale =>
       /\ Valid(config) => Valid(config)'
       /\ \A t \in Tasks : package[t] # None /\ package[t].author # k =>
                             package'[t] = package[t]
<1>1. Init => Typed /\ HarmInv
  BY StartsTyped, StartsRight
<1>2. Typed /\ HarmInv /\ [Next]_vars => (Typed /\ HarmInv)'
  BY NextTyped, HarmNext
<1>3. Typed /\ HarmInv => A
  BY HarmlessStep DEF Typed, TypeOK
<1>4. QED
  BY <1>1, <1>2, <1>3, PTL DEF Spec, CreatesHarmNothing
=============================================================================
