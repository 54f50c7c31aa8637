----------------------------- MODULE Toolchain -----------------------------
(***************************************************************************)
(* tools/k3/toolchain.py and the PATH control of tools/k3/agent.py: what   *)
(* the offline inspection makes of a machine, and which binaries the hooks *)
(* of a loop get to run.                                                   *)
(*                                                                         *)
(* An inspection is a set of checks, each with a name, a verdict and a     *)
(* severity.  It reads the machine piece by piece: the gitlinks are read   *)
(* before the first dependency's HEAD, so the operators take the gitlinks  *)
(* as they were read and everything else as it is.  Nothing is locked: the *)
(* machine may be changed between any two reads.                           *)
(***************************************************************************)
EXTENDS TaskPackage

CONSTANTS Dependencies,   \* the submodules besides the source
          Pins,           \* configured commit of each submodule, None if none is
          Places,         \* where a command can be installed
          OldBash,        \* those of them that hold a bash before 4.0
          Movable         \* files and commands that come and go

VARIABLE machine

SOURCE == "source"
Submodules == Dependencies \cup {SOURCE}

SkillFiles == {"skill"}
KdaFiles == {"prompt", "agent_flow"}
HumanizeFiles == {"hooks", "start_command", "setup_script", "stop_hook"}
RuntimeFiles == {"pyproject", "package"}
ToolFiles == SkillFiles \cup KdaFiles \cup HumanizeFiles \cup RuntimeFiles
             \cup {"manifest", "flow", "codex_home"}
Names == {"writer", "codex", "bash", "jq"}
Commands == Names \cup {"hmz"}
SHIM_NAMES == {"codex", "bash", "jq"}

\* The reviewer's launcher: it runs whatever $KDA_REVIEWER_REAL_BIN names.
Launcher == "launcher"

ASSUME PlacesAssumption == OldBash \subseteq Places /\ {None, Launcher} \cap Places = {}
ASSUME PinsAssumption == Pins \in [Submodules -> Commits \cup {None}]
ASSUME MovableAssumption == Movable \subseteq ToolFiles \cup Commands

\* The checkouts' HEADs (None: not a checkout of its own), the gitlinks in the
\* index, dirty checkouts, files, PATH, the commits of the source repository,
\* and whether the task's workspace is prepared and its plan written.
Machine == [head: [Submodules -> Commits \cup {None}],
            link: [Submodules -> Commits \cup {None}],
            dirty: SUBSET Submodules,
            files: SUBSET ToolFiles,
            path: [Commands -> Places \cup {None}],
            commits: SUBSET Commits,
            workspace: BOOLEAN]

Check(name, status, severity) == [name |-> name, status |-> status, severity |-> severity]
Verdict(name, ok, status, severity) == IF ok THEN {} ELSE {Check(name, status, severity)}
Files(names) == UNION {Verdict(f, f \in machine.files, "missing", "error") : f \in names}

-----------------------------------------------------------------------------
(* toolchain.inspect.  Checks that find nothing wrong are left out. *)

Differ(a, b) == a # None /\ b # None /\ a # b

\* Configured commit, recorded gitlink and HEAD are compared two by two.
dependency_check(d, links) ==
  IF machine.head[d] = None THEN {Check(d, "missing", "error")}
  ELSE Verdict(d, /\ ~Differ(Pins[d], machine.head[d])
                  /\ ~Differ(links[d], machine.head[d])
                  /\ ~Differ(Pins[d], links[d]), "incompatible", "error")

\* Local modifications are reported apart and stop nothing.
dependency_dirty_check(d) ==
  Verdict(d, machine.head[d] = None \/ d \notin machine.dirty,
          "dirty", "warning")

skill_check == Files(SkillFiles)
kda_section == Files(KdaFiles)

\* Without the plugin's manifest nothing else of it is looked at.
humanize_section == IF "manifest" \in machine.files THEN Files(HumanizeFiles)
                    ELSE {Check("manifest", "missing", "error")}

\* The other runtime: without its checkout nothing else of it is looked at, and
\* its command may be missing.
humanize2_section ==
  IF ~(RuntimeFiles \subseteq machine.files)
  THEN {Check("humanize2-runtime", "missing", "error")}
  ELSE Files({"flow"})
       \cup Verdict("hmz", machine.path["hmz"] # None, "missing", "warning")

command_check(c) == Verdict(c, machine.path[c] # None, "missing", "error")
bash_check == IF machine.path["bash"] = None THEN {Check("bash", "missing", "error")}
              ELSE Verdict("bash", machine.path["bash"] \notin OldBash,
                           "incompatible", "error")
AgentChecks == bash_check \cup UNION {command_check(c) : c \in {"jq", "writer", "codex"}}

Available(base) == base \in machine.commits

\* task.json is read here once more.  A base that is not there is a warning:
\* whoever needs it looks for that himself.
source_availability(t) ==
  IF machine.head[SOURCE] = None THEN {Check("source-availability", "missing", "error")}
  ELSE Verdict("source-configured-commit",
               Pins[SOURCE] = None \/ Available(Pins[SOURCE]), "missing", "error")
       \cup IF package[t] = None \/ package[t].task = None
            THEN {Check("task-source", "incompatible", "error")}
            ELSE Verdict("task-base-commit", Available(package[t].task.base),
                         "missing", "warning")

\* What it says of the base besides: nothing, where it could not look.
task_base_available(t) ==
  IF machine.head[SOURCE] = None \/ package[t] = None \/ package[t].task = None THEN "unknown"
  ELSE IF Available(package[t].task.base) THEN "yes" ELSE "no"

Sections == skill_check \cup kda_section \cup humanize_section \cup humanize2_section

\* `doctor` and the plans fail on an error and only degrade on a warning.
StatusOf(checks) == IF \E c \in checks : c.severity = "error" THEN "failed"
                    ELSE IF checks # {} THEN "degraded" ELSE "ok"

\* The whole report, without the agents' commands (`agent_profile`).
inspect(links, t) == UNION {dependency_check(d, links) \cup dependency_dirty_check(d) :
                              d \in Submodules}
                     \cup Sections \cup source_availability(t)

\* identity: what a plan or a bundle records of the toolchain.
identity(links) == [d \in Submodules |->
                      [pin |-> Pins[d], link |-> links[d], head |-> machine.head[d]]]

-----------------------------------------------------------------------------
(* agent.py: the binaries the loop will use *)

\* resolve_toolchain_paths: what PATH gives now, and what is wrong with it.
Resolved == [n \in Names |-> IF n = "bash" /\ bash_check # {} THEN None
                             ELSE machine.path[n]]
PathProblems(isolated) ==
  {n \in Names : Resolved[n] = None}
  \cup {h \in {"codex_home"} : isolated /\ h \notin machine.files}

\* build_shim_dir: the resolved binaries under the names the hooks use.
build_shim(paths, isolated) ==
  [n \in SHIM_NAMES |-> IF paths[n] # None /\ n = "codex" /\ isolated THEN Launcher
                        ELSE paths[n]]

verify_shim(shim, paths, isolated) ==
  {n \in SHIM_NAMES : /\ paths[n] # None
                      /\ shim[n] # IF n = "codex" /\ isolated THEN Launcher ELSE paths[n]}

\* shim_env: what a hook that calls the name n runs, with the shim before PATH.
Runs(n, shim, realBin, path) == IF shim[n] = Launcher THEN realBin
                                ELSE IF shim[n] # None THEN shim[n] ELSE path[n]

-----------------------------------------------------------------------------
(* The machine is changed under the commands *)

MachineMove ==
  /\ Move
  /\ \/ \E d \in Submodules, c \in Commits \cup {None} : machine' = [machine EXCEPT !.head[d] = c]
     \/ \E d \in Submodules, c \in Commits : machine' = [machine EXCEPT !.link[d] = c]
     \/ \E d \in Submodules : machine' = [machine EXCEPT !.dirty = Flip(@, d)]
     \/ \E f \in Movable \cap ToolFiles : machine' = [machine EXCEPT !.files = Flip(@, f)]
     \/ \E n \in Movable \cap Commands, p \in Places \cup {None} : machine' = [machine EXCEPT !.path[n] = p]
     \/ \E c \in Commits : machine' = [machine EXCEPT !.commits = Flip(@, c)]
     \/ machine' = [machine EXCEPT !.workspace = ~@]
  /\ UNCHANGED <<config, package, create>>

MachineInit ==
  \E p \in Places \ OldBash :
    machine = [head |-> Pins, link |-> Pins, dirty |-> {}, files |-> ToolFiles,
               path |-> [n \in Commands |-> p], commits |-> Commits, workspace |-> TRUE]
=============================================================================
