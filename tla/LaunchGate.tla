----------------------------- MODULE LaunchGate -----------------------------
(***************************************************************************)
(* tools/k3/agent.py: the gates between `agent start` or `agent resume`    *)
(* and the writer, and the binaries the writer's hooks get to run.         *)
(*                                                                         *)
(* A command works on the configuration it loaded, takes the task's lock,  *)
(* reads the task, the machine and the PATH piece by piece while all of    *)
(* them may change, and spawns a writer.  What AgentSession models -- the  *)
(* session record, the lock's protocol, stop -- is atomic here; what is    *)
(* one "ready" bit there is spelled out here.                              *)
(***************************************************************************)
EXTENDS Toolchain

CONSTANT Launchers   \* agent commands

VARIABLES launch,    \* the commands
          lock,      \* by task: None, the command holding it, "writer" or "stale"
          session,   \* by task: what a start froze, None if there was none
          writer,    \* by task: the environment of the live writer, None without
          unmet      \* by command: what has not held yet since it took the lock
                     \* (observer, no state of the program)

launchVars == <<launch, lock, session, writer, unmet>>

Paths == [Names -> Places \cup {None}]
LaunchPoints == {"idle", "validate", "load", "lock", "task", "links", "heads", "sections",
                 "agents", "source", "resolve", "paths", "shim", "spawn"}
\* A command: what it loaded and has read, why it may not start, what it resolved.
Launch == [pc: LaunchPoints, mode: {"start", "resume"}, id: Tasks \cup {None}, loaded: Config,
           links: [Submodules -> Commits \cup {None}], todo: SUBSET Submodules,
           blocked: BOOLEAN, codex: Places \cup {None}, paths: Paths,
           shim: [SHIM_NAMES -> Places \cup {None, Launcher}], isolated: BOOLEAN]
Session == [paths: Paths, codex: Places \cup {None}, isolated: BOOLEAN]
Writer == [shim: [SHIM_NAMES -> Places \cup {None, Launcher}], codex: Places \cup {None}]

NoPaths == [n \in Names |-> None]
IdleLaunch == [pc |-> "idle", mode |-> "start", id |-> None, loaded |-> NoConfig,
               links |-> Pins, todo |-> {}, blocked |-> FALSE,
               codex |-> None, paths |-> NoPaths, shim |-> [n \in SHIM_NAMES |-> None],
               isolated |-> FALSE]

Goto(l, pc) == launch' = [launch EXCEPT ![l].pc = pc]
Quit(l) == launch' = [launch EXCEPT ![l] = IdleLaunch]
Release(l) == lock' = [lock EXCEPT ![launch[l].id] = None]

-----------------------------------------------------------------------------
(* Before the lock *)

LaunchIssue(l) ==
  /\ launch[l].pc = "idle"
  /\ \E t \in Tasks, mode \in {"start", "resume"} :
       launch' = [launch EXCEPT ![l] = [IdleLaunch EXCEPT !.pc = "validate", !.mode = mode,
                                          !.id = t, !.loaded = config]]
  /\ UNCHANGED <<lock, session, writer>>

\* Every entry of the configuration is validated, the task's own or not.
LaunchValidate(l) ==
  /\ launch[l].pc = "validate"
  /\ IF Valid(launch[l].loaded) /\ launch[l].id \in Registered(launch[l].loaded)
     THEN Goto(l, "load") ELSE Quit(l)
  /\ UNCHANGED <<lock, session, writer>>

\* Startable or absent: a package may be removed since it was validated.
Blocked(t) == package[t] = None \/ package[t].task = None
              \/ start_blockers(package[t].task) # {}

\* The gate before the lock.  A resume takes what a start froze.
LaunchLoad(l) ==
  /\ launch[l].pc = "load"
  /\ LET t == launch[l].id IN
       IF Blocked(t) THEN Quit(l)
       ELSE IF launch[l].mode = "start" THEN Goto(l, "lock")
       ELSE IF session[t] = None \/ writer[t] # None \/ ~machine.workspace THEN Quit(l)
       ELSE launch' = [launch EXCEPT ![l].pc = "lock", ![l].paths = session[t].paths,
                         ![l].codex = session[t].codex, ![l].isolated = session[t].isolated]
  /\ UNCHANGED <<lock, session, writer>>

\* A lock whose holder is dead is taken over.
LaunchLock(l) ==
  /\ launch[l].pc = "lock"
  /\ LET t == launch[l].id IN
       IF lock[t] \in {None, "stale"}
       THEN /\ lock' = [lock EXCEPT ![t] = l]
            /\ Goto(l, IF launch[l].mode = "start" THEN "task" ELSE "shim")
       ELSE Quit(l) /\ UNCHANGED lock
  /\ UNCHANGED <<session, writer>>

-----------------------------------------------------------------------------
(* The plan of a start, made under the lock.  A reason found anywhere is  *)
(* remembered and the reading goes on.                                     *)

Reading(l, pc, found, next) ==
  /\ launch[l].pc = pc
  /\ launch' = [launch EXCEPT ![l].pc = next, ![l].blocked = @ \/ found]
  /\ UNCHANGED <<lock, session, writer>>

\* Mutant: the plan relies on the gate before the lock.
MutantPlanTask(l) ==
  /\ launch[l].pc = "task"
  /\ launch' = [launch EXCEPT ![l].pc = "links", ![l].blocked = ~machine.workspace]
  /\ UNCHANGED <<lock, session, writer>>

\* The task once more: nobody held it between the first gate and the lock.
PlanTask(l) ==
  /\ launch[l].pc = "task"
  /\ IF package[launch[l].id] = None \/ package[launch[l].id].task = None
     THEN Quit(l) /\ Release(l)
     ELSE /\ launch' = [launch EXCEPT ![l].pc = "links",
                          ![l].blocked = Blocked(launch[l].id) \/ ~machine.workspace]
          /\ UNCHANGED lock
  /\ UNCHANGED <<session, writer>>

PlanLinks(l) ==
  /\ launch[l].pc = "links"
  /\ launch' = [launch EXCEPT ![l].pc = "heads", ![l].links = machine.link,
                              ![l].todo = Submodules]
  /\ UNCHANGED <<lock, session, writer>>

\* The dependencies one after the other, the source first.
PlanDependency(l) ==
  /\ launch[l].pc = "heads"
  /\ LET d == IF SOURCE \in launch[l].todo THEN SOURCE ELSE CHOOSE x \in launch[l].todo : TRUE
         found == StatusOf(dependency_check(d, launch[l].links)) = "failed"
     IN launch' = [launch EXCEPT ![l].todo = @ \ {d}, ![l].blocked = @ \/ found,
                     ![l].pc = IF launch[l].todo = {d} THEN "sections" ELSE "heads"]
  /\ UNCHANGED <<lock, session, writer>>

PlanSections(l) == Reading(l, "sections", StatusOf(Sections) = "failed", "agents")
PlanAgents(l) == Reading(l, "agents", AgentChecks # {}, "source")

\* An unavailable base is a warning of the report and a reason of the plan.
PlanSource(l) == Reading(l, "source", source_availability(launch[l].id) # {}, "resolve")

\* The reviewer's binary goes into the environment; a live session is a reason.
\* Not ready: the lock is let go.
PlanResolve(l) ==
  /\ launch[l].pc = "resolve"
  /\ IF \/ launch[l].blocked
        \/ PathProblems(launch[l].loaded.isolated) # {}
        \/ writer[launch[l].id] # None
     THEN Quit(l) /\ Release(l)
     ELSE /\ launch' = [launch EXCEPT ![l].pc = "paths", ![l].codex = Resolved["codex"]]
          /\ UNCHANGED lock
  /\ UNCHANGED <<session, writer>>

-----------------------------------------------------------------------------
(* Shim and spawn *)

\* PATH is resolved a second time for the shim.
LaunchPaths(l) ==
  /\ launch[l].pc = "paths"
  /\ IF PathProblems(launch[l].loaded.isolated) # {}
     THEN Quit(l) /\ Release(l)
     ELSE /\ launch' = [launch EXCEPT ![l].pc = "shim", ![l].paths = Resolved,
                                      ![l].isolated = launch[l].loaded.isolated]
          /\ UNCHANGED lock
  /\ UNCHANGED <<session, writer>>

\* Mutant: a resume resolves PATH as it is now.
MutantShimStep(l) ==
  /\ launch[l].pc = "shim"
  /\ launch' = [launch EXCEPT ![l].pc = "spawn",
                              ![l].shim = build_shim(Resolved, launch[l].isolated)]
  /\ UNCHANGED <<lock, session, writer>>

LaunchShim(l) ==
  /\ launch[l].pc = "shim"
  /\ LET shim == build_shim(launch[l].paths, launch[l].isolated) IN
       IF verify_shim(shim, launch[l].paths, launch[l].isolated) # {}
       THEN Quit(l) /\ Release(l)
       ELSE /\ launch' = [launch EXCEPT ![l].pc = "spawn", ![l].shim = shim]
            /\ UNCHANGED lock
  /\ UNCHANGED <<session, writer>>

\* The record, the process and the lock that is now the session's.
LaunchSpawn(l) ==
  /\ launch[l].pc = "spawn"
  /\ LET t == launch[l].id IN
       /\ writer' = [writer EXCEPT ![t] = [shim |-> launch[l].shim, codex |-> launch[l].codex]]
       /\ session' = [session EXCEPT ![t] = [paths |-> launch[l].paths,
                        codex |-> launch[l].codex, isolated |-> launch[l].isolated]]
       /\ lock' = [lock EXCEPT ![t] = "writer"]
  /\ Quit(l)

\* A killed command leaves the lock behind, and its pid in it is dead.
LaunchDies(l) ==
  /\ launch[l].pc \notin {"idle", "validate", "load"}
  /\ Move
  /\ lock' = [lock EXCEPT ![launch[l].id] = IF @ = l THEN "stale" ELSE @]
  /\ Quit(l)
  /\ UNCHANGED <<session, writer>>

\* The writer ends by itself or is stopped, which clears the lock.
WriterEnds(t) ==
  /\ writer[t] # None
  /\ writer' = [writer EXCEPT ![t] = None]
  /\ \E left \in {None, "stale"} : lock' = [lock EXCEPT ![t] = left]
  /\ UNCHANGED <<launch, session>>

LaunchStep(l) ==
  \/ /\ \/ LaunchIssue(l) \/ LaunchValidate(l) \/ LaunchLoad(l) \/ LaunchLock(l)
        \/ PlanTask(l) \/ PlanLinks(l) \/ PlanDependency(l) \/ PlanSections(l)
        \/ PlanAgents(l) \/ PlanSource(l) \/ PlanResolve(l)
        \/ LaunchPaths(l) \/ LaunchShim(l) \/ LaunchSpawn(l)
     /\ UNCHANGED moves
  \/ LaunchDies(l)

LaunchInit ==
  /\ launch = [l \in Launchers |-> IdleLaunch]
  /\ lock = [t \in Tasks |-> None]
  /\ session = [t \in Tasks |-> None]
  /\ writer = [t \in Tasks |-> None]
  /\ unmet = [l \in Launchers |-> {}]

-----------------------------------------------------------------------------
(* What must have held *)

\* One condition per gate: <<"what", "of what">>.
Conditions ==
  {<<"task", f>> : f \in {"status", "workload", "optimization"}}
  \cup {<<"base", "">>, <<"workspace", "">>}
  \cup {<<"head", d>> : d \in Submodules} \cup {<<"link", d>> : d \in Submodules}
  \cup {<<"file", f>> : f \in ToolFiles} \cup {<<"command", n>> : n \in Names}

Holds(c, t, isolated) ==
  LET task == IF package[t] = None THEN None ELSE package[t].task
  IN CASE c[1] = "task"      -> task # None /\ c[2] \notin start_blockers(task)
       [] c[1] = "base"      -> task # None /\ task.base \in machine.commits
       [] c[1] = "workspace" -> machine.workspace
       [] c[1] = "head"      -> machine.head[c[2]] # None
                                /\ Pins[c[2]] \in {None, machine.head[c[2]]}
       [] c[1] = "link"      -> None \in {Pins[c[2]], machine.link[c[2]]}
                                \/ Pins[c[2]] = machine.link[c[2]]
       [] c[1] = "file"      -> c[2] \in machine.files \/ (c[2] = "codex_home" /\ ~isolated)
       [] c[1] = "command"   -> machine.path[c[2]] # None
                                /\ (c[2] = "bash" => machine.path[c[2]] \notin OldBash)

LaunchTypeOK ==
  /\ launch \in [Launchers -> Launch]
  /\ lock \in [Tasks -> Launchers \cup {None, "writer", "stale"}]
  /\ session \in [Tasks -> Session \cup {None}]
  /\ writer \in [Tasks -> Writer \cup {None}]
  /\ unmet \in [Launchers -> SUBSET Conditions]

\* The observer: counts from the lock on.
Observe ==
  unmet' = [l \in Launchers |->
    IF launch'[l].mode = "resume" \/ launch'[l].pc \in {"idle", "validate", "load", "lock"}
    THEN {}
    ELSE {c \in (IF launch[l].pc = "lock" THEN Conditions ELSE unmet[l]) :
            ~Holds(c, launch[l].id, launch[l].loaded.isolated)'}]

\* A start spawns a writer only if every gate's condition -- the task's status,
\* workload and verdict, its base, the workspace, each pin against gitlink and
\* checkout, every file and command of the loop -- was true at some moment since
\* the start took the task's lock; an answer from before the lock, when another
\* command may have held the task, never counts.
StartsOnlyOnReadyFacts ==
  [][\A l \in Launchers : launch[l].mode = "start" /\ LaunchSpawn(l) => unmet[l] = {}]_<<launch, lock, session, writer, moves>>

\* What PATH and the configuration say may change under a loop: the hooks of a
\* live writer keep running the binaries its start resolved and the session
\* records, resumed or not (the reviewer's behind the launcher: the binary the
\* plan resolved).
RunsAsLaunched ==
  \A t \in Tasks : writer[t] # None =>
    \A n \in SHIM_NAMES :
      Runs(n, writer[t].shim, writer[t].codex, machine.path) =
        IF n = "codex" /\ session[t].isolated THEN session[t].codex ELSE session[t].paths[n]
=============================================================================
