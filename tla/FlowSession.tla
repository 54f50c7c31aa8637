----------------------------- MODULE FlowSession -----------------------------
(***************************************************************************)
(* tools/k3/humanize2.py: `k3ctl humanize2 start`, `start --resume` and    *)
(* `stop` on one task.  There is no lock: the commands meet in             *)
(* session.json and in the flows, the detached `hmz exec` processes that   *)
(* they spawn and signal.  A flow leads a process group of its own, in     *)
(* which its coding agents run, and is named by the command that spawned   *)
(* it.                                                                     *)
(***************************************************************************)
EXTENDS Naturals, FiniteSets

CONSTANTS
  Cli,         \* the commands
  MaxActive,   \* how many may run at a time
  MaxFaults,   \* how many faults: a command killed, `ps` failing for a while
  None         \* absence: no file, no value

ASSUME FlowAssumption == MaxActive \in Nat \ {0} /\ MaxFaults \in Nat

VARIABLES
  op,       \* op[c]: "start" (with or without --resume) or "stop"
  at,       \* at[c]: its program point
  crashed,  \* the commands that were killed
  faults,   \* faults so far
  ps,       \* `ps` has answered so far, fails now, or answers again
  flow,     \* flow[c]: the process c spawned
  agents,   \* agents[c]: some other process of its group lives
  ident,    \* ident[c]: c captured the identity of its flow
  session,  \* session.json
  held,     \* held[c]: the session as c loaded it
  rival,    \* a live process matches the pid in Humanize1's session.json
  settled   \* live flows recorded while no other command ran (history)

locals == << op, ident, held >>
world == << flow, agents >>
troubles == << crashed, faults, ps >>
vars == << op, at, crashed, faults, ps, flow, agents, ident, session, held,
           rival, settled >>

\* The points of a start that has found no running session.
PastCheck == {"gating", "ready", "spawned", "captured"}
Points ==
  PastCheck \cup
  { "idle", "opening", "judging", "loading", "loaded", "seen", "matched",
    "waiting", "expired", "killing", "ended", "done" }

SessionRecord == [by : Cli, state : {"running", "stopped"}, ident : BOOLEAN]

ASSUME NoSessionAssumption == None \notin SessionRecord

Init ==
  /\ op = [c \in Cli |-> None]
  /\ at = [c \in Cli |-> "idle"]
  /\ crashed = {}
  /\ faults = 0
  /\ ps = "up"
  /\ flow = [c \in Cli |-> "none"]
  /\ agents = [c \in Cli |-> FALSE]
  /\ ident = [c \in Cli |-> FALSE]
  /\ session = None
  /\ held = [c \in Cli |-> None]
  /\ rival = FALSE
  /\ settled = {}

Running(c) == at[c] \notin {"idle", "done"} /\ c \notin crashed
Active == {c \in Cli : Running(c)}

\* The flows that may be editing the tree.
Editing == {c \in Cli : flow[c] = "alive" \/ agents[c]}

\* Command c is at `from` and goes on to `to`.
Step(c, from, to) ==
  /\ at[c] = from
  /\ c \notin crashed
  /\ at' = [at EXCEPT ![c] = to]
  /\ UNCHANGED troubles

\* util.process_matches: a `ps` that fails reads like a process that has gone.
Matches(s) == s.ident /\ flow[s.by] = "alive" /\ ps # "down"

\* humanize2._session_state
SessionRunning(s) == s # None /\ s.state # "stopped" /\ Matches(s)

Begin(c) ==
  /\ at[c] = "idle"
  /\ Cardinality(Active) < MaxActive
  /\ \/ op' = [op EXCEPT ![c] = "start"] /\ at' = [at EXCEPT ![c] = "opening"]
     \/ op' = [op EXCEPT ![c] = "stop"]  /\ at' = [at EXCEPT ![c] = "loading"]
  /\ UNCHANGED << troubles, ident, held, world, session, settled >>

---------------------------------------------------------------------------
\* start

StartLoads(c) ==
  /\ Step(c, "opening", "judging")
  /\ held' = [held EXCEPT ![c] = session]
  /\ UNCHANGED << op, ident, world, session, settled >>

\* The only thing that keeps a second flow out.
StartJudges(c) ==
  /\ IF at[c] = "judging" /\ ~SessionRunning(held[c])
       THEN Step(c, "judging", "gating") ELSE Step(c, "judging", "done")
  /\ UNCHANGED << locals, world, session, settled >>

\* plan(): no spawn beside Humanize1's process, nor for reasons not modelled.
Gate(c) ==
  /\ \/ ~rival /\ Step(c, "gating", "ready")
     \/ Step(c, "gating", "done")
  /\ UNCHANGED << locals, world, session, settled >>

Spawn(c) ==
  /\ Step(c, "ready", "spawned")
  /\ flow' = [flow EXCEPT ![c] = "alive"]
  /\ UNCHANGED << locals, agents, session, settled >>

\* Popen raises: nothing was written that a reader would look at.
SpawnFails(c) ==
  /\ Step(c, "ready", "done")
  /\ UNCHANGED << locals, world, session, settled >>

\* One `ps`, fifty milliseconds after the spawn.
CaptureIdentity(c) ==
  /\ Step(c, "spawned", "captured")
  /\ ident' = [ident EXCEPT ![c] = (flow[c] = "alive" /\ ps # "down")]
  /\ UNCHANGED << op, held, world, session, settled >>

WriteSession(c) ==
  /\ Step(c, "captured", "done")
  /\ session' = [by |-> c, state |-> "running", ident |-> ident[c]]
  /\ settled' = IF ident[c] /\ ps # "down" /\ Active = {c}
                  THEN settled \cup {c} ELSE settled
  /\ UNCHANGED << locals, world >>

---------------------------------------------------------------------------
\* stop

StopLoads(c) ==
  /\ IF session # None THEN Step(c, "loading", "loaded") ELSE Step(c, "loading", "done")
  /\ held' = [held EXCEPT ![c] = session]
  /\ UNCHANGED << op, ident, world, session, settled >>

StopJudges(c) ==
  /\ IF at[c] = "loaded" /\ SessionRunning(held[c])
       THEN Step(c, "loaded", "seen") ELSE Step(c, "loaded", "done")
  /\ UNCHANGED << locals, world, session, settled >>

StopMatches(c) ==
  /\ IF at[c] = "seen" /\ Matches(held[c])
       THEN Step(c, "seen", "matched") ELSE Step(c, "seen", "done")
  /\ UNCHANGED << locals, world, session, settled >>

\* Mutation: the record first, then the signal.
MutantTerminate(c) ==
  /\ Step(c, "matched", "waiting")
  /\ session' = [held[c] EXCEPT !.state = "stopped"]
  /\ UNCHANGED << locals, world, settled >>

\* killpg with SIGTERM, which the group obeys when it likes; no error if it is gone.
Terminate(c) ==
  /\ Step(c, "matched", "waiting")
  /\ UNCHANGED << locals, world, session, settled >>

\* The poll ends: nobody has the pid any more, or the deadline passes.
PollEnds(c) ==
  /\ Step(c, "waiting", "expired")
  /\ UNCHANGED << locals, world, session, settled >>

\* Mutation: the end of the poll is taken for the end of the flow.
MutantLooksAgain(c) ==
  /\ Step(c, "expired", "ended")
  /\ UNCHANGED << locals, world, session, settled >>

\* pid_alive once more.  The pid of a flow that has gone may be in use again,
\* and no identity is asked for.
LooksAgain(c) ==
  /\ \/ Step(c, "expired", "killing")
     \/ /\ at[c] = "expired" /\ flow[held[c].by] # "alive"
        /\ Step(c, "expired", "ended")
  /\ UNCHANGED << locals, world, session, settled >>

\* Mutation: the signal that may be ignored is sent again.
MutantKill(c) ==
  /\ Step(c, "killing", "ended")
  /\ UNCHANGED << locals, world, session, settled >>

\* killpg with SIGKILL: whatever is left of the group goes.
Kill(c) ==
  /\ Step(c, "killing", "ended")
  /\ flow' = [flow EXCEPT ![held[c].by] = "gone"]
  /\ agents' = [agents EXCEPT ![held[c].by] = FALSE]
  /\ UNCHANGED << locals, session, settled >>

\* ProcessLookupError: the group went in between.  Nobody catches it here.
KillFindsNobody(c) ==
  /\ at[c] = "killing" /\ held[c].by \notin Editing
  /\ Step(c, "killing", "done")
  /\ UNCHANGED << locals, world, session, settled >>

\* The session that was loaded goes back to disk with its new state.
WriteStopped(c) ==
  /\ Step(c, "ended", "done")
  /\ session' = [held[c] EXCEPT !.state = "stopped"]
  /\ UNCHANGED << locals, world, settled >>

---------------------------------------------------------------------------
\* Faults, and the life of flows and of Humanize1's agent.

Crash(c) ==
  /\ Running(c)
  /\ faults < MaxFaults
  /\ faults' = faults + 1
  /\ crashed' = crashed \cup {c}
  /\ UNCHANGED << at, ps, locals, world, session, settled >>

\* `ps` fails, or does not answer in its ten seconds, from now on ...
PsFails ==
  /\ ps # "down"
  /\ faults < MaxFaults
  /\ faults' = faults + 1
  /\ ps' = "down"
  /\ settled' = {}
  /\ UNCHANGED << at, crashed, locals, world, session, rival >>

\* ... and answers again.
PsRecovers ==
  /\ ps = "down"
  /\ ps' = "back"
  /\ UNCHANGED << at, crashed, faults, locals, world, session, rival, settled >>

FlowExits(c) ==
  /\ flow[c] = "alive"
  /\ flow' = [flow EXCEPT ![c] = "gone"]
  /\ UNCHANGED << at, troubles, locals, agents, session, settled >>

\* A flow starts its agents; they may outlive it.
AgentsMove(c) ==
  /\ \/ flow[c] = "alive" /\ ~agents[c]
     \/ agents[c]
  /\ agents' = [agents EXCEPT ![c] = ~agents[c]]
  /\ UNCHANGED << at, troubles, locals, flow, session, settled >>

\* agent.py records a process, or that process ends.
RivalMoves ==
  /\ rival' = ~rival
  /\ UNCHANGED << at, troubles, locals, world, session, settled >>

---------------------------------------------------------------------------
StartStep(c) ==
  \/ StartLoads(c) \/ StartJudges(c) \/ Gate(c) \/ Spawn(c) \/ SpawnFails(c)
  \/ CaptureIdentity(c) \/ WriteSession(c)

StopStep(c) ==
  \/ StopLoads(c)  \/ StopJudges(c) \/ StopMatches(c) \/ Terminate(c) \/ PollEnds(c)
  \/ LooksAgain(c) \/ Kill(c)       \/ KillFindsNobody(c) \/ WriteStopped(c)

\* Everything that is Humanize2's.
CliStep(c) ==
  \/ Begin(c) \/ StartStep(c) \/ StopStep(c)
  \/ Crash(c) \/ FlowExits(c) \/ AgentsMove(c)

Next ==
  \/ (\E c \in Cli : CliStep(c)) /\ UNCHANGED rival
  \/ PsFails
  \/ PsRecovers
  \/ RivalMoves

Spec == Init /\ [][Next]_vars

\* A stop that was not killed goes on; its deadline passes.
Fairness == \A c \in Cli : WF_vars(StopStep(c) /\ UNCHANGED rival)
FairSpec == Spec /\ Fairness

---------------------------------------------------------------------------
TypeOK ==
  /\ op \in [Cli -> {"start", "stop", None}]
  /\ at \in [Cli -> Points]
  /\ crashed \subseteq Cli
  /\ faults \in 0..MaxFaults
  /\ ps \in {"up", "down", "back"}
  /\ flow \in [Cli -> {"none", "alive", "gone"}]
  /\ agents \in [Cli -> BOOLEAN]
  /\ ident \in [Cli -> BOOLEAN]
  /\ session \in SessionRecord \cup {None}
  /\ held \in [Cli -> SessionRecord \cup {None}]
  /\ rival \in BOOLEAN
  /\ settled \subseteq Cli

\* A session on record as stopped has no flow, however many commands raced to
\* write the record, whoever was killed, and whether or not `ps` answered.
StoppedFlowIsDead ==
  session # None /\ session.state = "stopped" => flow[session.by] = "gone"

\* How far the check of humanize2.start goes without a lock: once a flow was
\* recorded while no other command was under way, nothing is spawned beside it,
\* whatever starts and stops race from then on and whichever of them is killed,
\* unless `ps` fails.
NothingSpawnsBesideSettledFlow ==
  [][\A c, d \in Cli :
       flow[c] = "none" /\ flow'[c] = "alive" /\ d \in settled
         => flow[d] # "alive"]_vars

\* A stop that has signalled a flow sees its end, even of one that ignores
\* SIGTERM, unless the stop itself is killed.
SignalledFlowEnds ==
  \A c \in Cli :
    at[c] = "waiting"
      ~> (c \in crashed \/ (held[c] # None /\ flow[held[c].by] = "gone"))
===========================================================================
