---------------------------- MODULE AgentSession ----------------------------
(***************************************************************************)
(* tools/k3/agent.py: `k3ctl agent start`, `agent resume` and `agent stop` *)
(* on one task.  Each invocation is a process of its own; they meet in two *)
(* files, the task lock and session.json, and in the writers (the detached *)
(* Claude processes) that they spawn and signal.                           *)
(*                                                                         *)
(* Every file operation and every look at the process table is a step.     *)
(* The uuid of a session is the invocation that generated it, and a writer *)
(* is named by the invocation that spawned it.                             *)
(***************************************************************************)
EXTENDS Naturals, FiniteSets

CONSTANTS
  Cli,         \* the invocations
  Ops,         \* the operations they may be, a subset of AllOps
  MaxActive,   \* how many may run at a time
  MaxFaults,   \* how many faults: an invocation killed, or interrupted after
               \* its spawn, or `ps` failing for a while
  None         \* absence: no file, no value

AllOps == {"start", "resume", "stop"}

ASSUME AgentAssumption == /\ Ops \subseteq AllOps
                          /\ MaxActive \in Nat \ {0}
                          /\ MaxFaults \in Nat

VARIABLES
  op,       \* op[c]: what invocation c is
  at,       \* at[c]: its program point
  crashed,  \* the invocations that were killed
  faults,   \* faults so far
  ps,       \* `ps` has answered so far, fails now, or answers again
  writer,   \* writer[c]: the process c spawned
  ident,    \* ident[c]: c captured the identity of its writer
  lock,     \* the lock file
  session,  \* session.json
  holder,   \* holder[c]: the lock file as _acquire_task_lock read it
  peek,     \* peek[c]: the session as _acquire_task_lock read it
  held,     \* held[c]: the session as resume or stop loaded it
  loop,     \* loop[s]: the plugin's loop of Claude session s
  noted,    \* live writers that the records identify (history)
  stolen    \* a lock was unlinked while somebody relied on it (history)

files == << lock, session >>
locals == << op, ident, holder, peek, held >>
world == << writer, loop >>
history == << noted, stolen >>
troubles == << crashed, faults, ps >>
vars == << op, at, crashed, faults, ps, writer, ident, lock, session, holder, peek,
           held, loop, noted, stolen >>

LockedPoints == {"locked", "planned", "recorded", "spawned"}
Points ==
  LockedPoints \cup
  { "idle", "locking", "created", "contended", "peeking", "judging", "reclaim",
    "retry", "captured", "sessioned", "releasing", "resuming", "checking",
    "stopping", "matching", "signalling", "waiting", "exited", "timedout",
    "unlocking", "done" }

\* FileLock's record: the invocation that wrote it and the pid in it.  Between
\* os.open and os.write the file is empty.
LockRecord == [by : Cli, pid : {"empty", "cli", "writer"}]

ASSUME NoLockAssumption == None \notin LockRecord

\* session.json; a recorded pid is that of the writer of `uuid`.
SessionRecord ==
  [ uuid   : Cli,
    claude : Cli,      \* the Claude session id: the uuid of the first start
    state  : {"starting", "running", "exited", "stopped"},
    pid    : BOOLEAN,
    ident  : BOOLEAN ]

ASSUME NoSessionAssumption == None \notin SessionRecord

Init ==
  /\ op = [c \in Cli |-> None]
  /\ at = [c \in Cli |-> "idle"]
  /\ crashed = {}
  /\ faults = 0
  /\ ps = "up"
  /\ writer = [c \in Cli |-> "none"]
  /\ ident = [c \in Cli |-> FALSE]
  /\ lock = None
  /\ session = None
  /\ holder = [c \in Cli |-> None]
  /\ peek = [c \in Cli |-> None]
  /\ held = [c \in Cli |-> None]
  /\ loop = [c \in Cli |-> "none"]
  /\ noted = {}
  /\ stolen = FALSE

Running(c) == at[c] \notin {"idle", "done"} /\ c \notin crashed
Active == {c \in Cli : Running(c)}
Writers == {c \in Cli : writer[c] = "alive"}

\* The Claude session that invocation c runs its writer in.
ClaudeOf(c) == IF op[c] = "resume" THEN held[c].claude ELSE c

\* Invocation c is at `from` and goes on to `to`.
Step(c, from, to) ==
  /\ at[c] = from
  /\ c \notin crashed
  /\ at' = [at EXCEPT ![c] = to]
  /\ UNCHANGED troubles

\* util.process_matches: a complete identity on record and, if `ps` answers,
\* the same process.  A `ps` that fails reads like a process that has gone.
Matches(s) == s.pid /\ s.ident /\ writer[s.uuid] = "alive" /\ ps # "down"

\* agent._session_state.
SessionRunning(s) ==
  s # None /\ s.state \notin {"exited", "stopped"} /\ Matches(s)

\* util.pid_alive: a pid whose process has ended may be in use again.
PidAlive(record, answer) ==
  IF record.pid = "cli" THEN Running(record.by) => answer
  ELSE writer[record.by] = "alive" => answer

\* Somebody other than invocation c relies on the lock file as it stands.
LockInUse(c) ==
  /\ lock # None
  /\ writer[lock.by] = "alive" \/ (lock.by # c /\ Running(lock.by))

\* Path.unlink: whatever file has the name goes, whoever made it.
Unlink(c) ==
  /\ lock' = None
  /\ stolen' = (stolen \/ LockInUse(c))

---------------------------------------------------------------------------
\* An invocation begins.

Begin(c) ==
  /\ at[c] = "idle"
  /\ Cardinality(Active) < MaxActive
  /\ \E o \in Ops :
       /\ op' = [op EXCEPT ![c] = o]
       /\ at' = [at EXCEPT ![c] = CASE o = "start"  -> "locking"
                                    [] o = "resume" -> "resuming"
                                    [] o = "stop"   -> "stopping"]
  /\ UNCHANGED << troubles, ident, holder, peek, held, files, world, history >>

---------------------------------------------------------------------------
\* _acquire_task_lock and FileLock

\* Mutation: the lock file is opened without O_EXCL.
MutantCreateLock(c) ==
  /\ Step(c, "locking", "created") \/ Step(c, "retry", "created")
  /\ lock' = [by |-> c, pid |-> "empty"]
  /\ UNCHANGED << session, locals, world, history >>

\* os.open with O_CREAT|O_EXCL.
CreateLock(c) ==
  /\ lock = None
  /\ Step(c, "locking", "created") \/ Step(c, "retry", "created")
  /\ lock' = [by |-> c, pid |-> "empty"]
  /\ UNCHANGED << session, locals, world, history >>

\* os.write, into the file that was created even if its name has gone since.
WriteLock(c) ==
  /\ Step(c, "created", "locked")
  /\ lock' = IF lock = [by |-> c, pid |-> "empty"]
               THEN [by |-> c, pid |-> "cli"] ELSE lock
  /\ UNCHANGED << session, locals, world, history >>

LockContended(c) ==
  /\ lock # None
  /\ \/ Step(c, "locking", "contended")
     \/ Step(c, "retry", "done")         \* the second LockError is raised
  /\ UNCHANGED << files, locals, world, history >>

ReadHolder(c) ==
  /\ Step(c, "contended", "peeking")
  /\ holder' = [holder EXCEPT ![c] = lock]
  /\ UNCHANGED << op, ident, peek, held, files, world, history >>

PeekSession(c) ==
  /\ Step(c, "peeking", "judging")
  /\ peek' = [peek EXCEPT ![c] = session]
  /\ UNCHANGED << op, ident, holder, held, files, world, history >>

\* Mutation: a holder without an identity on record counts as gone.
MutantMayBeLive(c, answer) ==
  LET h == holder[c] s == peek[c] IN
  IF h # None /\ h.pid = "writer" /\ s # None /\ s.pid /\ s.uuid = h.by /\ s.ident
    THEN answer = Matches(s)
  ELSE ~answer

\* No pid in the lock: stale.  A pid with an identity on record: the identity
\* decides.  A bare pid: any process that has it counts.
MayBeLive(c, answer) ==
  LET h == holder[c] s == peek[c] IN
  IF h = None \/ h.pid = "empty" THEN ~answer
  ELSE IF h.pid = "writer" /\ s # None /\ s.pid /\ s.uuid = h.by /\ s.ident
    THEN answer = Matches(s)
  ELSE PidAlive(h, answer)

JudgeHolder(c) ==
  /\ \/ MayBeLive(c, TRUE) /\ Step(c, "judging", "done")
     \/ MayBeLive(c, FALSE) /\ Step(c, "judging", "reclaim")
  /\ holder' = [holder EXCEPT ![c] = None]
  /\ peek' = [peek EXCEPT ![c] = None]
  /\ UNCHANGED << op, ident, held, files, world, history >>

Reclaim(c) ==
  /\ Step(c, "reclaim", "retry")
  /\ Unlink(c)
  /\ UNCHANGED << session, locals, world, noted >>

---------------------------------------------------------------------------
\* start and resume, from the lock to the spawn

\* plan(): it refuses beside a running session, and for reasons not modelled.
Plan(c) ==
  /\ op[c] = "start"
  /\ ~SessionRunning(session)
  /\ Step(c, "locked", "planned")
  /\ UNCHANGED << files, locals, world, history >>

RebuildInvocation(c) ==
  /\ op[c] = "resume"
  /\ Step(c, "locked", "planned")
  /\ UNCHANGED << files, locals, world, history >>

\* Any exception inside the try block before the spawn.
FailBeforeSpawn(c) ==
  /\ \E p \in {"locked", "planned", "recorded"} : Step(c, p, "releasing")
  /\ UNCHANGED << files, locals, world, history >>

SessionOf(c, state) ==
  [ uuid |-> c, claude |-> ClaudeOf(c), state |-> state,
    pid |-> state = "running", ident |-> state = "running" /\ ident[c] ]

\* "Persist before launch so a crash still leaves an auditable record."
WriteStarting(c) ==
  /\ Step(c, "planned", "recorded")
  /\ session' = SessionOf(c, "starting")
  /\ UNCHANGED << lock, locals, world, history >>

SpawnWriter(c) ==
  /\ Step(c, "recorded", "spawned")
  /\ writer' = [writer EXCEPT ![c] = "alive"]
  /\ UNCHANGED << files, locals, loop, history >>

SpawnFails(c) ==
  /\ Step(c, "recorded", "releasing")
  /\ session' = SessionOf(c, "exited")
  /\ UNCHANGED << lock, locals, world, history >>

\* Mutation: the lock stays behind.
MutantRelease(c) ==
  /\ Step(c, "releasing", "done")
  /\ UNCHANGED << files, locals, world, history >>

\* except BaseException: lock.release().
Release(c) ==
  /\ Step(c, "releasing", "done")
  /\ Unlink(c)
  /\ UNCHANGED << session, locals, world, noted >>

\* One `ps`: no identity when the writer has ended, or when the `ps` fails.
CaptureIdentity(c) ==
  /\ Step(c, "spawned", "captured")
  /\ ident' = [ident EXCEPT ![c] = (writer[c] = "alive" /\ ps # "down")]
  /\ UNCHANGED << op, holder, peek, held, files, world, history >>

WriteRunning(c) ==
  /\ Step(c, "captured", "sessioned")
  /\ session' = SessionOf(c, "running")
  /\ noted' = IF ident[c] /\ ps # "down" THEN noted \cup {c} ELSE noted
  /\ UNCHANGED << lock, locals, world, stolen >>

\* write_json over the lock file, whoever's it is.
MarkLock(c) ==
  /\ Step(c, "sessioned", "done")
  /\ lock' = [by |-> c, pid |-> "writer"]
  /\ noted' = IF ident[c] /\ ps = "down" THEN noted ELSE noted \cup {c}
  /\ UNCHANGED << session, locals, world, stolen >>

---------------------------------------------------------------------------
\* resume, before the lock

ResumeLoads(c) ==
  /\ IF session # None /\ ~SessionRunning(session)
       THEN Step(c, "resuming", "checking") ELSE Step(c, "resuming", "done")
  /\ held' = [held EXCEPT ![c] = session]
  /\ UNCHANGED << op, ident, holder, peek, files, world, history >>

\* Mutation: any loop state will do.
MutantResumeChecksLoop(c) ==
  /\ IF at[c] = "checking" /\ loop[held[c].claude] # "none"
       THEN Step(c, "checking", "locking") ELSE Step(c, "checking", "done")
  /\ UNCHANGED << files, locals, world, history >>

ResumeChecksLoop(c) ==
  /\ IF at[c] = "checking" /\ loop[held[c].claude] = "active"
       THEN Step(c, "checking", "locking") ELSE Step(c, "checking", "done")
  /\ UNCHANGED << files, locals, world, history >>

---------------------------------------------------------------------------
\* stop

StopLoads(c) ==
  /\ IF session # None /\ session.pid
       THEN Step(c, "stopping", "matching") ELSE Step(c, "stopping", "done")
  /\ held' = [held EXCEPT ![c] = session]
  /\ UNCHANGED << op, ident, holder, peek, files, world, history >>

StopMatches(c) ==
  /\ IF at[c] = "matching" /\ Matches(held[c])
       THEN Step(c, "matching", "signalling") ELSE Step(c, "matching", "done")
  /\ UNCHANGED << files, locals, world, history >>

\* os.kill: SIGTERM, which the writer obeys when it likes; an error if it is gone.
StopSignals(c) ==
  /\ IF at[c] = "signalling" /\ writer[held[c].uuid] = "alive"
       THEN Step(c, "signalling", "waiting") ELSE Step(c, "signalling", "done")
  /\ UNCHANGED << files, locals, world, history >>

\* The polls: the writer is found gone, or the timeout passes.
StopSeesExit(c) ==
  /\ at[c] = "waiting" /\ ~Matches(held[c])
  /\ Step(c, "waiting", "exited")
  /\ UNCHANGED << files, locals, world, history >>

StopTimesOut(c) ==
  /\ Step(c, "waiting", "timedout")
  /\ UNCHANGED << files, locals, world, history >>

\* --escalate: SIGKILL, and the polls go on.
StopKills(c) ==
  /\ at[c] = "waiting" /\ writer[held[c].uuid] = "alive"
  /\ Step(c, "waiting", "waiting")
  /\ writer' = [writer EXCEPT ![held[c].uuid] = "dead"]
  /\ UNCHANGED << files, locals, loop, history >>

\* Mutation: the session is recorded as stopped whether or not it has exited.
MutantStopWritesBack(c) ==
  /\ Step(c, "exited", "unlocking") \/ Step(c, "timedout", "done")
  /\ session' = [held[c] EXCEPT !.state = "stopped"]
  /\ UNCHANGED << lock, locals, world, history >>

\* The session that was loaded goes back to disk with its new state.
StopWritesBack(c) ==
  /\ \/ /\ Step(c, "exited", "unlocking")
        /\ session' = [held[c] EXCEPT !.state = "stopped"]
     \/ /\ Step(c, "timedout", "done")
        /\ session' = [held[c] EXCEPT !.state = "running"]
  /\ UNCHANGED << lock, locals, world, history >>

StopUnlocks(c) ==
  /\ Step(c, "unlocking", "done")
  /\ Unlink(c)
  /\ UNCHANGED << session, locals, world, noted >>

---------------------------------------------------------------------------
\* Faults, and the writers' own life.

\* The invocation is killed, or interrupted where nothing catches it.
Crash(c) ==
  /\ Running(c)
  /\ faults < MaxFaults
  /\ faults' = faults + 1
  /\ crashed' = crashed \cup {c}
  /\ UNCHANGED << at, ps, files, locals, world, history >>

\* Ctrl-C after Popen and before the end of the try block: the handler for
\* "nothing was spawned" runs although something was.
InterruptAfterSpawn(c) ==
  /\ at[c] = "spawned" /\ c \notin crashed
  /\ faults < MaxFaults
  /\ faults' = faults + 1
  /\ at' = [at EXCEPT ![c] = "releasing"]
  /\ UNCHANGED << crashed, ps, files, locals, world, history >>

\* `ps` fails, or does not answer in its ten seconds, from now on ...
PsFails ==
  /\ ps # "down"
  /\ faults < MaxFaults
  /\ faults' = faults + 1
  /\ ps' = "down"
  /\ noted' = {c \in noted : ~ident[c]}
  /\ UNCHANGED << at, crashed, files, locals, world, stolen >>

\* ... and answers again.
PsRecovers ==
  /\ ps = "down"
  /\ ps' = "back"
  /\ UNCHANGED << at, crashed, faults, files, locals, world, history >>

WriterExits(c) ==
  /\ writer[c] = "alive"
  /\ writer' = [writer EXCEPT ![c] = "dead"]
  /\ UNCHANGED << at, troubles, files, locals, loop, history >>

\* The plugin's setup script, and its end_loop.
LoopMoves(c) ==
  LET s == ClaudeOf(c) IN
  /\ writer[c] = "alive"
  /\ \/ loop[s] = "none" /\ loop' = [loop EXCEPT ![s] = "active"]
     \/ loop[s] = "active" /\ loop' = [loop EXCEPT ![s] = "terminal"]
  /\ UNCHANGED << at, troubles, files, locals, writer, history >>

---------------------------------------------------------------------------
LockStep(c) ==
  \/ CreateLock(c)  \/ WriteLock(c)   \/ LockContended(c) \/ ReadHolder(c)
  \/ PeekSession(c) \/ JudgeHolder(c) \/ Reclaim(c)

LaunchStep(c) ==
  \/ Plan(c)         \/ RebuildInvocation(c) \/ FailBeforeSpawn(c)
  \/ WriteStarting(c) \/ SpawnWriter(c)      \/ SpawnFails(c) \/ Release(c)
  \/ CaptureIdentity(c) \/ WriteRunning(c)   \/ MarkLock(c)

ResumeStep(c) == ResumeLoads(c) \/ ResumeChecksLoop(c)

StopStep(c) ==
  \/ StopLoads(c)    \/ StopMatches(c) \/ StopSignals(c)    \/ StopSeesExit(c)
  \/ StopTimesOut(c) \/ StopKills(c)   \/ StopWritesBack(c) \/ StopUnlocks(c)

FaultStep(c) == Crash(c) \/ InterruptAfterSpawn(c)
WriterStep(c) == WriterExits(c) \/ LoopMoves(c)

CliStep(c) ==
  \/ Begin(c)      \/ LockStep(c)  \/ LaunchStep(c) \/ ResumeStep(c)
  \/ StopStep(c)   \/ FaultStep(c) \/ WriterStep(c)

Next ==
  \/ \E c \in Cli : CliStep(c)
  \/ PsFails
  \/ PsRecovers

Spec == Init /\ [][Next]_vars

---------------------------------------------------------------------------
TypeOK ==
  /\ op \in [Cli -> AllOps \cup {None}]
  /\ at \in [Cli -> Points]
  /\ crashed \subseteq Cli
  /\ faults \in 0..MaxFaults
  /\ ps \in {"up", "down", "back"}
  /\ writer \in [Cli -> {"none", "alive", "dead"}]
  /\ ident \in [Cli -> BOOLEAN]
  /\ lock \in LockRecord \cup {None}
  /\ session \in SessionRecord \cup {None}
  /\ holder \in [Cli -> LockRecord \cup {None}]
  /\ peek \in [Cli -> SessionRecord \cup {None}]
  /\ held \in [Cli -> SessionRecord \cup {None}]
  /\ loop \in [Cli -> {"none", "active", "terminal"}]
  /\ noted \subseteq Cli
  /\ stolen \in BOOLEAN

Spawns(c) == writer[c] = "none" /\ writer'[c] = "alive"

\* "One writer at a time", one invocation after another: nothing is spawned
\* beside a live writer that the records identify, whatever invocation died or
\* was interrupted before.  They identify it once session.json has its start
\* time and command, unless `ps` fails later, or the lock its bare pid.  (A
\* writer whose invocation died before recording it is on no record.)
NothingSpawnsBesideWriter ==
  [][\A c \in Cli : Spawns(c) => Writers \cap noted = {}]_vars

\* The lock file is the session marker: with no invocation under way and no
\* fault so far, a live writer has its session on record and holds the lock,
\* and a lock belongs to the session on record.
MarkedBy(c) ==
  /\ lock = [by |-> c, pid |-> "writer"]
  /\ session # None /\ session.uuid = c /\ session.state = "running"

LockTracksSession ==
  Active = {} /\ faults = 0 =>
    /\ \A c \in Writers : MarkedBy(c)
    /\ lock # None => MarkedBy(lock.by)

\* "A completed or cancelled loop is never restarted": whoever is about to
\* resume a Claude session resumes a loop that has not ended.
ResumesLiveLoop ==
  \A c \in Cli :
    op[c] = "resume" /\ Running(c) /\ at[c] = "recorded"
      => loop[ClaudeOf(c)] # "terminal"

ResumesLiveLoopUnlessFault == faults = 0 => ResumesLiveLoop

\* A session on record as stopped has no process, however many invocations
\* raced to write the record, as long as `ps` answers.
StoppedIsDead ==
  ps = "up" /\ session # None /\ session.state = "stopped"
    => writer[session.uuid] = "dead"

\* The lock excludes concurrent invocations as long as nobody unlinks it while
\* its owner is at work or its writer lives: at most one is between taking it
\* and giving it up or handing it to its writer ...
LockExcludes ==
  ~stolen =>
    \A c, d \in Cli :
      /\ Running(c) /\ at[c] \in LockedPoints
      /\ Running(d) /\ at[d] \in LockedPoints
      => c = d

\* ... and nothing is spawned beside a live writer.
NoSecondWriterUntilStolen ==
  [][\A c \in Cli : Spawns(c) => Writers = {} \/ stolen]_vars
===========================================================================
