------------------------ MODULE AgentSession_proofs ------------------------
(***************************************************************************)
(* Proofs about AgentSession, for every number of invocations and of       *)
(* faults.  While no lock file is unlinked under somebody who relies on    *)
(* it, the task lock excludes; and a session recorded as stopped has no    *)
(* process.  What is said of whole histories -- nothing is spawned beside  *)
(* a live writer, the lock is the marker of the session, a resume is of a  *)
(* live loop -- holds of invocations one after another, MaxActive = 1.     *)
(***************************************************************************)
EXTENDS AgentSession, TLAPS, FiniteSetTheorems

\* Program points from the creation of the lock file to the return.
OwningPoints ==
  LockedPoints \cup {"created", "captured", "sessioned", "releasing"}

\* c has the task: it is on its way with the lock, or its writer lives.
Owns(c) ==
  \/ Running(c) /\ at[c] \in OwningPoints
  \/ writer[c] = "alive"

LockTypeOK ==
  /\ at \in [Cli -> Points]
  /\ writer \in [Cli -> {"none", "alive", "dead"}]
  /\ lock \in LockRecord \cup {None}
  /\ stolen \in BOOLEAN

\* Whoever has the task is named in the lock file.
OwnerHoldsLock ==
  ~stolen => \A c \in Cli : Owns(c) => lock # None /\ lock.by = c

LInv == LockTypeOK /\ OwnerHoldsLock

---------------------------------------------------------------------------
(* Helpers. *)

\* A step of c moves c and nobody else.
LEMMA StepMoves ==
  ASSUME LockTypeOK, NEW c \in Cli, NEW from \in Points, NEW to \in Points,
         Step(c, from, to)
  PROVE  /\ at' \in [Cli -> Points]
         /\ at[c] = from /\ at'[c] = to
         /\ \A d \in Cli \ {c} : at'[d] = at[d]
         /\ crashed' = crashed /\ c \notin crashed
BY DEF Step, LockTypeOK, troubles

\* Steps that touch neither the lock nor any writer keep the invariant, if the
\* invocation they move owned the task before or does not own it after.
LEMMA MoveSafe ==
  ASSUME LInv, NEW c \in Cli, NEW from \in Points, NEW to \in Points,
         Step(c, from, to), UNCHANGED << lock, writer, stolen >>,
         to \in OwningPoints => from \in OwningPoints
  PROVE  LInv'
<1>1. /\ at' \in [Cli -> Points]
      /\ at[c] = from /\ at'[c] = to
      /\ \A d \in Cli \ {c} : at'[d] = at[d]
      /\ crashed' = crashed /\ c \notin crashed
  BY StepMoves DEF LInv
<1>2. \A d \in Cli : Owns(d)' => Owns(d)
  BY <1>1 DEF Owns, Running, OwningPoints, LockedPoints
<1>3. QED
  BY <1>1, <1>2 DEF LInv, LockTypeOK, OwnerHoldsLock

\* Unlinking is safe for those who stay: if it removes a lock in use, stolen
\* becomes true; if not, the invocation that unlinks is the only possible owner.
LEMMA UnlinkSafe ==
  ASSUME LInv, NEW c \in Cli, NEW from \in Points, NEW to \in Points \ OwningPoints,
         Step(c, from, to), Unlink(c), UNCHANGED writer
  PROVE  LInv'
<1>1. /\ at' \in [Cli -> Points]
      /\ at[c] = from /\ at'[c] = to
      /\ \A d \in Cli \ {c} : at'[d] = at[d]
      /\ crashed' = crashed /\ c \notin crashed
  BY StepMoves DEF LInv
<1>2. LockTypeOK'
  BY <1>1 DEF LInv, LockTypeOK, Unlink, LockInUse, Running
<1>3. ASSUME ~stolen' PROVE \A d \in Cli : ~Owns(d)'
  <2>1. ~stolen /\ ~LockInUse(c)
    BY <1>3 DEF Unlink, LInv, LockTypeOK
  <2>2. ASSUME NEW d \in Cli, Owns(d) PROVE d = c /\ writer[d] # "alive"
    <3>1. lock # None /\ lock.by = d
      BY <2>1, <2>2 DEF LInv, OwnerHoldsLock
    <3>2. QED
      BY <2>1, <2>2, <3>1 DEF LockInUse, Owns
  <2>3. ASSUME NEW d \in Cli PROVE ~Owns(d)'
    <3>1. CASE d = c
      BY <1>1, <2>2, <3>1 DEF Owns, Running
    <3>2. CASE d # c
      BY <1>1, <2>2, <3>2 DEF Owns, Running
    <3>3. QED
      BY <3>1, <3>2
  <2>4. QED
    BY <2>3
<1>4. QED
  BY <1>2, <1>3 DEF LInv, OwnerHoldsLock

---------------------------------------------------------------------------
(* The actions. *)

\* An invocation that begins holds nothing yet, whichever operation it is.
LEMMA BeginSafe ==
  ASSUME LInv, NEW c \in Cli, Begin(c)
  PROVE  LInv'
<1>1. \E to \in {"locking", "resuming", "stopping"} : at' = [at EXCEPT ![c] = to]
  BY AgentAssumption DEF Begin, AllOps
<1>2. PICK to \in {"locking", "resuming", "stopping"} : at' = [at EXCEPT ![c] = to]
  BY <1>1
<1>3. UNCHANGED << crashed, lock, writer, stolen >>
  BY DEF Begin, files, world, history, troubles
<1>4. \A d \in Cli : Owns(d)' => Owns(d)
  BY <1>2, <1>3 DEF Owns, Running, OwningPoints, LockedPoints, LInv, LockTypeOK
<1>5. QED
  BY <1>2, <1>3, <1>4 DEF LInv, LockTypeOK, OwnerHoldsLock, Points, LockedPoints

\* The steps of _acquire_task_lock: only an O_EXCL create makes a new owner, and
\* a reclaim either removes a file nobody relies on or makes `stolen` true.
LEMMA LockStepSafe ==
  ASSUME LInv, NEW c \in Cli, LockStep(c)
  PROVE  LInv'
<1> USE DEF Points, LockedPoints
<1>1. CASE CreateLock(c)
  <2>1. PICK from \in {"locking", "retry"} : Step(c, from, "created")
    BY <1>1 DEF CreateLock
  <2>2. /\ at' \in [Cli -> Points] /\ at'[c] = "created"
        /\ \A d \in Cli \ {c} : at'[d] = at[d]
        /\ crashed' = crashed
    BY <2>1, StepMoves DEF LInv
  <2>3. lock' = [by |-> c, pid |-> "empty"] /\ UNCHANGED << writer, stolen >>
    BY <1>1 DEF CreateLock, world, history
  <2>4. lock' \in LockRecord /\ lock'.by = c
    BY <2>3 DEF LockRecord
  <2>5. ~stolen => \A d \in Cli : ~Owns(d)
    BY <1>1 DEF CreateLock, LInv, OwnerHoldsLock
  <2>6. ~stolen => \A d \in Cli \ {c} : ~Owns(d)'
    BY <2>2, <2>3, <2>5 DEF Owns, Running
  <2>7. QED
    BY <2>2, <2>3, <2>4, <2>6, NoLockAssumption DEF LInv, LockTypeOK, OwnerHoldsLock
<1>2. CASE WriteLock(c)
  <2>1. Step(c, "created", "locked")
    BY <1>2 DEF WriteLock
  <2>2. /\ at' \in [Cli -> Points] /\ at[c] = "created"
        /\ \A d \in Cli \ {c} : at'[d] = at[d]
        /\ crashed' = crashed /\ c \notin crashed
    BY <2>1, StepMoves DEF LInv
  <2>3. UNCHANGED << writer, stolen >>
    BY <1>2 DEF WriteLock, world, history
  <2>4. lock' \in LockRecord \cup {None}
        /\ (lock # None => lock' # None /\ lock'.by = lock.by)
    BY <1>2, NoLockAssumption DEF WriteLock, LInv, LockTypeOK, LockRecord
  <2>5. \A d \in Cli : Owns(d)' => Owns(d)
    BY <2>2, <2>3 DEF Owns, Running, OwningPoints
  <2>6. QED
    BY <2>2, <2>3, <2>4, <2>5 DEF LInv, LockTypeOK, OwnerHoldsLock
<1>3. CASE Reclaim(c)
  <2>1. Step(c, "reclaim", "retry") /\ Unlink(c) /\ UNCHANGED writer
    BY <1>3 DEF Reclaim, world
  <2>2. QED
    BY <2>1, UnlinkSafe DEF OwningPoints
<1>4. CASE LockContended(c) \/ ReadHolder(c) \/ PeekSession(c) \/ JudgeHolder(c)
  <2>1. UNCHANGED << lock, writer, stolen >>
    BY <1>4 DEF LockContended, ReadHolder, PeekSession, JudgeHolder, files, world,
                history
  <2>2. \/ Step(c, "locking", "contended") \/ Step(c, "retry", "done")
        \/ Step(c, "contended", "peeking") \/ Step(c, "peeking", "judging")
        \/ Step(c, "judging", "done") \/ Step(c, "judging", "reclaim")
    BY <1>4 DEF LockContended, ReadHolder, PeekSession, JudgeHolder
  <2>3. QED
    BY <2>1, <2>2, MoveSafe DEF OwningPoints
<1>5. QED
  BY <1>1, <1>2, <1>3, <1>4 DEF LockStep

\* The steps of start and resume under the lock, from the readiness check to the
\* hand-over of the lock to the writer.
LEMMA LaunchStepSafe ==
  ASSUME LInv, NEW c \in Cli, LaunchStep(c)
  PROVE  LInv'
<1> USE DEF Points, LockedPoints
<1>1. CASE SpawnWriter(c)
  <2>1. Step(c, "recorded", "spawned")
    BY <1>1 DEF SpawnWriter
  <2>2. /\ at' \in [Cli -> Points] /\ at[c] = "recorded"
        /\ \A d \in Cli \ {c} : at'[d] = at[d]
        /\ crashed' = crashed /\ c \notin crashed
    BY <2>1, StepMoves DEF LInv
  <2>3. writer' = [writer EXCEPT ![c] = "alive"] /\ UNCHANGED << lock, stolen >>
    BY <1>1 DEF SpawnWriter, files, history
  <2>4. Owns(c)
    BY <2>2 DEF Owns, Running, OwningPoints
  <2>5. \A d \in Cli \ {c} : Owns(d)' => Owns(d)
    BY <2>2, <2>3 DEF Owns, Running, LInv, LockTypeOK
  <2>6. QED
    BY <2>2, <2>3, <2>4, <2>5 DEF LInv, LockTypeOK, OwnerHoldsLock
<1>2. CASE Release(c)
  <2>1. Step(c, "releasing", "done") /\ Unlink(c) /\ UNCHANGED writer
    BY <1>2 DEF Release, world
  <2>2. QED
    BY <2>1, UnlinkSafe DEF OwningPoints
<1>3. CASE MarkLock(c)
  <2>1. Step(c, "sessioned", "done")
    BY <1>3 DEF MarkLock
  <2>2. /\ at' \in [Cli -> Points] /\ at[c] = "sessioned" /\ at'[c] = "done"
        /\ \A d \in Cli \ {c} : at'[d] = at[d]
        /\ crashed' = crashed /\ c \notin crashed
    BY <2>1, StepMoves DEF LInv
  <2>3. lock' = [by |-> c, pid |-> "writer"] /\ UNCHANGED << writer, stolen >>
    BY <1>3 DEF MarkLock, world
  <2>4. lock' \in LockRecord /\ lock'.by = c
    BY <2>3 DEF LockRecord
  <2>5. Owns(c)
    BY <2>2 DEF Owns, Running, OwningPoints
  <2>6. ~stolen => \A d \in Cli : Owns(d) => d = c
    BY <2>5 DEF LInv, OwnerHoldsLock
  <2>7. \A d \in Cli : Owns(d)' => Owns(d)
    BY <2>2, <2>3 DEF Owns, Running
  <2>8. QED
    BY <2>2, <2>3, <2>4, <2>6, <2>7, NoLockAssumption
    DEF LInv, LockTypeOK, OwnerHoldsLock
<1>4. CASE \/ Plan(c) \/ RebuildInvocation(c) \/ FailBeforeSpawn(c)
           \/ WriteStarting(c) \/ SpawnFails(c) \/ CaptureIdentity(c)
           \/ WriteRunning(c)
  <2>1. UNCHANGED << lock, writer, stolen >>
    BY <1>4 DEF Plan, RebuildInvocation, FailBeforeSpawn, WriteStarting, SpawnFails,
                CaptureIdentity, WriteRunning, files, world, history
  <2>2. \/ Step(c, "locked", "planned") \/ Step(c, "locked", "releasing")
        \/ Step(c, "planned", "releasing") \/ Step(c, "recorded", "releasing")
        \/ Step(c, "planned", "recorded") \/ Step(c, "spawned", "captured")
        \/ Step(c, "captured", "sessioned")
    BY <1>4 DEF Plan, RebuildInvocation, FailBeforeSpawn, WriteStarting, SpawnFails,
                CaptureIdentity, WriteRunning
  <2>3. QED
    BY <2>1, <2>2, MoveSafe DEF OwningPoints
<1>5. QED
  BY <1>1, <1>2, <1>3, <1>4 DEF LaunchStep

\* The steps of stop, and those of resume before it takes the lock: none of them
\* makes an owner, and the unlink at the end of stop is like any other.
LEMMA StopAndResumeSafe ==
  ASSUME LInv, NEW c \in Cli, ResumeStep(c) \/ StopStep(c)
  PROVE  LInv'
<1> USE DEF Points, LockedPoints
<1>1. CASE StopUnlocks(c)
  <2>1. Step(c, "unlocking", "done") /\ Unlink(c) /\ UNCHANGED writer
    BY <1>1 DEF StopUnlocks, world
  <2>2. QED
    BY <2>1, UnlinkSafe DEF OwningPoints
<1>2. CASE StopKills(c)
  <2>1. Step(c, "waiting", "waiting")
    BY <1>2 DEF StopKills
  <2>2. at' \in [Cli -> Points] /\ (\A d \in Cli : at'[d] = at[d]) /\ crashed' = crashed
    BY <2>1, StepMoves DEF LInv
  <2>3. writer' = [writer EXCEPT ![held[c].uuid] = "dead"]
        /\ UNCHANGED << lock, stolen >>
    BY <1>2 DEF StopKills, files, history
  <2>4. \A d \in Cli : Owns(d)' => Owns(d)
    BY <2>2, <2>3 DEF Owns, Running, LInv, LockTypeOK
  <2>5. QED
    BY <2>2, <2>3, <2>4 DEF LInv, LockTypeOK, OwnerHoldsLock
<1>3. CASE \/ ResumeStep(c) \/ StopLoads(c) \/ StopMatches(c) \/ StopSignals(c)
           \/ StopSeesExit(c) \/ StopTimesOut(c) \/ StopWritesBack(c)
  <2>1. UNCHANGED << lock, writer, stolen >>
    BY <1>3 DEF ResumeStep, ResumeLoads, ResumeChecksLoop, StopLoads, StopMatches,
       StopSignals, StopSeesExit, StopTimesOut, StopWritesBack, files, world, history
  <2>2. \/ Step(c, "resuming", "checking") \/ Step(c, "resuming", "done")
        \/ Step(c, "checking", "locking") \/ Step(c, "checking", "done")
        \/ Step(c, "stopping", "matching") \/ Step(c, "stopping", "done")
        \/ Step(c, "matching", "signalling") \/ Step(c, "matching", "done")
        \/ Step(c, "signalling", "waiting") \/ Step(c, "signalling", "done")
        \/ Step(c, "waiting", "exited") \/ Step(c, "waiting", "timedout")
        \/ Step(c, "exited", "unlocking") \/ Step(c, "timedout", "done")
    BY <1>3 DEF ResumeStep, ResumeLoads, ResumeChecksLoop, StopLoads, StopMatches,
       StopSignals, StopSeesExit, StopTimesOut, StopWritesBack
  <2>3. QED
    BY <2>1, <2>2, MoveSafe DEF OwningPoints
<1>4. QED
  BY <1>1, <1>2, <1>3 DEF StopStep

\* Faults, and what writers do by themselves: an invocation that dies leaves the
\* lock file behind, one that is interrupted goes on to its release.
LEMMA FaultSafe ==
  ASSUME LInv, NEW c \in Cli, FaultStep(c) \/ WriterStep(c)
  PROVE  LInv'
<1> USE DEF LInv, LockTypeOK, OwnerHoldsLock
<1>1. CASE Crash(c)
  BY <1>1 DEF Crash, files, world, history, Owns, Running
<1>2. CASE InterruptAfterSpawn(c)
  BY <1>2 DEF InterruptAfterSpawn, files, world, history, Owns, Running, Points,
              OwningPoints, LockedPoints
<1>3. CASE WriterExits(c)
  BY <1>3 DEF WriterExits, files, history, troubles, Owns, Running
<1>4. CASE LoopMoves(c)
  BY <1>4 DEF LoopMoves, files, history, troubles, Owns, Running
<1>5. QED
  BY <1>1, <1>2, <1>3, <1>4 DEF FaultStep, WriterStep

\* A `ps` that fails or answers again moves nobody.
LEMMA PsSafe ==
  ASSUME LInv, PsFails \/ PsRecovers
  PROVE  LInv'
BY DEF PsFails, PsRecovers, files, world, history, LInv, LockTypeOK, OwnerHoldsLock,
       Owns, Running

---------------------------------------------------------------------------
(* The theorems. *)

\* While nobody's lock file was unlinked, whoever has the task is named in it.
THEOREM LockInvariance == Spec => []LInv
<1>1. Init => LInv
  BY DEF Init, LInv, LockTypeOK, OwnerHoldsLock, Owns, Running, Points
<1>2. LInv /\ [Next]_vars => LInv'
  <2> SUFFICES ASSUME LInv, [Next]_vars PROVE LInv'
    OBVIOUS
  <2>1. CASE Next
    BY <2>1, BeginSafe, LockStepSafe, LaunchStepSafe, StopAndResumeSafe, FaultSafe,
       PsSafe
    DEF Next, CliStep
  <2>2. CASE UNCHANGED vars
    BY <2>2 DEF vars, LInv, LockTypeOK, OwnerHoldsLock, Owns, Running
  <2>3. QED
    BY <2>1, <2>2
<1>3. QED
  BY <1>1, <1>2, PTL DEF Spec

\* _acquire_task_lock serialises the invocations that need the task, unless a
\* lock file is unlinked while its owner is at work or its writer lives.
THEOREM LockIsExclusive == Spec => []LockExcludes
<1>1. LInv => LockExcludes
  BY DEF LInv, OwnerHoldsLock, LockExcludes, Owns, OwningPoints
<1>2. QED
  BY <1>1, LockInvariance, PTL

\* A writer appears in one way only.
LEMMA SpawnsBySpawning ==
  ASSUME writer \in [Cli -> {"none", "alive", "dead"}], [Next]_vars, NEW c \in Cli, Spawns(c)
  PROVE  SpawnWriter(c)
<1>1. writer' # writer
  BY DEF Spawns
<1>2. PICK d \in Cli : CliStep(d)
  BY <1>1 DEF Next, PsFails, PsRecovers, world, vars
<1>3. SpawnWriter(d) \/ StopKills(d) \/ WriterExits(d)
  BY <1>1, <1>2
  DEF CliStep, Begin, LockStep, CreateLock, WriteLock, LockContended, ReadHolder,
      PeekSession, JudgeHolder, Reclaim, LaunchStep, Plan, RebuildInvocation,
      FailBeforeSpawn, WriteStarting, SpawnFails, Release, CaptureIdentity,
      WriteRunning, MarkLock, ResumeStep, ResumeLoads, ResumeChecksLoop,
      StopStep, StopLoads, StopMatches, StopSignals, StopSeesExit, StopTimesOut,
      StopWritesBack, StopUnlocks, FaultStep, Crash, InterruptAfterSpawn,
      WriterStep, LoopMoves, world
<1>4. SpawnWriter(d) => d = c
  BY DEF SpawnWriter, Spawns
<1>5. ~StopKills(d) /\ ~WriterExits(d)
  BY DEF StopKills, WriterExits, Spawns
<1>6. QED
  BY <1>3, <1>4, <1>5

\* Under the same condition no invocation spawns a writer beside a live one,
\* whatever crashes, interrupts and failed identity captures went before.
THEOREM NoSecondWriter == Spec => NoSecondWriterUntilStolen
<1>1. LInv /\ [Next]_vars => [\A c \in Cli : Spawns(c) => Writers = {} \/ stolen]_vars
  <2> SUFFICES ASSUME LInv, Next, NEW c \in Cli, Spawns(c), ~stolen
               PROVE  Writers = {}
    OBVIOUS
  <2>1. SpawnWriter(c)
    BY SpawnsBySpawning DEF LInv, LockTypeOK
  <2>2. Owns(c)
    BY <2>1 DEF SpawnWriter, Step, Owns, Running, OwningPoints, LockedPoints
  <2>3. \A d \in Writers : d = c
    BY <2>2 DEF LInv, OwnerHoldsLock, Owns, Writers
  <2>4. c \notin Writers
    BY DEF Spawns, Writers
  <2>5. QED
    BY <2>3, <2>4
<1>2. QED
  BY <1>1, LockInvariance, PTL DEF Spec, NoSecondWriterUntilStolen

---------------------------------------------------------------------------
(* What the program points imply, however many invocations run at a time. *)

BeforeSpawn == Points \ {"spawned", "captured", "sessioned", "releasing", "done"}
Signalled == {"signalling", "waiting", "exited", "timedout"}
StopHolds == {"matching"} \cup Signalled

\* A writer appears when its invocation has come that far; a resume and a stop
\* have a session in hand; a stop that signals once saw its writer live.
Ctl(c) ==
  /\ at[c] \in BeforeSpawn => writer[c] = "none"
  /\ op[c] = "resume" /\ at[c] \notin {"idle", "resuming", "done"} => held[c] \in SessionRecord
  /\ at[c] \in StopHolds => held[c] \in SessionRecord
  /\ at[c] \in Signalled => held[c].pid /\ held[c].ident /\ writer[held[c].uuid] # "none"
  /\ at[c] = "exited" /\ ps = "up" => writer[held[c].uuid] = "dead"

Control == \A c \in Cli : Ctl(c)

IInv == TypeOK /\ Control /\ StoppedIsDead

\* Writers come once and go once.
WritersMove ==
  \A u \in Cli :
    \/ writer'[u] = writer[u]
    \/ writer[u] # "none" /\ writer'[u] = "dead"
    \/ writer[u] = "none" /\ at'[u] = "spawned"

\* What holds of an invocation that does not move.
LEMMA CtlKept ==
  ASSUME TypeOK, NEW d \in Cli, Ctl(d), WritersMove, ps' = "up" => ps = "up",
         at'[d] = at[d], op'[d] = op[d], held'[d] = held[d]
  PROVE  Ctl(d)'
<1>1. held[d] \in SessionRecord => held[d].uuid \in Cli
  BY DEF SessionRecord
<1>2. at'[d] \in BeforeSpawn => writer'[d] = "none"
  BY DEF Ctl, WritersMove, BeforeSpawn, TypeOK
<1>3. at[d] \in Signalled => held[d] \in SessionRecord
  BY DEF Ctl, StopHolds
<1>4. at[d] \in Signalled => writer'[held[d].uuid] # "none"
  BY <1>1, <1>3 DEF Ctl, WritersMove, TypeOK
<1>5. at[d] = "exited" /\ ps' = "up" => writer'[held[d].uuid] = "dead"
  BY <1>1, <1>3 DEF Ctl, WritersMove, TypeOK, Signalled
<1>6. QED
  BY <1>2, <1>3, <1>4, <1>5 DEF Ctl

\* A session on record as stopped stays dead while nobody writes another.
LEMMA StoppedKept ==
  ASSUME IInv, WritersMove, ps' = "up" => ps = "up",
         session' # session => session'.state # "stopped"
  PROVE  StoppedIsDead'
<1>1. session \in SessionRecord => session.uuid \in Cli
  BY DEF SessionRecord
<1>2. QED
  BY <1>1 DEF IInv, TypeOK, StoppedIsDead, WritersMove

\* A step that moves c alone.
LEMMA MoveControl ==
  ASSUME IInv, NEW c \in Cli, NEW to, at' = [at EXCEPT ![c] = to],
         WritersMove, ps' = "up" => ps = "up",
         \A d \in Cli \ {c} : op'[d] = op[d] /\ held'[d] = held[d],
         TypeOK', Ctl(c)',
         session' # session => session'.state # "stopped"
  PROVE  IInv'
<1>1. ASSUME NEW d \in Cli \ {c} PROVE Ctl(d)'
  <2>1. at'[d] = at[d]
    BY DEF IInv, TypeOK
  <2>2. Ctl(d) /\ TypeOK
    BY DEF IInv, Control
  <2>3. QED
    BY <2>1, <2>2, CtlKept
<1>2. StoppedIsDead'
  BY StoppedKept
<1>3. QED
  BY <1>1, <1>2 DEF IInv, Control

---------------------------------------------------------------------------
(* Types. *)

\* A record that c writes.
LEMMA SessionOfType ==
  ASSUME TypeOK, NEW c \in Cli, Ctl(c), at[c] \notin {"idle", "resuming", "done"},
         NEW state \in {"starting", "running", "exited"}
  PROVE  /\ SessionOf(c, state) \in SessionRecord
         /\ SessionOf(c, state).state = state
         /\ SessionOf(c, state).uuid = c
         /\ SessionOf(c, state).pid = (state = "running")
         /\ SessionOf(c, state).ident = (state = "running" /\ ident[c])
<1>1. ClaudeOf(c) \in Cli
  BY DEF ClaudeOf, Ctl, SessionRecord
<1>2. ident[c] \in BOOLEAN
  BY DEF TypeOK
<1>3. QED
  BY <1>1, <1>2 DEF SessionOf, SessionRecord

\* What a step of control changes, and what not.
LEMMA StepType ==
  ASSUME TypeOK, NEW c \in Cli, NEW from, NEW to \in Points, Step(c, from, to)
  PROVE  /\ at' = [at EXCEPT ![c] = to] /\ at' \in [Cli -> Points]
         /\ at[c] = from /\ at'[c] = to
         /\ UNCHANGED << crashed, faults, ps >> /\ c \notin crashed
BY DEF Step, TypeOK, troubles

\* The invariant in each step: a command begins.
LEMMA BeginControl ==
  ASSUME IInv, NEW c \in Cli, Begin(c)
  PROVE  IInv'
<1>1. PICK o \in Ops, to \in {"locking", "resuming", "stopping"} :
        /\ op' = [op EXCEPT ![c] = o] /\ at' = [at EXCEPT ![c] = to]
        /\ o = "resume" => to = "resuming"
  BY AgentAssumption DEF Begin, AllOps
<1>2. UNCHANGED << crashed, faults, ps, ident, holder, peek, held, lock, session, writer,
                   loop, noted, stolen >> /\ at[c] = "idle"
  BY DEF Begin, troubles, files, world, history
<1>3. TypeOK'
  BY <1>1, <1>2, AgentAssumption DEF IInv, TypeOK, Points
<1>4. Ctl(c)'
  BY <1>1, <1>2 DEF IInv, Control, Ctl, TypeOK, BeforeSpawn, Points, StopHolds, Signalled
<1>5. WritersMove
  BY <1>2 DEF WritersMove
<1>6. \A d \in Cli \ {c} : op'[d] = op[d] /\ held'[d] = held[d]
  BY <1>1, <1>2 DEF IInv, TypeOK
<1>7. QED
  BY <1>1, <1>2, <1>3, <1>4, <1>5, <1>6, MoveControl

\* The steps that only move their invocation and touch at most the lock, what it
\* has read of the lock, and what is history.
LEMMA QuietControl ==
  ASSUME IInv, NEW c \in Cli,
         \/ LockStep(c) \/ Plan(c) \/ RebuildInvocation(c) \/ FailBeforeSpawn(c)
         \/ Release(c) \/ CaptureIdentity(c) \/ MarkLock(c) \/ ResumeChecksLoop(c)
         \/ StopMatches(c) \/ StopSignals(c) \/ StopSeesExit(c) \/ StopTimesOut(c)
         \/ StopUnlocks(c)
  PROVE  IInv'
<1>0. UNCHANGED << op, held, session, writer, loop >>
  BY DEF LockStep, CreateLock, WriteLock, LockContended, ReadHolder, PeekSession,
     JudgeHolder, Reclaim, Plan, RebuildInvocation, FailBeforeSpawn, Release,
     CaptureIdentity, MarkLock, ResumeChecksLoop, StopMatches, StopSignals, StopSeesExit,
     StopTimesOut, StopUnlocks, files, locals, world
<1>1. PICK from \in Points, to \in Points :
        /\ Step(c, from, to)
        /\ to \in BeforeSpawn => from \in BeforeSpawn
        /\ to \in StopHolds => from \in StopHolds
        /\ to \in Signalled => from \in Signalled \/ Matches(held[c])
        /\ to = "exited" => ~Matches(held[c]) /\ from \in Signalled
        /\ from \notin {"idle", "resuming", "done"}
  <2> USE DEF Points, LockedPoints, BeforeSpawn, StopHolds, Signalled
  <2>1. CASE CreateLock(c) \/ WriteLock(c) \/ LockContended(c)
    BY <2>1 DEF CreateLock, WriteLock, LockContended
  <2>2. CASE ReadHolder(c) \/ PeekSession(c) \/ JudgeHolder(c) \/ Reclaim(c)
    <3>1. CASE ReadHolder(c) \/ PeekSession(c)
      BY <3>1 DEF ReadHolder, PeekSession
    <3>2. CASE Reclaim(c)
      BY <3>2 DEF Reclaim
    <3>3. CASE JudgeHolder(c)
      <4>1. Step(c, "judging", "done") \/ Step(c, "judging", "reclaim")
        BY <3>3 DEF JudgeHolder
      <4>2. QED
        BY <4>1
    <3>4. QED
      BY <2>2, <3>1, <3>2, <3>3
  <2>3. CASE \/ Plan(c) \/ RebuildInvocation(c) \/ FailBeforeSpawn(c)
             \/ Release(c) \/ CaptureIdentity(c) \/ MarkLock(c)
    BY <2>3 DEF Plan, RebuildInvocation, FailBeforeSpawn, Release, CaptureIdentity, MarkLock
  <2>4. CASE ResumeChecksLoop(c) \/ StopMatches(c) \/ StopSignals(c)
    BY <2>4 DEF ResumeChecksLoop, StopMatches, StopSignals
  <2>5. CASE StopSeesExit(c) \/ StopTimesOut(c) \/ StopUnlocks(c)
    BY <2>5 DEF StopSeesExit, StopTimesOut, StopUnlocks
  <2>6. QED
    BY <2>1, <2>2, <2>3, <2>4, <2>5 DEF LockStep
<1>2. /\ at' = [at EXCEPT ![c] = to] /\ at' \in [Cli -> Points]
      /\ at[c] = from /\ at'[c] = to
      /\ UNCHANGED << crashed, faults, ps >>
  BY <1>1, StepType DEF IInv
<1>3. TypeOK'
  <2>1. ident' \in [Cli -> BOOLEAN]
    BY DEF LockStep, CreateLock, WriteLock, LockContended, ReadHolder, PeekSession,
       JudgeHolder, Reclaim, Plan, RebuildInvocation, FailBeforeSpawn, Release,
       CaptureIdentity, MarkLock, ResumeChecksLoop, StopMatches, StopSignals, StopSeesExit,
       StopTimesOut, StopUnlocks, files, locals, IInv, TypeOK
  <2>5. \/ lock' = lock \/ lock' = None
        \/ \E p \in {"empty", "cli", "writer"} : lock' = [by |-> c, pid |-> p]
    BY DEF LockStep, CreateLock, WriteLock, LockContended, ReadHolder, PeekSession,
       JudgeHolder, Reclaim, Plan, RebuildInvocation, FailBeforeSpawn, Release,
       CaptureIdentity, MarkLock, ResumeChecksLoop, StopMatches, StopSignals, StopSeesExit,
       StopTimesOut, StopUnlocks, Unlink, files, locals
  <2>6. lock' \in LockRecord \cup {None}
    BY <2>5 DEF LockRecord, IInv, TypeOK
  <2>2. /\ holder' \in [Cli -> LockRecord \cup {None}]
        /\ peek' \in [Cli -> SessionRecord \cup {None}]
    BY DEF LockStep, CreateLock, WriteLock, LockContended, ReadHolder, PeekSession,
       JudgeHolder, Reclaim, Plan, RebuildInvocation, FailBeforeSpawn, Release,
       CaptureIdentity, MarkLock, ResumeChecksLoop, StopMatches, StopSignals, StopSeesExit,
       StopTimesOut, StopUnlocks, locals, IInv, TypeOK
  <2>3. noted' \subseteq Cli /\ stolen' \in BOOLEAN
    BY DEF LockStep, CreateLock, WriteLock, LockContended, ReadHolder, PeekSession,
       JudgeHolder, Reclaim, Plan, RebuildInvocation, FailBeforeSpawn, Release,
       CaptureIdentity, MarkLock, ResumeChecksLoop, StopMatches, StopSignals, StopSeesExit,
       StopTimesOut, StopUnlocks, Unlink, LockInUse, Running, history, IInv, TypeOK
  <2>4. QED
    BY <1>0, <1>2, <2>1, <2>2, <2>3, <2>6 DEF IInv, TypeOK
<1>4. Ctl(c)'
  <2>1. Ctl(c)
    BY DEF IInv, Control
  <2>2. to \in Signalled => held[c].pid /\ held[c].ident /\ writer[held[c].uuid] # "none"
    BY <1>1, <1>2, <2>1 DEF Ctl, Matches
  <2>3. to = "exited" /\ ps = "up" => writer[held[c].uuid] = "dead"
    <3>1. SUFFICES ASSUME to = "exited", ps = "up" PROVE writer[held[c].uuid] = "dead"
      OBVIOUS
    <3>2. /\ held[c] \in SessionRecord /\ held[c].pid /\ held[c].ident
          /\ writer[held[c].uuid] # "none" /\ writer[held[c].uuid] # "alive"
      BY <1>1, <1>2, <2>1, <3>1 DEF Ctl, Matches, StopHolds
    <3>3. held[c].uuid \in Cli
      BY <3>2 DEF SessionRecord
    <3>4. QED
      BY <3>2, <3>3 DEF IInv, TypeOK
  <2>4. QED
    BY <1>0, <1>1, <1>2, <2>1, <2>2, <2>3 DEF Ctl
<1>5. WritersMove
  BY <1>0 DEF WritersMove
<1>6. QED
  BY <1>0, <1>2, <1>3, <1>4, <1>5, MoveControl

\* Loads the session.
LEMMA LoadControl ==
  ASSUME IInv, NEW c \in Cli, ResumeLoads(c) \/ StopLoads(c)
  PROVE  IInv'
<1>1. PICK to \in {"checking", "matching", "done"} :
        /\ at[c] \in {"resuming", "stopping"} /\ Step(c, at[c], to)
        /\ to # "done" => session # None
  BY DEF ResumeLoads, StopLoads, Step
<1>2. /\ held' = [held EXCEPT ![c] = session]
      /\ UNCHANGED << op, ident, holder, peek, lock, session, writer, loop, noted, stolen >>
  BY DEF ResumeLoads, StopLoads, files, world, history
<1>3. to \in Points
  BY DEF Points
<1>4. /\ at' = [at EXCEPT ![c] = to] /\ at' \in [Cli -> Points] /\ at'[c] = to
      /\ UNCHANGED << crashed, faults, ps >>
  BY <1>1, <1>3, StepType DEF IInv
<1>5. TypeOK'
  BY <1>2, <1>4 DEF IInv, TypeOK
<1>6. Ctl(c)'
  BY <1>1, <1>2, <1>4 DEF IInv, TypeOK, Control, Ctl, BeforeSpawn, Points, StopHolds, Signalled
<1>7. WritersMove /\ \A d \in Cli \ {c} : op'[d] = op[d] /\ held'[d] = held[d]
  BY <1>2 DEF WritersMove, IInv, TypeOK
<1>8. QED
  BY <1>2, <1>4, <1>5, <1>6, <1>7, MoveControl

\* Writes it.
LEMMA WriteControl ==
  ASSUME IInv, NEW c \in Cli, WriteStarting(c) \/ SpawnFails(c) \/ WriteRunning(c)
  PROVE  IInv'
<1>1. PICK to \in {"recorded", "releasing", "sessioned"}, state \in {"starting", "exited", "running"} :
        /\ at[c] \in {"planned", "recorded", "captured"} /\ Step(c, at[c], to)
        /\ to = "recorded" => at[c] \in BeforeSpawn
        /\ session' = SessionOf(c, state)
  BY DEF WriteStarting, SpawnFails, WriteRunning, Step, BeforeSpawn, Points, LockedPoints
<1>2. UNCHANGED << op, held, ident, holder, peek, lock, writer, loop, stolen >>
  BY DEF WriteStarting, SpawnFails, WriteRunning, locals, world, history
<1>3. to \in Points
  BY DEF Points, LockedPoints
<1>4. /\ at' = [at EXCEPT ![c] = to] /\ at' \in [Cli -> Points] /\ at'[c] = to
      /\ UNCHANGED << crashed, faults, ps >>
  BY <1>1, <1>3, StepType DEF IInv
<1>5. session' \in SessionRecord /\ session'.state # "stopped"
  BY <1>1, SessionOfType DEF IInv, Control
<1>6. noted' \subseteq Cli
  BY DEF WriteStarting, SpawnFails, WriteRunning, history, IInv, TypeOK
<1>7. TypeOK'
  BY <1>2, <1>4, <1>5, <1>6 DEF IInv, TypeOK
<1>8. Ctl(c)'
  BY <1>1, <1>2, <1>4 DEF IInv, Control, Ctl, BeforeSpawn, StopHolds, Signalled
<1>9. WritersMove
  BY <1>2 DEF WritersMove
<1>10. QED
  BY <1>2, <1>4, <1>5, <1>7, <1>8, <1>9, MoveControl

\* Spawns.
LEMMA SpawnControl ==
  ASSUME IInv, NEW c \in Cli, SpawnWriter(c)
  PROVE  IInv'
<1>1. /\ Step(c, "recorded", "spawned") /\ writer' = [writer EXCEPT ![c] = "alive"]
      /\ UNCHANGED << op, ident, holder, peek, held, lock, session, loop, noted, stolen >>
  BY DEF SpawnWriter, files, locals, history
<1>2. /\ at' = [at EXCEPT ![c] = "spawned"] /\ at' \in [Cli -> Points]
      /\ at[c] = "recorded" /\ at'[c] = "spawned"
      /\ UNCHANGED << crashed, faults, ps >>
  BY <1>1, StepType DEF IInv, Points, LockedPoints
<1>3. writer[c] = "none"
  BY <1>2 DEF IInv, Control, Ctl, BeforeSpawn, Points, LockedPoints
<1>4. TypeOK'
  BY <1>1, <1>2 DEF IInv, TypeOK
<1>5. Ctl(c)'
  BY <1>1, <1>2 DEF IInv, Control, Ctl, BeforeSpawn, StopHolds, Signalled
<1>6. WritersMove
  BY <1>1, <1>2, <1>3 DEF WritersMove, IInv, TypeOK
<1>7. QED
  BY <1>1, <1>2, <1>4, <1>5, <1>6, MoveControl

\* And a writer ends, killed or by itself.
LEMMA KillControl ==
  ASSUME IInv, NEW c \in Cli, StopKills(c) \/ WriterExits(c)
  PROVE  IInv'
<1>1. PICK u \in Cli : writer[u] = "alive" /\ writer' = [writer EXCEPT ![u] = "dead"]
  <2>1. CASE StopKills(c)
    <3>1. held[c] \in SessionRecord
      BY <2>1 DEF StopKills, IInv, Control, Ctl, StopHolds, Signalled
    <3>2. QED
      BY <2>1, <3>1 DEF StopKills, SessionRecord
  <2>2. CASE WriterExits(c)
    BY <2>2 DEF WriterExits
  <2>3. QED
    BY <2>1, <2>2
<1>2. UNCHANGED << op, ident, holder, peek, held, lock, session, loop, noted, stolen >>
  BY DEF StopKills, WriterExits, files, locals, history
<1>3. UNCHANGED << at, crashed, faults, ps >>
  BY DEF StopKills, WriterExits, Step, troubles, IInv, TypeOK
<1>4. WritersMove
  BY <1>1 DEF WritersMove, IInv, TypeOK
<1>5. TypeOK'
  BY <1>1, <1>2, <1>3 DEF IInv, TypeOK
<1>6. Control'
  <2> SUFFICES ASSUME NEW d \in Cli PROVE Ctl(d)'
    BY DEF Control
  <2>1. Ctl(d) /\ TypeOK
    BY DEF IInv, Control
  <2>2. QED
    BY <1>2, <1>3, <1>4, <2>1, CtlKept
<1>7. StoppedIsDead'
  BY <1>2, <1>3, <1>4, StoppedKept
<1>8. QED
  BY <1>5, <1>6, <1>7 DEF IInv

\* The write-back of a stop is of a session whose writer it saw dead.
LEMMA WriteBackControl ==
  ASSUME IInv, NEW c \in Cli, StopWritesBack(c)
  PROVE  IInv'
<1>1. PICK to \in {"unlocking", "done"}, state \in {"stopped", "running"} :
        /\ at[c] \in {"exited", "timedout"} /\ Step(c, at[c], to)
        /\ session' = [held[c] EXCEPT !.state = state]
        /\ state = "stopped" => at[c] = "exited"
  BY DEF StopWritesBack, Step
<1>2. UNCHANGED << op, ident, holder, peek, held, lock, writer, loop, noted, stolen >>
  BY DEF StopWritesBack, locals, world, history
<1>3. to \in Points
  BY DEF Points
<1>4. /\ at' = [at EXCEPT ![c] = to] /\ at' \in [Cli -> Points] /\ at'[c] = to
      /\ UNCHANGED << crashed, faults, ps >>
  BY <1>1, <1>3, StepType DEF IInv
<1>5. held[c] \in SessionRecord
  BY <1>1 DEF IInv, Control, Ctl, StopHolds, Signalled
<1>6. /\ session' \in SessionRecord /\ session'.state = state
      /\ session'.uuid = held[c].uuid
  BY <1>1, <1>5 DEF SessionRecord
<1>7. TypeOK'
  BY <1>2, <1>4, <1>6 DEF IInv, TypeOK
<1>8. Control'
  <2>0. WritersMove
    BY <1>2 DEF WritersMove
  <2>1. ASSUME NEW d \in Cli \ {c} PROVE Ctl(d)'
    <3>1. at'[d] = at[d] /\ Ctl(d) /\ TypeOK
      BY <1>4 DEF IInv, TypeOK, Control
    <3>2. QED
      BY <1>2, <1>4, <2>0, <3>1, CtlKept
  <2>2. Ctl(c)'
    BY <1>1, <1>2, <1>4 DEF IInv, Control, Ctl, BeforeSpawn, Points, StopHolds, Signalled
  <2>3. QED
    BY <2>1, <2>2 DEF Control
<1>9. StoppedIsDead'
  <2>1. at[c] = "exited" /\ ps = "up" => writer[held[c].uuid] = "dead"
    BY DEF IInv, Control, Ctl
  <2>2. QED
    BY <1>1, <1>2, <1>4, <1>6, <2>1 DEF StoppedIsDead
<1>10. QED
  BY <1>7, <1>8, <1>9 DEF IInv

\* Faults, and what happens to no invocation's records.
LEMMA RestControl ==
  ASSUME IInv,
         \/ PsFails \/ PsRecovers \/ UNCHANGED vars
         \/ \E c \in Cli : Crash(c) \/ InterruptAfterSpawn(c) \/ LoopMoves(c)
  PROVE  IInv'
<1>1. /\ UNCHANGED << op, ident, holder, peek, held, lock, session, writer, stolen >>
      /\ ps' = "up" => ps = "up"
  BY DEF PsFails, PsRecovers, vars, Crash, InterruptAfterSpawn, LoopMoves, files, locals,
     world, history, troubles
<1>2. \/ at' = at
      \/ \E c \in Cli : at[c] = "spawned" /\ at' = [at EXCEPT ![c] = "releasing"]
  BY DEF PsFails, PsRecovers, vars, Crash, InterruptAfterSpawn, LoopMoves
<1>3. at' \in [Cli -> Points]
  BY <1>2 DEF IInv, TypeOK, Points
<1>4. TypeOK'
  <2>1. faults' \in 0..MaxFaults
    <3>1. MaxFaults \in Nat
      BY AgentAssumption
    <3>2. QED
      BY <3>1 DEF PsFails, PsRecovers, vars, Crash, InterruptAfterSpawn, LoopMoves, troubles,
         IInv, TypeOK
  <2>2. crashed' \subseteq Cli /\ ps' \in {"up", "down", "back"} /\ noted' \subseteq Cli
    BY DEF PsFails, PsRecovers, vars, Crash, InterruptAfterSpawn, LoopMoves, troubles, history,
       IInv, TypeOK
  <2>3. loop' \in [Cli -> {"none", "active", "terminal"}]
    BY DEF PsFails, PsRecovers, vars, Crash, InterruptAfterSpawn, LoopMoves, world,
       IInv, TypeOK
  <2>4. QED
    BY <1>1, <1>3, <2>1, <2>2, <2>3 DEF IInv, TypeOK
<1>5. WritersMove
  BY <1>1 DEF WritersMove
<1>6. Control'
  <2> SUFFICES ASSUME NEW d \in Cli PROVE Ctl(d)'
    BY DEF Control
  <2>1. Ctl(d) /\ TypeOK
    BY DEF IInv, Control
  <2>2. CASE at'[d] = at[d]
    BY <1>1, <1>5, <2>1, <2>2, CtlKept
  <2>3. CASE at'[d] # at[d]
    <3>1. at[d] = "spawned" /\ at'[d] = "releasing"
      BY <1>2, <2>3 DEF IInv, TypeOK
    <3>2. QED
      BY <1>1, <2>1, <3>1 DEF Ctl, BeforeSpawn, StopHolds, Signalled
  <2>4. QED
    BY <2>2, <2>3
<1>7. StoppedIsDead'
  BY <1>1, <1>5, StoppedKept
<1>8. QED
  BY <1>4, <1>6, <1>7 DEF IInv

\* Type and lock invariant are inductive together.
LEMMA IInvNext == IInv /\ [Next]_vars => IInv'
<1> SUFFICES ASSUME IInv, [Next]_vars PROVE IInv'
  OBVIOUS
<1>1. ASSUME NEW c \in Cli, CliStep(c) PROVE IInv'
  <2>1. CASE Begin(c) \/ LockStep(c)
    BY <2>1, BeginControl, QuietControl
  <2>2. CASE LaunchStep(c)
    BY <2>2, QuietControl, WriteControl, SpawnControl DEF LaunchStep
  <2>3. CASE ResumeStep(c) \/ StopStep(c)
    BY <2>3, QuietControl, LoadControl, KillControl, WriteBackControl DEF ResumeStep, StopStep
  <2>4. CASE FaultStep(c) \/ WriterStep(c)
    BY <2>4, KillControl, RestControl DEF FaultStep, WriterStep
  <2>5. QED
    BY <1>1, <2>1, <2>2, <2>3, <2>4 DEF CliStep
<1>2. QED
  BY <1>1, RestControl DEF Next

\* They hold at the start.
LEMMA InitIInv == Init => IInv
<1> SUFFICES ASSUME Init PROVE IInv
  OBVIOUS
<1>1. TypeOK
  <2>1. at \in [Cli -> Points]
    BY DEF Init, Points
  <2>2. faults \in 0..MaxFaults
    BY AgentAssumption DEF Init
  <2>3. QED
    BY <2>1, <2>2 DEF Init, TypeOK
<1>2. Control /\ StoppedIsDead
  BY DEF Init, Control, Ctl, StoppedIsDead, StopHolds, Signalled
<1>3. QED
  BY <1>1, <1>2 DEF IInv

\* Hence always.
LEMMA Invariance == Spec => []IInv
BY InitIInv, IInvNext, PTL DEF Spec

\* The type invariant, for any number of invocations and faults.
THEOREM TypeCorrect == Spec => []TypeOK
<1>1. IInv => TypeOK
  BY DEF IInv
<1>2. QED
  BY <1>1, Invariance, PTL

\* agent.stop: a session on record as stopped has no process, although what is
\* written back was loaded up to a timeout earlier, as long as `ps` answers.
THEOREM StoppedHasNoProcess == Spec => []StoppedIsDead
<1>1. IInv => StoppedIsDead
  BY DEF IInv
<1>2. QED
  BY <1>1, Invariance, PTL

---------------------------------------------------------------------------
(* One invocation after another (MaxActive = 1), whatever dies on the way. *)

Lone == \A c, d \in Cli : Running(c) /\ Running(d) => c = d

Mark(c) == [by |-> c, pid |-> "writer"]

\* session.json names the writer of c, as its invocation found it.
Recorded(c) ==
  /\ session # None
  /\ session.uuid = c /\ session.state = "running"
  /\ session.pid /\ session.ident = ident[c]

\* Invocation d is at no point from which it could spawn beside the writer of c
\* or lose its record.  An identity on record stops a resume before the lock and
\* a start in plan(); a bare pid stops both at the lock and a stop altogether.
Spares(c, d) ==
  /\ at[d] \notin {"planned", "recorded", "spawned", "captured", "sessioned",
                   "exited", "unlocking"}
  /\ at[d] \in StopHolds => held[d] = session
  /\ IF ident[c] THEN op[d] = "resume" => at[d] \in {"resuming", "done"}
     ELSE /\ at[d] \notin {"reclaim", "retry", "created", "locked", "releasing",
                           "signalling", "waiting", "timedout"}
          /\ at[d] \in {"peeking", "judging"} => holder[d] = lock
          /\ at[d] = "judging" => peek[d] = session

\* What a live writer that the records identify can count on.
Guarded(c) ==
  /\ Recorded(c)
  /\ IF ident[c] THEN ps # "down" ELSE lock = Mark(c)
  /\ \A d \in Cli \ {c} : Running(d) => Spares(c, d)

NotedIsGuarded ==
  \A c \in noted : /\ at[c] \in {"sessioned", "done"}
                   /\ writer[c] = "alive" => Guarded(c)

\* The part of the lock file, while nothing has gone wrong: it is the mark of a
\* live writer whose invocation has returned ...
Contends(d) ==
  /\ at[d] \notin {"reclaim", "retry", "created", "locked", "releasing"}
  /\ at[d] \in {"peeking", "judging"} => holder[d] = lock
  /\ at[d] = "judging" => peek[d] = session

Settled(c) ==
  /\ c \in noted /\ ident[c]
  /\ at[c] = "done" =>
       /\ lock = Mark(c)
       /\ \A d \in Cli \ {c} : Running(d) => Contends(d)

WritersSettle ==
  \A c \in Writers :
    at[c] = "spawned" \/ (at[c] = "captured" /\ ident[c]) \/ Settled(c)

\* ... and otherwise belongs to the session on record or to who is at work.
Tidy ==
  lock # None =>
    \/ MarkedBy(lock.by)
    \/ \E d \in Cli : Running(d) /\ at[d] \in OwningPoints \cup {"unlocking"}

\* A resume from its loading of the session to its spawn.
ResumePoints ==
  {"checking", "locking", "created", "contended", "peeking", "judging", "reclaim",
   "retry", "locked", "planned", "recorded"}

\* What the invocation at work knows: the lock is its own from the creation on,
\* what it loaded is still what is on disk, and a resume past its checks has no
\* writer beside it and a loop that goes on.
Knows(c) ==
  /\ at[c] \in OwningPoints => lock # None /\ lock.by = c
  /\ at[c] \in StopHolds => held[c] = session
  /\ op[c] = "resume" /\ at[c] \in ResumePoints =>
       /\ Writers = {}
       /\ at[c] # "checking" => loop[held[c].claude] = "active"

Orderly ==
  faults = 0 =>
    /\ ps = "up" /\ crashed = {}
    /\ WritersSettle
    /\ Tidy
    /\ \A c \in Cli : Running(c) => Knows(c)

\* Between its last two writes an invocation finds its record as it wrote it.
JustRecorded ==
  \A c \in Cli : Running(c) /\ at[c] = "sessioned" => Recorded(c)

SInv == IInv /\ Lone /\ JustRecorded /\ NotedIsGuarded /\ Orderly

OwnStep(c) ==
  \/ Begin(c) \/ LockStep(c) \/ LaunchStep(c) \/ ResumeStep(c) \/ StopStep(c) \/ FaultStep(c)

\* With nobody else running, a step of one invocation is the only thing at work.
LEMMA Alone ==
  ASSUME MaxActive = 1, IInv, Lone, NEW a \in Cli, OwnStep(a)
  PROVE  /\ \A d \in Cli : Running(d) => d = a
         /\ \A d \in Cli : Running(d)' => d = a
         /\ Begin(a) \/ Running(a)
         /\ \A d \in Cli \ {a} :
              /\ at'[d] = at[d] /\ op'[d] = op[d] /\ held'[d] = held[d]
              /\ ident'[d] = ident[d]
              /\ writer'[d] = writer[d] \/ writer'[d] = "dead"
         /\ loop' = loop
<1>1. /\ \A d \in Cli \ {a} : /\ at'[d] = at[d] /\ op'[d] = op[d] /\ held'[d] = held[d]
                              /\ ident'[d] = ident[d]
      /\ loop' = loop /\ crashed \subseteq crashed'
  <2> USE DEF IInv, TypeOK, troubles, files, locals, world, Step
  <2>1. CASE Begin(a) \/ LockStep(a)
    BY <2>1 DEF Begin, LockStep, CreateLock, WriteLock, LockContended, ReadHolder,
       PeekSession, JudgeHolder, Reclaim
  <2>2. CASE LaunchStep(a)
    BY <2>2 DEF LaunchStep, Plan, RebuildInvocation, FailBeforeSpawn, WriteStarting,
       SpawnWriter, SpawnFails, Release, CaptureIdentity, WriteRunning, MarkLock
  <2>3. CASE ResumeStep(a) \/ FaultStep(a)
    BY <2>3 DEF ResumeStep, ResumeLoads, ResumeChecksLoop, FaultStep, Crash,
       InterruptAfterSpawn
  <2>4. CASE StopStep(a)
    BY <2>4 DEF StopStep, StopLoads, StopMatches, StopSignals, StopSeesExit,
       StopTimesOut, StopKills, StopWritesBack, StopUnlocks
  <2>5. QED
    BY <2>1, <2>2, <2>3, <2>4 DEF OwnStep
<1>2. \A d \in Cli \ {a} : writer'[d] = writer[d] \/ writer'[d] = "dead"
  <2>1. SpawnWriter(a) \/ StopKills(a) \/ writer' = writer
    BY DEF OwnStep, Begin, LockStep, CreateLock, WriteLock, LockContended, ReadHolder,
          PeekSession, JudgeHolder, Reclaim, LaunchStep, Plan, RebuildInvocation,
          FailBeforeSpawn, WriteStarting, SpawnFails, Release, CaptureIdentity,
          WriteRunning, MarkLock, ResumeStep, ResumeLoads, ResumeChecksLoop,
          StopStep, StopLoads, StopMatches, StopSignals, StopSeesExit, StopTimesOut,
          StopWritesBack, StopUnlocks, FaultStep, Crash, InterruptAfterSpawn, world
  <2>2. QED
    BY <2>1 DEF SpawnWriter, StopKills, IInv, TypeOK
<1>3. Begin(a) \/ Running(a)
  BY DEF OwnStep, LockStep, CreateLock, WriteLock, LockContended, ReadHolder,
         PeekSession, JudgeHolder, Reclaim, LaunchStep, Plan, RebuildInvocation,
         FailBeforeSpawn, WriteStarting, SpawnWriter, SpawnFails, Release,
         CaptureIdentity, WriteRunning, MarkLock, ResumeStep, ResumeLoads,
         ResumeChecksLoop, StopStep, StopLoads, StopMatches, StopSignals, StopSeesExit,
         StopTimesOut, StopKills, StopWritesBack, StopUnlocks, FaultStep, Crash,
         InterruptAfterSpawn, Step, Running
<1>4. \A d \in Cli : Running(d) => d = a
  <2>1. CASE Running(a)
    BY <2>1 DEF Lone
  <2>2. CASE Begin(a)
    <3>1. SUFFICES ASSUME NEW d \in Cli, Running(d) PROVE FALSE
      OBVIOUS
    <3>2. Active = {d}
      BY <3>1 DEF Active, Lone
    <3>3. Cardinality(Active) = 1
      BY <3>2, FS_Singleton
    <3>4. QED
      BY <2>2, <3>3 DEF Begin
  <2>3. QED
    BY <1>3, <2>1, <2>2
<1>5. \A d \in Cli : Running(d)' => d = a
  BY <1>1, <1>4 DEF Running
<1>6. QED
  BY <1>1, <1>2, <1>3, <1>4, <1>5

\* What happens with no invocation's doing leaves all of them where they are.
LEMMA Elsewhere ==
  ASSUME IInv, NEW c \in Cli, WriterStep(c) \/ PsFails \/ PsRecovers
  PROVE  /\ UNCHANGED << at, crashed, op, ident, holder, peek, held, lock, session >>
         /\ \A d \in Cli : writer'[d] = writer[d] \/ writer'[d] = "dead"
         /\ \A d \in Cli : Running(d)' = Running(d)
BY DEF WriterStep, WriterExits, LoopMoves, PsFails, PsRecovers, files, locals, world,
   troubles, Running, IInv, TypeOK

\* One after another: there is never a second command under way.
LEMMA LoneNext ==
  ASSUME MaxActive = 1, IInv, Lone, [Next]_vars
  PROVE  Lone'
<1>1. CASE \E a \in Cli : OwnStep(a)
  BY <1>1, Alone DEF Lone
<1>2. CASE \E c \in Cli : WriterStep(c) \/ PsFails \/ PsRecovers
  BY <1>2, Elsewhere DEF Lone
<1>3. CASE UNCHANGED vars \/ PsFails \/ PsRecovers
  BY <1>3 DEF vars, Lone, Running, PsFails, PsRecovers
<1>4. QED
  BY <1>1, <1>2, <1>3 DEF Next, CliStep, OwnStep

---------------------------------------------------------------------------
(* A live writer on record stays guarded. *)

\* A live writer that was noted stays on record and is spared by whoever runs.
LEMMA GuardedKept ==
  ASSUME MaxActive = 1, SInv, NEW a \in Cli, OwnStep(a),
         NEW c \in noted, c # a, writer'[c] = "alive"
  PROVE  Guarded(c)'
<1>1. /\ c \in Cli /\ writer[c] = "alive" /\ ident'[c] = ident[c]
      /\ \A d \in Cli : Running(d)' => d = a
      /\ Begin(a) \/ Running(a)
  BY Alone DEF SInv, IInv, TypeOK
<1>2. /\ Recorded(c)
      /\ IF ident[c] THEN ps # "down" ELSE lock = Mark(c)
      /\ Running(a) => Spares(c, a)
  BY <1>1 DEF SInv, NotedIsGuarded, Guarded
<1>3. SUFFICES /\ Recorded(c)'
               /\ IF ident[c] THEN ps' # "down" ELSE lock' = Mark(c)
               /\ Spares(c, a)'
  BY <1>1 DEF Guarded, Mark
<1>4. TypeOK
  BY DEF SInv, IInv
<1>0. Mark(c) # None
  BY <1>1, NoLockAssumption DEF Mark, LockRecord
<1> USE DEF TypeOK, StopHolds, Signalled, troubles, files, locals
<1>5. CASE Begin(a)
  <2>1. PICK o \in Ops, to \in {"locking", "resuming", "stopping"} :
          /\ op' = [op EXCEPT ![a] = o] /\ at' = [at EXCEPT ![a] = to]
          /\ o = "resume" => to = "resuming"
    BY <1>5, AgentAssumption DEF Begin, AllOps
  <2>2. op'[a] = o /\ at'[a] = to
    BY <1>4, <2>1
  <2>3. UNCHANGED << ps, session, lock >>
    BY <1>5 DEF Begin
  <2>4. QED
    BY <1>1, <1>2, <2>1, <2>2, <2>3 DEF Recorded, Spares
<1>6. ASSUME Running(a), Spares(c, a), LockStep(a)
      PROVE  Recorded(c)' /\ (IF ident[c] THEN ps' # "down" ELSE lock' = Mark(c)) /\ Spares(c, a)'
  <2>1. CASE CreateLock(a) \/ LockContended(a)
    <3>1. /\ at'[a] \in {"contended", "done"} \/ (ident[c] /\ at'[a] = "created")
          /\ ident[c] => op[a] # "resume"
      <4>1. at[a] \in {"locking", "retry"} /\ (ident[c] => op[a] # "resume")
        BY <1>6, <2>1 DEF CreateLock, LockContended, Step, Spares
      <4>2. at \in [Cli -> Points]
        BY <1>4
      <4>3. CASE CreateLock(a)
        BY <1>0, <1>2, <1>6, <4>1, <4>2, <4>3 DEF CreateLock, Step, Spares
      <4>4. CASE LockContended(a)
        BY <4>1, <4>2, <4>4 DEF LockContended, Step
      <4>5. QED
        BY <2>1, <4>3, <4>4
    <3>2. UNCHANGED << ps, session, op, held >> /\ (~ident[c] => lock' = lock)
      BY <1>0, <1>2, <1>4, <1>6, <2>1 DEF CreateLock, LockContended, Step
    <3>3. QED
      BY <1>1, <1>2, <3>1, <3>2 DEF Recorded, Spares
  <2>2. CASE WriteLock(a) \/ Reclaim(a)
    BY <1>1, <1>2, <1>4, <1>6, <2>2 DEF WriteLock, Reclaim, Unlink, Step, Recorded, Spares
  <2>3. CASE ReadHolder(a) \/ PeekSession(a)
    BY <1>1, <1>2, <1>4, <1>6, <2>3 DEF ReadHolder, PeekSession, Step, Recorded, Spares
  <2>4. CASE JudgeHolder(a)
    <3>1. at[a] = "judging" /\ a \notin crashed /\ UNCHANGED << ps, lock, session, op, ident, held >>
      BY <2>4 DEF JudgeHolder, Step
    <3>2. ~ident[c] => ~MayBeLive(a, FALSE)
      <4>1. SUFFICES ASSUME ~ident[c] PROVE ~MayBeLive(a, FALSE)
        OBVIOUS
      <4>2. /\ holder[a] = Mark(c) /\ peek[a] = session
            /\ session.ident = ident[c] /\ writer[c] = "alive"
        BY <1>1, <1>2, <1>6, <3>1, <4>1 DEF Spares, Recorded
      <4>3. QED
        BY <1>0, <4>1, <4>2 DEF MayBeLive, PidAlive, Mark
    <3>3. at'[a] \in {"done", "reclaim"} /\ (~ident[c] => at'[a] = "done")
      BY <1>4, <2>4, <3>2 DEF JudgeHolder, Step
    <3>4. QED
      BY <1>1, <1>2, <1>6, <3>1, <3>3 DEF Spares, Recorded
  <2>5. QED
    BY <1>6, <2>1, <2>2, <2>3, <2>4 DEF LockStep
<1>7. ASSUME Running(a), Spares(c, a), LaunchStep(a)
      PROVE  Recorded(c)' /\ (IF ident[c] THEN ps' # "down" ELSE lock' = Mark(c)) /\ Spares(c, a)'
  <2>1. at[a] \in {"locked", "releasing"} /\ ident[c] /\ op[a] # "resume"
    BY <1>1, <1>4, <1>7
    DEF Spares, LaunchStep, Plan, RebuildInvocation, FailBeforeSpawn, WriteStarting,
        SpawnWriter, SpawnFails, Release, CaptureIdentity, WriteRunning, MarkLock, Step
  <2>2. FailBeforeSpawn(a) \/ Release(a) \/ Plan(a)
    BY <1>7, <2>1
    DEF LaunchStep, RebuildInvocation, WriteStarting, SpawnWriter, SpawnFails,
        CaptureIdentity, WriteRunning, MarkLock, Step
  <2>3. SessionRunning(session)
    BY <1>1, <1>2, <2>1 DEF SessionRunning, Recorded, Matches
  <2>4. ~Plan(a)
    BY <2>3 DEF Plan
  <2>5. QED
    BY <1>1, <1>2, <1>4, <1>7, <2>1, <2>2, <2>4
    DEF FailBeforeSpawn, Release, Unlink, Step, Recorded, Spares
<1>8. ASSUME Running(a), Spares(c, a), ResumeStep(a)
      PROVE  Recorded(c)' /\ (IF ident[c] THEN ps' # "down" ELSE lock' = Mark(c)) /\ Spares(c, a)'
  <2>1. CASE ResumeLoads(a)
    <3>1. ident[c] => SessionRunning(session)
      BY <1>1, <1>2 DEF SessionRunning, Recorded, Matches
    <3>2. QED
      BY <1>1, <1>2, <1>4, <1>8, <2>1, <3>1 DEF ResumeLoads, Step, Recorded, Spares
  <2>2. CASE ResumeChecksLoop(a)
    BY <1>1, <1>2, <1>4, <1>8, <2>2 DEF ResumeChecksLoop, Step, Recorded, Spares
  <2>3. QED
    BY <1>8, <2>1, <2>2 DEF ResumeStep
<1>9. ASSUME Running(a), Spares(c, a), StopStep(a)
      PROVE  Recorded(c)' /\ (IF ident[c] THEN ps' # "down" ELSE lock' = Mark(c)) /\ Spares(c, a)'
  <2>1. CASE StopLoads(a)
    BY <1>1, <1>2, <1>4, <1>9, <2>1 DEF StopLoads, Step, Recorded, Spares
  <2>2. CASE StopMatches(a) \/ StopSignals(a) \/ StopTimesOut(a) \/ StopKills(a)
    BY <1>1, <1>2, <1>4, <1>9, <2>2
    DEF StopMatches, StopSignals, StopTimesOut, StopKills, Matches, Step, Recorded, Spares
  <2>3. ~StopSeesExit(a) /\ ~StopUnlocks(a)
    BY <1>1, <1>2, <1>4, <1>9
    DEF StopSeesExit, StopUnlocks, Matches, Step, Recorded, Spares
  <2>4. CASE StopWritesBack(a)
    <3>1. Step(a, "timedout", "done") /\ session' = [held[a] EXCEPT !.state = "running"]
      BY <1>9, <2>4 DEF StopWritesBack, Step, Spares
    <3>2. session' = session
      BY <1>2, <1>4, <1>9, <3>1 DEF Step, Spares, Recorded, SessionRecord
    <3>3. QED
      BY <1>1, <1>2, <1>4, <1>9, <2>4, <3>1, <3>2 DEF StopWritesBack, Step, Recorded, Spares
  <2>5. QED
    BY <1>9, <2>1, <2>2, <2>3, <2>4 DEF StopStep
<1>10. ASSUME Running(a), Spares(c, a), FaultStep(a)
       PROVE  Recorded(c)' /\ (IF ident[c] THEN ps' # "down" ELSE lock' = Mark(c)) /\ Spares(c, a)'
  BY <1>1, <1>2, <1>4, <1>10 DEF FaultStep, Crash, InterruptAfterSpawn, Recorded, Spares
<1>11. QED
  BY <1>1, <1>2, <1>5, <1>6, <1>7, <1>8, <1>9, <1>10 DEF OwnStep

\* A writer becomes a noted one in the hands of the invocation that spawned it.
LEMMA NotedNext ==
  ASSUME MaxActive = 1, SInv, [Next]_vars
  PROVE  NotedIsGuarded'
<1> SUFFICES ASSUME NEW c \in noted'
             PROVE  at'[c] \in {"sessioned", "done"} /\ (writer'[c] = "alive" => Guarded(c)')
  BY DEF NotedIsGuarded
<1>0. TypeOK /\ TypeOK' /\ c \in Cli /\ noted \subseteq Cli
  BY IInvNext DEF SInv, IInv, TypeOK
<1>1. ASSUME NEW a \in Cli, OwnStep(a)
      PROVE  at'[c] \in {"sessioned", "done"} /\ (writer'[c] = "alive" => Guarded(c)')
  <2>1. CASE c # a
    <3>1. c \in noted
      BY <1>0, <1>1, <2>1
      DEF OwnStep, Begin, LockStep, CreateLock, WriteLock, LockContended, ReadHolder,
          PeekSession, JudgeHolder, Reclaim, LaunchStep, Plan, RebuildInvocation,
          FailBeforeSpawn, WriteStarting, SpawnWriter, SpawnFails, Release, CaptureIdentity,
          WriteRunning, MarkLock, ResumeStep, ResumeLoads, ResumeChecksLoop,
          StopStep, StopLoads, StopMatches, StopSignals, StopSeesExit, StopTimesOut,
          StopKills, StopWritesBack, StopUnlocks, FaultStep, Crash, InterruptAfterSpawn,
          history
    <3>2. at'[c] = at[c]
      BY <1>0, <1>1, <2>1, Alone DEF SInv
    <3>3. QED
      BY <1>0, <1>1, <2>1, <3>1, <3>2, GuardedKept DEF SInv, NotedIsGuarded
  <2>2. CASE c = a
    <3>0. \A d \in Cli \ {c} : ~Running(d)'
      BY <1>1, <2>2, Alone DEF SInv
    <3>1. CASE WriteRunning(c)
      <4>1. /\ Step(c, "captured", "sessioned") /\ session' = SessionOf(c, "running")
            /\ noted' = (IF ident[c] /\ ps # "down" THEN noted \cup {c} ELSE noted)
            /\ UNCHANGED << ident, lock >>
        BY <3>1 DEF WriteRunning, locals, world
      <4>2. /\ at'[c] = "sessioned" /\ at[c] = "captured" /\ ps' = ps
        BY <1>0, <4>1 DEF Step, TypeOK, troubles
      <4>3. c \notin noted
        BY <4>2 DEF SInv, NotedIsGuarded
      <4>4. ident[c] /\ ps # "down"
        BY <4>1, <4>3
      <4>5. Ctl(c)
        BY <1>0 DEF SInv, IInv, Control
      <4>6. Recorded(c)'
        BY <1>0, <4>1, <4>2, <4>4, <4>5, SessionOfType, NoSessionAssumption DEF Recorded
      <4>7. QED
        BY <3>0, <4>1, <4>2, <4>4, <4>6 DEF Guarded
    <3>2. CASE MarkLock(c)
      <4>1. /\ Step(c, "sessioned", "done") /\ lock' = Mark(c)
            /\ noted' = (IF ident[c] /\ ps = "down" THEN noted ELSE noted \cup {c})
            /\ UNCHANGED << ident, session >>
        BY <3>2 DEF MarkLock, locals, world, Mark
      <4>2. /\ at'[c] = "done" /\ at[c] = "sessioned" /\ ps' = ps
        BY <1>0, <4>1 DEF Step, TypeOK, troubles
      <4>3. Recorded(c)
        <5>1. Running(c)
          BY <4>1, <4>2 DEF Running, Step
        <5>2. QED
          BY <1>0, <4>2, <5>1 DEF SInv, JustRecorded
      <4>4. Recorded(c)'
        BY <4>1, <4>3 DEF Recorded
      <4>5. ident[c] => c \in noted \/ ps # "down"
        BY <4>1
      <4>6. writer[c] = "alive" /\ c \in noted => Guarded(c)
        BY DEF SInv, NotedIsGuarded
      <4>7. writer' = writer
        BY <3>2 DEF MarkLock, world
      <4>8. QED
        BY <3>0, <4>1, <4>2, <4>4, <4>5, <4>6, <4>7 DEF Guarded, Mark
    <3>3. CASE ~WriteRunning(c) /\ ~MarkLock(c)
      <4>1. c \in noted
        BY <1>0, <1>1, <2>2, <3>3
        DEF OwnStep, Begin, LockStep, CreateLock, WriteLock, LockContended, ReadHolder,
            PeekSession, JudgeHolder, Reclaim, LaunchStep, Plan, RebuildInvocation,
            FailBeforeSpawn, WriteStarting, SpawnWriter, SpawnFails, Release, CaptureIdentity,
            ResumeStep, ResumeLoads, ResumeChecksLoop,
            StopStep, StopLoads, StopMatches, StopSignals, StopSeesExit, StopTimesOut,
            StopKills, StopWritesBack, StopUnlocks, FaultStep, Crash, InterruptAfterSpawn,
            history
      <4>2. at[c] \in {"sessioned", "done"}
        BY <4>1 DEF SInv, NotedIsGuarded
      <4>3. Crash(c)
        BY <1>1, <2>2, <3>3, <4>2
        DEF OwnStep, Begin, LockStep, CreateLock, WriteLock, LockContended, ReadHolder,
            PeekSession, JudgeHolder, Reclaim, LaunchStep, Plan, RebuildInvocation,
            FailBeforeSpawn, WriteStarting, SpawnWriter, SpawnFails, Release, CaptureIdentity,
            ResumeStep, ResumeLoads, ResumeChecksLoop,
            StopStep, StopLoads, StopMatches, StopSignals, StopSeesExit, StopTimesOut,
            StopKills, StopWritesBack, StopUnlocks, FaultStep, InterruptAfterSpawn, Step
      <4>4. UNCHANGED << at, ps, writer, ident, lock, session >>
        BY <4>3 DEF Crash, files, locals, world
      <4>5. writer[c] = "alive" => Guarded(c)
        BY <4>1 DEF SInv, NotedIsGuarded
      <4>6. QED
        BY <3>0, <4>2, <4>4, <4>5 DEF Guarded, Recorded, Mark
    <3>4. QED
      BY <3>1, <3>2, <3>3
  <2>3. QED
    BY <2>1, <2>2
<1>2. ASSUME NEW u \in Cli, WriterStep(u) \/ PsFails \/ PsRecovers
      PROVE  at'[c] \in {"sessioned", "done"} /\ (writer'[c] = "alive" => Guarded(c)')
  <2>1. /\ UNCHANGED << at, crashed, op, ident, holder, peek, held, lock, session >>
        /\ writer'[c] = writer[c] \/ writer'[c] = "dead"
        /\ \A d \in Cli : Running(d)' = Running(d)
    BY <1>0, <1>2, Elsewhere DEF SInv
  <2>2. /\ c \in noted
        /\ ident[c] => ps' = ps \/ ps' = "back"
    BY <1>2 DEF WriterStep, WriterExits, LoopMoves, PsFails, PsRecovers, history, troubles
  <2>3. at[c] \in {"sessioned", "done"} /\ (writer[c] = "alive" => Guarded(c))
    BY <2>2 DEF SInv, NotedIsGuarded
  <2>4. Guarded(c) => Guarded(c)'
    BY <2>1, <2>2 DEF Guarded, Recorded, Spares, Mark
  <2>5. QED
    BY <1>0, <2>1, <2>3, <2>4
<1>3. CASE UNCHANGED vars
  BY <1>3 DEF vars, SInv, NotedIsGuarded, Guarded, Recorded, Spares, Mark, Running
<1>4. QED
  BY <1>0, <1>1, <1>2, <1>3 DEF Next, CliStep, OwnStep

\* What an invocation has just recorded is what the session file says.
LEMMA JustRecordedNext ==
  ASSUME MaxActive = 1, SInv, [Next]_vars
  PROVE  JustRecorded'
<1> SUFFICES ASSUME NEW c \in Cli, Running(c)', at'[c] = "sessioned"
             PROVE  Recorded(c)'
  BY DEF JustRecorded
<1>0. TypeOK
  BY DEF SInv, IInv
<1>1. ASSUME NEW a \in Cli, OwnStep(a) PROVE Recorded(c)'
  <2>1. a = c
    BY <1>1, Alone DEF SInv
  <2>0. at \in [Cli -> Points]
    BY <1>0 DEF TypeOK
  <2>2. WriteRunning(c)
    <3>1. ~(Begin(c) \/ ResumeStep(c) \/ FaultStep(c))
      BY <2>0, AgentAssumption
      DEF Begin, AllOps, ResumeStep, ResumeLoads, ResumeChecksLoop, FaultStep, Crash,
          InterruptAfterSpawn, Step, Running
    <3>2. ~LockStep(c)
      BY <2>0 DEF LockStep, CreateLock, WriteLock, LockContended, ReadHolder, PeekSession,
         JudgeHolder, Reclaim, Step
    <3>3. ~StopStep(c)
      BY <2>0 DEF StopStep, StopLoads, StopMatches, StopSignals, StopSeesExit, StopTimesOut,
         StopKills, StopWritesBack, StopUnlocks, Step
    <3>4. LaunchStep(c) => WriteRunning(c)
      BY <2>0 DEF LaunchStep, Plan, RebuildInvocation, FailBeforeSpawn, WriteStarting,
         SpawnWriter, SpawnFails, Release, CaptureIdentity, MarkLock, Step
    <3>5. QED
      BY <1>1, <2>1, <3>1, <3>2, <3>3, <3>4 DEF OwnStep
  <2>3. /\ Ctl(c) /\ at[c] = "captured" /\ ident' = ident
        /\ session' = SessionOf(c, "running")
    BY <2>2 DEF WriteRunning, Step, locals, SInv, IInv, Control
  <2>4. QED
    <3>1. /\ session' \in SessionRecord /\ session'.uuid = c /\ session'.state = "running"
          /\ session'.pid = ("running" = "running")
          /\ session'.ident = ("running" = "running" /\ ident[c])
      BY <1>0, <2>3, SessionOfType
    <3>2. ident[c] \in BOOLEAN
      BY <1>0 DEF TypeOK
    <3>3. QED
      BY <2>3, <3>1, <3>2, NoSessionAssumption DEF Recorded
<1>2. ASSUME NEW u \in Cli, WriterStep(u) \/ PsFails \/ PsRecovers PROVE Recorded(c)'
  BY <1>2, Elsewhere DEF SInv, JustRecorded, Recorded
<1>3. CASE UNCHANGED vars
  BY <1>3 DEF vars, SInv, JustRecorded, Recorded, Running
<1>4. QED
  BY <1>1, <1>2, <1>3 DEF Next, CliStep, OwnStep

---------------------------------------------------------------------------
(* Order, while nothing goes wrong. *)

\* The steps of an invocation that goes its way.
GoodStep(a) ==
  \/ Begin(a) \/ LockStep(a) \/ LaunchStep(a) \/ ResumeStep(a) \/ StopStep(a)

\* While no fault happened: what holds before and after a step.
LEMMA GoodStepFacts ==
  ASSUME MaxActive = 1, SInv, faults = 0, NEW a \in Cli, GoodStep(a)
  PROVE  /\ OwnStep(a) /\ TypeOK
         /\ ps = "up" /\ crashed = {} /\ ps' = "up" /\ crashed' = {}
         /\ noted \subseteq noted'
         /\ WritersSettle /\ Tidy
         /\ \A c \in Cli : Running(c) => Knows(c) /\ c = a
         /\ \A c \in Cli : Running(c)' => c = a
<1>1. UNCHANGED troubles /\ noted \subseteq noted'
  BY DEF GoodStep, Begin, LockStep, CreateLock, WriteLock, LockContended, ReadHolder,
         PeekSession, JudgeHolder, Reclaim, LaunchStep, Plan, RebuildInvocation,
         FailBeforeSpawn, WriteStarting, SpawnWriter, SpawnFails, Release, CaptureIdentity,
         WriteRunning, MarkLock, ResumeStep, ResumeLoads, ResumeChecksLoop,
         StopStep, StopLoads, StopMatches, StopSignals, StopSeesExit, StopTimesOut,
         StopKills, StopWritesBack, StopUnlocks, Step, history
<1>2. OwnStep(a)
  BY DEF GoodStep, OwnStep
<1>3. QED
  BY <1>1, <1>2, Alone DEF SInv, IInv, Orderly, troubles

\* A writer between its spawn and the end of its invocation, or with the lock.
LEMMA SettleOwn ==
  ASSUME MaxActive = 1, SInv, faults = 0, NEW a \in Cli, GoodStep(a), writer'[a] = "alive"
  PROVE  \/ at'[a] = "spawned"
         \/ at'[a] = "captured" /\ ident'[a]
         \/ Settled(a)'
<1>1. /\ TypeOK /\ ps = "up" /\ WritersSettle /\ noted \subseteq noted' /\ Ctl(a)
      /\ \A d \in Cli : Running(d)' => d = a
  BY GoodStepFacts DEF SInv, IInv, Control
<1>2. CASE SpawnWriter(a)
  BY <1>1, <1>2 DEF SpawnWriter, Step, TypeOK
<1>3. CASE ~SpawnWriter(a)
  <2>1. writer[a] = "alive"
    <3>1. StopKills(a) \/ writer' = writer
      BY <1>3
      DEF GoodStep, Begin, LockStep, CreateLock, WriteLock, LockContended, ReadHolder,
          PeekSession, JudgeHolder, Reclaim, LaunchStep, Plan, RebuildInvocation,
          FailBeforeSpawn, WriteStarting, SpawnFails, Release, CaptureIdentity,
          WriteRunning, MarkLock, ResumeStep, ResumeLoads, ResumeChecksLoop,
          StopStep, StopLoads, StopMatches, StopSignals, StopSeesExit, StopTimesOut,
          StopWritesBack, StopUnlocks, world
    <3>2. QED
      BY <1>1, <3>1 DEF StopKills, TypeOK
  <2>2. at[a] = "spawned" \/ (at[a] = "captured" /\ ident[a]) \/ Settled(a)
    BY <1>1, <2>1 DEF WritersSettle, Writers
  <2>3. Settled(a) => at[a] \in {"sessioned", "done"}
    BY DEF Settled, SInv, NotedIsGuarded
  <2>4. CaptureIdentity(a) \/ WriteRunning(a) \/ MarkLock(a)
    BY <1>1, <1>3, <2>2, <2>3
    DEF GoodStep, Begin, LockStep, CreateLock, WriteLock, LockContended, ReadHolder,
        PeekSession, JudgeHolder, Reclaim, LaunchStep, Plan, RebuildInvocation,
        FailBeforeSpawn, WriteStarting, SpawnFails, Release, ResumeStep, ResumeLoads,
        ResumeChecksLoop, StopStep, StopLoads, StopMatches, StopSignals, StopSeesExit,
        StopTimesOut, StopKills, StopWritesBack, StopUnlocks, Step
  <2>5. CASE CaptureIdentity(a)
    BY <1>1, <2>1, <2>5 DEF CaptureIdentity, Step, TypeOK
  <2>6. CASE WriteRunning(a)
    <3>1. at[a] = "captured" /\ at'[a] = "sessioned" /\ ident' = ident
      BY <1>1, <2>6 DEF WriteRunning, Step, TypeOK, locals
    <3>2. ident[a] /\ noted' = noted \cup {a}
      BY <1>1, <2>2, <2>3, <2>6, <3>1 DEF WriteRunning
    <3>3. QED
      BY <3>1, <3>2 DEF Settled
  <2>7. CASE MarkLock(a)
    <3>1. Settled(a) /\ ident' = ident /\ lock' = Mark(a)
      BY <2>2, <2>7 DEF MarkLock, Step, locals, Mark
    <3>2. QED
      BY <1>1, <3>1 DEF Settled, Mark
  <2>8. QED
    BY <2>4, <2>5, <2>6, <2>7
<1>4. QED
  BY <1>2, <1>3

\* An invocation at work leaves the lock of a live writer alone.
LEMMA SettleOthers ==
  ASSUME MaxActive = 1, SInv, faults = 0, NEW a \in Cli, GoodStep(a),
         NEW c \in Cli, c # a, writer'[c] = "alive"
  PROVE  Settled(c)'
<1>1. /\ TypeOK /\ ps = "up" /\ crashed = {} /\ WritersSettle /\ noted \subseteq noted'
      /\ \A d \in Cli : Running(d) => d = a
      /\ \A d \in Cli : Running(d)' => d = a
      /\ OwnStep(a)
  BY GoodStepFacts
<1>2. /\ at'[c] = at[c] /\ ident'[c] = ident[c] /\ writer[c] = "alive"
      /\ Begin(a) \/ Running(a)
  BY <1>1, Alone DEF SInv, TypeOK
<1>3. at[c] \notin {"spawned", "captured", "sessioned"}
  BY <1>1 DEF Running
<1>4. c \in noted /\ ident[c] /\ Settled(c)
  BY <1>1, <1>2, <1>3 DEF WritersSettle, Writers, Settled
<1>5. at[c] = "done" /\ Guarded(c)
  BY <1>2, <1>3, <1>4 DEF SInv, NotedIsGuarded
<1>6. /\ lock = Mark(c) /\ Recorded(c)
      /\ Running(a) => Contends(a) /\ Spares(c, a)
  BY <1>4, <1>5 DEF Settled, Guarded
<1>7. lock # None
  BY <1>6, NoLockAssumption DEF Mark, LockRecord
<1>8. SUFFICES lock' = lock /\ Contends(a)'
  BY <1>1, <1>2, <1>4, <1>6 DEF Settled, Mark
<1>9. at \in [Cli -> Points] /\ holder \in [Cli -> LockRecord \cup {None}]
      /\ peek \in [Cli -> SessionRecord \cup {None}]
  BY <1>1 DEF TypeOK
<1> USE DEF files, locals
<1>10. CASE Begin(a)
  <2>1. at'[a] \in {"locking", "resuming", "stopping"}
    BY <1>9, <1>10, AgentAssumption DEF Begin, AllOps
  <2>2. QED
    BY <1>10, <2>1 DEF Begin, Contends
<1>11. ASSUME Running(a), LockStep(a) PROVE lock' = lock /\ Contends(a)'
  <2>1. CASE LockContended(a)
    BY <1>6, <1>9, <1>11, <2>1 DEF LockContended, Step, Contends
  <2>2. ~CreateLock(a) /\ ~WriteLock(a) /\ ~Reclaim(a)
    BY <1>6, <1>7, <1>11 DEF CreateLock, WriteLock, Reclaim, Step, Contends
  <2>3. CASE ReadHolder(a) \/ PeekSession(a)
    BY <1>6, <1>9, <1>11, <2>3 DEF ReadHolder, PeekSession, Step, Contends
  <2>4. CASE JudgeHolder(a)
    <3>1. at[a] = "judging" /\ lock' = lock
      BY <2>4 DEF JudgeHolder, Step
    <3>2. holder[a] = Mark(c) /\ peek[a] = session
      BY <1>6, <1>11, <3>1 DEF Contends
    <3>3. holder[a] # None
      BY <1>6, <1>7, <3>2
    <3>4. ~MayBeLive(a, FALSE)
      <4>1. Matches(session)
        BY <1>1, <1>2, <1>4, <1>6 DEF Recorded, Matches
      <4>2. /\ holder[a] # None /\ holder[a].pid = "writer" /\ holder[a].by = c
            /\ peek[a] # None /\ peek[a].pid /\ peek[a].uuid = c /\ peek[a].ident
        <5>1. session # None /\ session.pid /\ session.uuid = c /\ session.ident = ident[c]
          BY <1>6 DEF Recorded
        <5>2. session.ident
          BY <1>4, <5>1, Zenon
        <5>3. holder[a].pid = "writer" /\ holder[a].by = c
          BY <3>2 DEF Mark
        <5>4. QED
          BY <3>2, <3>3, <5>1, <5>2, <5>3
      <4>3. ~Matches(peek[a]) = FALSE
        BY <3>2, <4>1
      <4>4. MayBeLive(a, FALSE) => FALSE = Matches(peek[a])
        BY <4>2 DEF MayBeLive
      <4>5. QED
        BY <4>3, <4>4
    <3>5. at'[a] = "done"
      BY <1>9, <2>4, <3>4 DEF JudgeHolder, Step
    <3>6. QED
      BY <3>1, <3>5 DEF Contends
  <2>5. QED
    BY <1>11, <2>1, <2>2, <2>3, <2>4 DEF LockStep
<1>12. ~(Running(a) /\ LaunchStep(a))
  BY <1>6 DEF Contends, Spares, LaunchStep, Plan, RebuildInvocation, FailBeforeSpawn,
              WriteStarting, SpawnWriter, SpawnFails, Release, CaptureIdentity,
              WriteRunning, MarkLock, Step
<1>13. ASSUME Running(a), ResumeStep(a) PROVE lock' = lock /\ Contends(a)'
  BY <1>6, <1>9, <1>13 DEF ResumeStep, ResumeLoads, ResumeChecksLoop, Step, Contends
<1>14. ASSUME Running(a), StopStep(a) PROVE lock' = lock /\ Contends(a)'
  <2>1. ~StopUnlocks(a)
    BY <1>6, <1>14 DEF StopUnlocks, Step, Spares
  <2>2. /\ at'[a] \in {"matching", "done", "signalling", "waiting", "exited", "timedout", "unlocking"}
        /\ lock' = lock
    BY <1>9, <1>14, <2>1
    DEF StopStep, StopLoads, StopMatches, StopSignals, StopSeesExit, StopTimesOut,
        StopKills, StopWritesBack, Step
  <2>3. QED
    BY <2>2 DEF Contends
<1>15. QED
  BY <1>2, <1>10, <1>11, <1>12, <1>13, <1>14 DEF GoodStep

\* And a lock is the marker of the session on record, or of the invocation under way.
LEMMA TidyKept ==
  ASSUME MaxActive = 1, SInv, faults = 0, NEW a \in Cli, GoodStep(a)
  PROVE  Tidy'
<1>1. /\ TypeOK /\ ps = "up" /\ crashed = {} /\ crashed' = {} /\ Tidy
      /\ \A d \in Cli : Running(d) => Knows(d) /\ d = a
      /\ Begin(a) \/ Running(a)
  BY GoodStepFacts, Alone DEF SInv
<1>2. at \in [Cli -> Points] /\ Ctl(a)
  BY <1>1 DEF TypeOK, SInv, IInv, Control
<1> DEFINE Held == OwningPoints \cup {"unlocking"}
<1>3. at'[a] \in Held => Tidy'
  BY <1>1 DEF Tidy, Running, OwningPoints, LockedPoints
<1>4. at[a] \notin Held => lock = None \/ MarkedBy(lock.by)
  BY <1>1 DEF Tidy
<1>5. ASSUME UNCHANGED << lock, session >>, at[a] \notin Held PROVE Tidy'
  BY <1>4, <1>5 DEF Tidy, MarkedBy
<1>6. ASSUME lock' = None PROVE Tidy'
  BY <1>6 DEF Tidy
<1> USE DEF files, OwningPoints, LockedPoints
<1>7. CASE Begin(a)
  BY <1>5, <1>7 DEF Begin
<1>8. CASE LockStep(a)
  <2>1. CASE CreateLock(a) \/ WriteLock(a)
    BY <1>2, <1>3, <2>1 DEF CreateLock, WriteLock, Step
  <2>2. CASE LockContended(a) \/ ReadHolder(a) \/ PeekSession(a) \/ JudgeHolder(a)
    BY <1>5, <2>2 DEF LockContended, ReadHolder, PeekSession, JudgeHolder, Step
  <2>3. CASE Reclaim(a)
    BY <1>6, <2>3 DEF Reclaim, Unlink
  <2>4. QED
    BY <1>8, <2>1, <2>2, <2>3 DEF LockStep
<1>9. CASE LaunchStep(a)
  <2>1. CASE Release(a)
    BY <1>6, <2>1 DEF Release, Unlink
  <2>2. CASE MarkLock(a)
    <3>1. Running(a) /\ at[a] = "sessioned" /\ session' = session /\ lock' = Mark(a)
      BY <2>2 DEF MarkLock, Step, Running, Mark
    <3>2. Recorded(a)
      BY <3>1 DEF SInv, JustRecorded
    <3>3. MarkedBy(a)' /\ lock'.by = a
      BY <3>1, <3>2 DEF MarkedBy, Recorded, Mark
    <3>4. QED
      BY <3>3 DEF Tidy
  <2>3. CASE ~Release(a) /\ ~MarkLock(a)
    BY <1>2, <1>3, <1>9, <2>3
    DEF LaunchStep, Plan, RebuildInvocation, FailBeforeSpawn, WriteStarting, SpawnWriter,
        SpawnFails, CaptureIdentity, WriteRunning, Step
  <2>4. QED
    BY <2>1, <2>2, <2>3
<1>10. CASE ResumeStep(a)
  BY <1>5, <1>10 DEF ResumeStep, ResumeLoads, ResumeChecksLoop, Step
<1>11. CASE StopStep(a)
  <2>1. CASE StopUnlocks(a)
    BY <1>6, <2>1 DEF StopUnlocks, Unlink
  <2>2. CASE StopWritesBack(a)
    <3>1. CASE Step(a, "exited", "unlocking")
      BY <1>2, <1>3, <3>1 DEF Step
    <3>2. CASE /\ Step(a, "timedout", "done") /\ session' = [held[a] EXCEPT !.state = "running"]
      <4>1. at[a] = "timedout" /\ lock' = lock /\ Running(a)
        BY <2>2, <3>2 DEF StopWritesBack, Step, Running
      <4>2. held[a] = session /\ held[a] \in SessionRecord
        BY <1>1, <1>2, <4>1 DEF Knows, Ctl, StopHolds, Signalled
      <4>3. session' \in SessionRecord /\ session'.uuid = session.uuid /\ session'.state = "running"
        BY <3>2, <4>2 DEF SessionRecord
      <4>4. lock = None \/ MarkedBy(lock.by)
        BY <1>4, <4>1
      <4>5. QED
        BY <4>1, <4>3, <4>4, NoSessionAssumption DEF Tidy, MarkedBy
    <3>3. QED
      BY <2>2, <3>1, <3>2 DEF StopWritesBack
  <2>3. CASE ~StopUnlocks(a) /\ ~StopWritesBack(a)
    BY <1>5, <1>11, <2>3
    DEF StopStep, StopLoads, StopMatches, StopSignals, StopSeesExit, StopTimesOut,
        StopKills, Step
  <2>4. QED
    BY <2>1, <2>2, <2>3
<1>12. QED
  BY <1>7, <1>8, <1>9, <1>10, <1>11 DEF GoodStep

\* A resume that finds its session over finds no writer at all.
LEMMA ResumeFindsNone ==
  ASSUME MaxActive = 1, SInv, faults = 0, NEW a \in Cli, at[a] = "resuming",
         a \notin crashed, session # None, ~SessionRunning(session)
  PROVE  Writers = {}
<1>1. Running(a) /\ Orderly /\ TypeOK /\ Ctl(a)
  BY DEF Running, SInv, IInv, Control
<1>2. SUFFICES ASSUME NEW c \in Cli, writer[c] = "alive" PROVE FALSE
  BY DEF Writers
<1>3. c # a
  BY <1>1, <1>2 DEF Ctl, BeforeSpawn, Points
<1>4. at[c] \notin {"spawned", "captured"}
  BY <1>1, <1>3 DEF SInv, Lone, Orderly, Running
<1>5. c \in noted /\ ident[c]
  BY <1>1, <1>2, <1>4 DEF Orderly, WritersSettle, Writers, Settled
<1>6. Recorded(c) /\ ps # "down"
  BY <1>2, <1>5 DEF SInv, NotedIsGuarded, Guarded
<1>7. session.ident
  BY <1>5, <1>6, Zenon DEF Recorded
<1>8. QED
  BY <1>2, <1>6, <1>7 DEF Recorded, SessionRunning, Matches

\* And the invocation under way knows what it needs: its lock, the session, no writer.
LEMMA KnowsKept ==
  ASSUME MaxActive = 1, SInv, faults = 0, NEW a \in Cli, GoodStep(a)
  PROVE  Knows(a)'
<1>1. /\ TypeOK /\ OwnStep(a)
      /\ Begin(a) \/ (Running(a) /\ Knows(a))
      /\ loop' = loop
  BY GoodStepFacts, Alone DEF SInv
<1>2. /\ at \in [Cli -> Points] /\ op \in [Cli -> AllOps \cup {None}]
      /\ held \in [Cli -> SessionRecord \cup {None}]
  BY <1>1 DEF TypeOK
<1>3. CASE Begin(a)
  <2>1. PICK o \in Ops, to \in {"locking", "resuming", "stopping"} :
          /\ op' = [op EXCEPT ![a] = o] /\ at' = [at EXCEPT ![a] = to]
          /\ o = "resume" => to = "resuming"
    BY <1>3, AgentAssumption DEF Begin, AllOps
  <2>2. op'[a] = o /\ at'[a] = to
    BY <1>2, <2>1
  <2>3. QED
    BY <2>1, <2>2 DEF Knows, OwningPoints, LockedPoints, StopHolds, Signalled, ResumePoints
<1>4. CASE ~Begin(a)
  <2>1. Running(a) /\ Knows(a)
    BY <1>1, <1>4
  <2>2. at'[a] \in OwningPoints => lock' # None /\ lock'.by = a
    <3> USE DEF OwningPoints, LockedPoints
    <3>1. CASE LockStep(a)
      <4>1. CASE CreateLock(a)
        BY <4>1, NoLockAssumption DEF CreateLock, LockRecord
      <4>2. CASE WriteLock(a)
        BY <2>1, <4>2, NoLockAssumption DEF WriteLock, LockRecord, Knows, Step
      <4>3. CASE LockContended(a) \/ ReadHolder(a) \/ PeekSession(a) \/ JudgeHolder(a) \/ Reclaim(a)
        BY <1>2, <4>3 DEF LockContended, ReadHolder, PeekSession, JudgeHolder, Reclaim, Step
      <4>4. QED
        BY <3>1, <4>1, <4>2, <4>3 DEF LockStep
    <3>2. CASE LaunchStep(a)
      BY <1>2, <2>1, <3>2
      DEF LaunchStep, Plan, RebuildInvocation, FailBeforeSpawn, WriteStarting,
          SpawnWriter, SpawnFails, Release, CaptureIdentity, WriteRunning, MarkLock,
          Step, Knows, files
    <3>3. CASE ResumeStep(a) \/ StopStep(a)
      BY <1>2, <3>3
      DEF ResumeStep, ResumeLoads, ResumeChecksLoop, StopStep, StopLoads, StopMatches,
          StopSignals, StopSeesExit, StopTimesOut, StopKills, StopWritesBack, StopUnlocks, Step
    <3>4. QED
      BY <1>4, <3>1, <3>2, <3>3 DEF GoodStep
  <2>3. at'[a] \in StopHolds => held'[a] = session'
    <3> USE DEF StopHolds, Signalled
    <3>1. ~(LockStep(a) /\ at'[a] \in StopHolds)
      BY <1>2 DEF LockStep, CreateLock, WriteLock, LockContended, ReadHolder, PeekSession,
         JudgeHolder, Reclaim, Step
    <3>2. ~((LaunchStep(a) \/ ResumeStep(a)) /\ at'[a] \in StopHolds)
      BY <1>2
      DEF LaunchStep, Plan, RebuildInvocation, FailBeforeSpawn, WriteStarting,
          SpawnWriter, SpawnFails, Release, CaptureIdentity, WriteRunning, MarkLock,
          ResumeStep, ResumeLoads, ResumeChecksLoop, Step
    <3>3. CASE StopStep(a)
      BY <1>2, <2>1, <3>3
      DEF StopStep, StopLoads, StopMatches, StopSignals, StopSeesExit, StopTimesOut,
          StopKills, StopWritesBack, StopUnlocks, Step, Knows, files, locals
    <3>4. QED
      BY <1>4, <3>1, <3>2, <3>3 DEF GoodStep
  <2>4. ASSUME op'[a] = "resume", at'[a] \in ResumePoints
        PROVE  Writers' = {} /\ (at'[a] # "checking" => loop'[held'[a].claude] = "active")
    <3> USE DEF ResumePoints
    <3>1. CASE ResumeLoads(a)
      <4>1. /\ at[a] = "resuming" /\ a \notin crashed /\ at'[a] = "checking"
            /\ session # None /\ ~SessionRunning(session) /\ writer' = writer
        BY <1>2, <2>4, <3>1 DEF ResumeLoads, Step, world
      <4>2. QED
        BY <4>1, ResumeFindsNone DEF Writers
    <3>2. CASE ~ResumeLoads(a)
      <4>1. /\ op[a] = "resume" /\ held' = held /\ writer' = writer
            /\ at[a] \in ResumePoints
            /\ at[a] = "checking" => loop[held[a].claude] = "active"
        <5>1. CASE LockStep(a)
          BY <1>2, <2>4, <5>1
          DEF LockStep, CreateLock, WriteLock, LockContended, ReadHolder, PeekSession,
              JudgeHolder, Reclaim, Step, locals, world
        <5>2. CASE LaunchStep(a)
          BY <1>2, <2>4, <5>2
          DEF LaunchStep, Plan, RebuildInvocation, FailBeforeSpawn, WriteStarting,
              SpawnWriter, SpawnFails, Release, CaptureIdentity, WriteRunning, MarkLock,
              Step, locals, world
        <5>3. CASE ResumeStep(a) \/ StopStep(a)
          BY <1>2, <2>4, <3>2, <5>3
          DEF ResumeStep, ResumeChecksLoop, StopStep, StopLoads, StopMatches,
              StopSignals, StopSeesExit, StopTimesOut, StopKills, StopWritesBack,
              StopUnlocks, Step, locals, world
        <5>4. QED
          BY <1>4, <5>1, <5>2, <5>3 DEF GoodStep
      <4>2. Writers = {} /\ (at[a] # "checking" => loop[held[a].claude] = "active")
        BY <2>1, <4>1 DEF Knows
      <4>3. QED
        BY <1>1, <4>1, <4>2 DEF Writers
    <3>3. QED
      BY <3>1, <3>2
  <2>5. QED
    BY <2>2, <2>3, <2>4 DEF Knows
<1>5. QED
  BY <1>3, <1>4

\* Every step without a fault keeps the records in order.
LEMMA OrderlyNext ==
  ASSUME MaxActive = 1, SInv, [Next]_vars
  PROVE  Orderly'
<1> SUFFICES ASSUME faults' = 0
             PROVE  /\ ps' = "up" /\ crashed' = {}
                    /\ WritersSettle' /\ Tidy'
                    /\ \A c \in Cli : Running(c)' => Knows(c)'
  BY DEF Orderly
<1>0. TypeOK /\ TypeOK' /\ faults \in Nat
  <2>1. TypeOK /\ TypeOK'
    BY IInvNext DEF SInv, IInv
  <2>2. QED
    BY <2>1, AgentAssumption DEF TypeOK
<1>1. ASSUME NEW a \in Cli, GoodStep(a)
      PROVE  /\ ps' = "up" /\ crashed' = {}
             /\ WritersSettle' /\ Tidy'
             /\ \A c \in Cli : Running(c)' => Knows(c)'
  <2>1. faults = 0
    BY <1>1
    DEF GoodStep, Begin, LockStep, CreateLock, WriteLock, LockContended, ReadHolder,
        PeekSession, JudgeHolder, Reclaim, LaunchStep, Plan, RebuildInvocation,
        FailBeforeSpawn, WriteStarting, SpawnWriter, SpawnFails, Release, CaptureIdentity,
        WriteRunning, MarkLock, ResumeStep, ResumeLoads, ResumeChecksLoop,
        StopStep, StopLoads, StopMatches, StopSignals, StopSeesExit, StopTimesOut,
        StopKills, StopWritesBack, StopUnlocks, Step, troubles
  <2>2. WritersSettle'
    BY <1>1, <2>1, SettleOwn, SettleOthers DEF WritersSettle, Writers
  <2>3. QED
    BY <1>1, <2>1, <2>2, GoodStepFacts, TidyKept, KnowsKept
<1>2. ASSUME NEW c \in Cli, FaultStep(c) \/ PsFails PROVE FALSE
  BY <1>0, <1>2 DEF FaultStep, Crash, InterruptAfterSpawn, PsFails
<1>3. ASSUME NEW u \in Cli, WriterStep(u) \/ PsRecovers
      PROVE  /\ ps' = "up" /\ crashed' = {}
             /\ WritersSettle' /\ Tidy'
             /\ \A c \in Cli : Running(c)' => Knows(c)'
  <2>1. /\ UNCHANGED << at, crashed, op, ident, holder, peek, held, lock, session >>
        /\ \A d \in Cli : writer'[d] = writer[d] \/ writer'[d] = "dead"
        /\ \A d \in Cli : Running(d)' = Running(d)
    BY <1>3, Elsewhere DEF SInv
  <2>2. faults = 0
    BY <1>3 DEF WriterStep, WriterExits, LoopMoves, PsRecovers, troubles
  <2>3. /\ ps = "up" /\ crashed = {} /\ WritersSettle /\ Tidy
        /\ \A c \in Cli : Running(c) => Knows(c)
    BY <2>2 DEF SInv, Orderly
  <2>4. ps' = ps /\ noted' = noted
    BY <1>3, <2>3 DEF WriterStep, WriterExits, LoopMoves, PsRecovers, troubles, history
  <2>5. WritersSettle'
    BY <2>1, <2>3, <2>4 DEF WritersSettle, Writers, Settled, Contends, Mark
  <2>6. Tidy'
    BY <2>1, <2>3 DEF Tidy, MarkedBy
  <2>7. \A c \in Cli : Running(c)' => Knows(c)'
    <3>1. Writers' \subseteq Writers
      BY <2>1 DEF Writers
    <3>2. Writers = {} => loop' = loop
      BY <1>3 DEF WriterStep, WriterExits, LoopMoves, PsRecovers, world, Writers
    <3>3. QED
      BY <2>1, <2>3, <3>1, <3>2 DEF Knows
  <2>8. QED
    BY <2>1, <2>3, <2>4, <2>5, <2>6, <2>7
<1>4. CASE UNCHANGED vars
  <2>1. /\ ps = "up" /\ crashed = {} /\ WritersSettle /\ Tidy
        /\ \A c \in Cli : Running(c) => Knows(c)
    BY <1>4 DEF SInv, Orderly, vars
  <2>2. WritersSettle' /\ Tidy'
    BY <1>4, <2>1 DEF vars, WritersSettle, Writers, Settled, Contends, Mark, Tidy, MarkedBy, Running
  <2>3. \A c \in Cli : Running(c)' => Knows(c)'
    BY <1>4, <2>1 DEF vars, Knows, Running, Writers
  <2>4. QED
    BY <1>4, <2>1, <2>2, <2>3 DEF vars
<1>5. CASE PsRecovers
  <2>1. faults = 0 /\ ps = "down"
    BY <1>5 DEF PsRecovers
  <2>2. QED
    BY <2>1 DEF SInv, Orderly
<1>6. CASE PsFails
  BY <1>0, <1>6 DEF PsFails
<1>7. QED
  BY <1>1, <1>2, <1>3, <1>4, <1>5, <1>6 DEF Next, CliStep, GoodStep

\* The invariant of serial commands.
LEMMA SerialInvariance ==
  ASSUME MaxActive = 1
  PROVE  Spec => []SInv
<1>1. Init => SInv
  <2> SUFFICES ASSUME Init PROVE SInv
    OBVIOUS
  <2>1. IInv
    BY InitIInv
  <2>2. Lone /\ JustRecorded /\ NotedIsGuarded
    BY DEF Init, Lone, JustRecorded, NotedIsGuarded, Running
  <2>3. Orderly
    BY DEF Init, Orderly, WritersSettle, Writers, Tidy, Running
  <2>4. QED
    BY <2>1, <2>2, <2>3 DEF SInv
<1>2. SInv /\ [Next]_vars => SInv'
  BY IInvNext, LoneNext, JustRecordedNext, NotedNext, OrderlyNext DEF SInv
<1>3. QED
  BY <1>1, <1>2, PTL DEF Spec

---------------------------------------------------------------------------
(* What one invocation after another can rely on. *)

\* "One writer at a time", one invocation after another: nothing is spawned
\* beside a live writer that the records identify, whatever invocation died or
\* was interrupted before, and however often `ps` failed.
THEOREM NoSpawnBesideWriter ==
  ASSUME MaxActive = 1
  PROVE  Spec => NothingSpawnsBesideWriter
<1>1. ASSUME SInv, [Next]_vars, NEW c \in Cli, Spawns(c)
      PROVE  Writers \cap noted = {}
  <2>1. SpawnWriter(c)
    BY <1>1, SpawnsBySpawning DEF SInv, IInv, TypeOK
  <2>2. Running(c) /\ at[c] = "recorded"
    BY <2>1 DEF SpawnWriter, Step, Running
  <2>3. ASSUME NEW d \in noted, writer[d] = "alive" PROVE FALSE
    <3>1. at[d] \in {"sessioned", "done"} /\ Guarded(d)
      BY <1>1, <2>3 DEF SInv, NotedIsGuarded
    <3>2. Spares(d, c)
      BY <2>2, <3>1 DEF Guarded
    <3>3. QED
      BY <2>2, <3>2 DEF Spares
  <2>4. QED
    BY <2>3 DEF Writers
<1>2. SInv /\ [Next]_vars => [\A c \in Cli : Spawns(c) => Writers \cap noted = {}]_vars
  BY <1>1
<1>3. QED
  BY <1>2, SerialInvariance, PTL DEF Spec, NothingSpawnsBesideWriter

\* The lock file is the session marker: with no invocation under way and no
\* fault so far, a live writer has its session on record and holds the lock,
\* and a lock belongs to the session on record.
THEOREM LockIsTheMarker ==
  ASSUME MaxActive = 1
  PROVE  Spec => []LockTracksSession
<1>1. ASSUME SInv, Active = {}, faults = 0
      PROVE  /\ \A c \in Writers : MarkedBy(c)
             /\ lock # None => MarkedBy(lock.by)
  <2>1. /\ \A c \in Cli : ~Running(c)
        /\ crashed = {} /\ WritersSettle /\ Tidy /\ Control
    BY <1>1 DEF Active, SInv, Orderly, IInv
  <2>2. ASSUME NEW c \in Writers PROVE MarkedBy(c)
    <3>1. c \in Cli /\ writer[c] = "alive"
      BY <2>2 DEF Writers
    <3>2. at[c] \in {"idle", "done"}
      BY <2>1, <3>1 DEF Running
    <3>3. at[c] = "done"
      BY <2>1, <3>1, <3>2 DEF Control, Ctl, BeforeSpawn, Points
    <3>4. c \in noted /\ lock = Mark(c)
      BY <2>1, <2>2, <3>3 DEF WritersSettle, Settled
    <3>5. Recorded(c)
      BY <1>1, <3>1, <3>4 DEF SInv, NotedIsGuarded, Guarded
    <3>6. QED
      BY <3>4, <3>5 DEF MarkedBy, Recorded, Mark
  <2>3. lock # None => MarkedBy(lock.by)
    BY <2>1 DEF Tidy
  <2>4. QED
    BY <2>2, <2>3
<1>2. SInv => LockTracksSession
  BY <1>1 DEF LockTracksSession
<1>3. QED
  BY <1>2, SerialInvariance, PTL

\* "A completed or cancelled loop is never restarted": while nothing has gone
\* wrong, whoever is about to resume a Claude session resumes a loop that has
\* not ended.
THEOREM ResumeIsOfLiveLoop ==
  ASSUME MaxActive = 1
  PROVE  Spec => []ResumesLiveLoopUnlessFault
<1>1. ASSUME SInv, faults = 0, NEW c \in Cli,
             op[c] = "resume", Running(c), at[c] = "recorded"
      PROVE  loop[ClaudeOf(c)] # "terminal"
  BY <1>1 DEF SInv, Orderly, Knows, ResumePoints, ClaudeOf
<1>2. SInv => ResumesLiveLoopUnlessFault
  BY <1>1 DEF ResumesLiveLoopUnlessFault, ResumesLiveLoop
<1>3. QED
  BY <1>2, SerialInvariance, PTL
===========================================================================
