-------------------------- MODULE RemoteRun_proofs --------------------------
(* Theorems about RemoteRun, for every number of runs and of commands. *)
EXTENDS RemoteRun, TLAPS

Launching == {"inspect", "submit", "exec"}
Settling == {"write_status", "write_hashes", "finish"}

\* A worker exists only after launch.json, one at most, and it has the lock
\* whenever it has a stage; a finished run has neither.
RunInv ==
  \A r \in Runs :
    /\ "launch" \notin marks[r] => accepted[r] = 0 /\ worker[r].pc = "none"
    /\ accepted[r] > 0 => accepted[r] = 1 /\ worker[r].pc = "none"
    /\ worker[r].pc \in {"idle", "loop", "stage"} => worker[r].lock
    /\ worker[r].pc \in {"reverify", "write_status"} => worker[r].verdict \in Terminal
    /\ procs[r] # "none" => worker[r].pc \in {"stage", "killed"}
    /\ "finished" \in marks[r] =>
         /\ accepted[r] = 0 /\ worker[r].pc \in {"none", "gone"}
         /\ "launch" \in marks[r]
              \/ ("cancel" \in marks[r] /\ status[r].state = "cancelled")

\* What a command knows of its run while it holds control.lock.
CmdInv ==
  \A c \in Cmds :
    LET r == cmd[c].run IN
    /\ cmd[c].pc \notin {"idle", "verified"} => r \in Runs
    /\ cmd[c].pc \in {"mark"} \cup Launching \cup Settling => control[r] = c
    /\ cmd[c].pc = "mark" => "cancel" \notin marks[r]
    /\ cmd[c].pc \in Launching =>
         /\ "launch" \in marks[r] /\ "finished" \notin marks[r]
         /\ accepted[r] = 0 /\ worker[r].pc = "none"
    /\ cmd[c].pc \in Settling =>
         /\ accepted[r] = 0 /\ worker[r].pc = "none"
         /\ \/ /\ cmd[c].verdict = "failed"
               /\ "launch" \in marks[r] /\ "finished" \notin marks[r]
            \/ /\ cmd[c].verdict = "cancelled"
               /\ "launch" \notin marks[r] /\ "cancel" \in marks[r]
               /\ cmd[c].pc # "write_status" => status[r].state = "cancelled"

\* The lock on the GPU has one open file description.
LockInv == \A r, s \in Runs : HoldsGpu(r) /\ HoldsGpu(s) => r = s

IInv == TypeOK /\ RunInv /\ CmdInv /\ LockInv

-----------------------------------------------------------------------------
(* Type correctness *)

\* The type at the start.
LEMMA InitType == Init => TypeOK
  <1> SUFFICES ASSUME Init PROVE TypeOK
    OBVIOUS
  <1>1. NoFile \in Files
    BY DEF NoFile, Files
  <1>2. Idle \in Command
    BY <1>1 DEF Idle, Command, CmdPcs
  <1>3. NoWorker \in Worker
    BY DEF NoWorker, Worker, WorkerPcs
  <1> QED BY <1>1, <1>2, <1>3, BoundsAssumption DEF Init, TypeOK

\* What an update of one field leaves of the types.
LEMMA GoType ==
  ASSUME NEW r \in Runs, NEW pc \in WorkerPcs, worker \in [Runs -> Worker],
         Go(r, pc)
  PROVE  worker' \in [Runs -> Worker]
  BY DEF Go, Worker

LEMMA DecideType ==
  ASSUME NEW r \in Runs, NEW pc \in WorkerPcs, NEW v \in Terminal \cup {None},
         worker \in [Runs -> Worker], Decide(r, pc, v)
  PROVE  worker' \in [Runs -> Worker]
  BY DEF Decide, Worker

LEMMA LockType ==
  ASSUME NEW r \in Runs, NEW pc \in WorkerPcs, NEW b \in BOOLEAN,
         worker \in [Runs -> Worker]
  PROVE  [worker EXCEPT ![r].pc = pc, ![r].lock = b] \in [Runs -> Worker]
  BY DEF Worker

LEMMA LoopType ==
  ASSUME NEW r \in Runs, NEW pc \in WorkerPcs, worker \in [Runs -> Worker]
  PROVE  [worker EXCEPT ![r].pc = pc, ![r].stage = @ + 1] \in [Runs -> Worker]
  <1>1. \A w \in Worker, n \in Nat \ {0} : [w EXCEPT !.pc = pc, !.stage = n] \in Worker
    BY DEF Worker
  <1>2. worker[r] \in Worker /\ worker[r].stage + 1 \in Nat \ {0}
    BY DEF Worker
  <1> QED BY <1>1, <1>2

LEMMA SignalType ==
  ASSUME NEW r, NEW b \in BOOLEAN, worker \in [Runs -> Worker]
  PROVE  [worker EXCEPT ![r].sigterm = @ \/ b] \in [Runs -> Worker]
  <1>1. CASE r \in Runs
    BY <1>1 DEF Worker
  <1>2. CASE r \notin Runs
    BY <1>2
  <1> QED BY <1>1, <1>2

LEMMA FreshType ==
  ASSUME NEW pc \in WorkerPcs PROVE [NoWorker EXCEPT !.pc = pc] \in Worker
  <1>1. NoWorker \in Worker
    BY DEF NoWorker, Worker, WorkerPcs
  <1>2. \A w \in Worker : [w EXCEPT !.pc = pc] \in Worker
    BY DEF Worker
  <1> QED BY <1>1, <1>2

LEMMA IdleType == Idle \in Command
  BY DEF Idle, Command, CmdPcs, NoFile, Files

LEMMA FailType ==
  ASSUME NEW c \in Cmds, NEW v \in Terminal, cmd \in [Cmds -> Command], Fail(c, v)
  PROVE  cmd' \in [Cmds -> Command]
  BY DEF Fail, Command, CmdPcs

LEMMA ClaimType ==
  ASSUME NEW c \in Cmds, NEW pc \in CmdPcs, NEW f \in Files, cmd \in [Cmds -> Command]
  PROVE  [cmd EXCEPT ![c].pc = pc, ![c].claim = f] \in [Cmds -> Command]
  BY DEF Command

LEMMA FetchType ==
  ASSUME NEW r \in Runs, NEW pc \in CmdPcs, NEW b \in BOOLEAN
  PROVE  /\ [Idle EXCEPT !.op = "fetch", !.run = r, !.pc = pc, !.alone = b] \in Command
         /\ \A m \in Command : [m EXCEPT !.alone = b] \in Command
  <1>1. \A m \in Command : [m EXCEPT !.op = "fetch", !.run = r, !.pc = pc, !.alone = b] \in Command
    BY DEF Command
  <1>2. \A m \in Command : [m EXCEPT !.alone = b] \in Command
    BY DEF Command
  <1> QED BY <1>1, <1>2, IdleType

LEMMA StateType ==
  ASSUME NEW r \in Runs, NEW x \in {"starting", "running"}, status \in [Runs -> Files]
  PROVE  /\ [status EXCEPT ![r].state = x] \in [Runs -> Files]
         /\ [status EXCEPT ![r].state = x, ![r].run = r] \in [Runs -> Files]
  BY DEF Files

LEMMA StepType ==
  ASSUME NEW c \in Cmds, NEW pc \in CmdPcs, cmd \in [Cmds -> Command], Step(c, pc)
  PROVE  cmd' \in [Cmds -> Command]
  BY DEF Step, Command

LEMMA EndType ==
  ASSUME NEW c \in Cmds, cmd \in [Cmds -> Command], End(c)
  PROVE  cmd' \in [Cmds -> Command]
  BY IdleType DEF End

LEMMA BeginType ==
  ASSUME NEW c \in Cmds, NEW op \in {"launch", "cancel", "fetch"}, NEW r \in Runs,
         NEW pc \in CmdPcs, NEW v \in Terminal \cup {None},
         cmd \in [Cmds -> Command], Begin(c, op, r, pc, v)
  PROVE  cmd' \in [Cmds -> Command]
  <1>1. \A m \in Command :
          [m EXCEPT !.op = op, !.run = r, !.pc = pc, !.verdict = v] \in Command
    BY DEF Command
  <1> QED BY <1>1, IdleType DEF Begin

LEMMA UnlockedType ==
  ASSUME NEW c \in Cmds, control \in [Runs -> Cmds \cup {None}]
  PROVE  Unlocked(c) \in [Runs -> Cmds \cup {None}]
  BY DEF Unlocked

LEMMA FinalType ==
  ASSUME NEW r \in Runs, NEW v \in Terminal, status \in [Runs -> Files]
  PROVE  [status EXCEPT ![r] = FinalStatus(r, v)] \in [Runs -> Files]
  BY DEF Files, FinalStatus

\* And in every step.
LEMMA NextType == IInv /\ [Next]_vars => TypeOK'
  <1> SUFFICES ASSUME TypeOK, RunInv, CmdInv, [Next]_vars PROVE TypeOK'
    BY DEF IInv
  <1> USE BoundsAssumption DEF TypeOK, hostVars, evidenceVars, counters
  <1>1. ASSUME NEW r \in Runs, Sync(r) PROVE TypeOK'
    BY <1>1 DEF Sync
  <1>2. ASSUME NEW r \in Runs, Damage(r) PROVE TypeOK'
    BY <1>2 DEF Damage, Fault
  <1>3. ASSUME NEW r \in Runs, StartWorker(r) PROVE TypeOK'
    <2>1. [NoWorker EXCEPT !.pc = "verify"] \in Worker
      BY FreshType DEF WorkerPcs
    <2>2. worker' \in [Runs -> Worker]
      BY <1>3, <2>1 DEF StartWorker
    <2>3. status' \in [Runs -> Files]
      BY <1>3, StateType DEF StartWorker
    <2>4. accepted' \in [Runs -> Nat]
      BY <1>3 DEF StartWorker
    <2> QED BY <1>3, <2>2, <2>3, <2>4 DEF StartWorker
  <1>4. ASSUME NEW r \in Runs, WorkerRuns(r) PROVE TypeOK'
    <2>1. worker' \in [Runs -> Worker]
      <3>1. CASE WorkerVerify(r)
        BY <3>1, GoType, DecideType DEF WorkerVerify, WorkerPcs, Terminal
      <3>2. CASE WorkerLock(r)
        <4>1. [worker EXCEPT ![r].pc = "idle", ![r].lock = TRUE] \in [Runs -> Worker]
          BY LockType DEF WorkerPcs
        <4> QED BY <3>2, <4>1, DecideType DEF WorkerLock, WorkerPcs, Terminal
      <3>3. CASE WorkerIdle(r)
        BY <3>3, GoType, DecideType DEF WorkerIdle, WorkerPcs, Terminal
      <3>4. CASE WorkerLoop(r)
        BY <3>4, GoType, DecideType DEF WorkerLoop, WorkerPcs, Terminal
      <3>5. CASE WorkerStage(r)
        <4>1. [worker EXCEPT ![r].pc = "loop", ![r].stage = @ + 1] \in [Runs -> Worker]
          BY LoopType DEF WorkerPcs
        <4>2. Outcomes(r) \subseteq Terminal
          BY DEF Outcomes, Terminal
        <4> QED BY <3>5, <4>1, <4>2, DecideType DEF WorkerStage, WorkerPcs
      <3>6. CASE WorkerReverify(r)
        <4>1. worker[r].verdict \in Terminal \cup {None}
          BY DEF Worker
        <4> QED BY <3>6, <4>1, DecideType DEF WorkerReverify, WorkerPcs, Terminal
      <3> QED BY <1>4, <3>1, <3>2, <3>3, <3>4, <3>5, <3>6 DEF WorkerRuns
    <2>2. status' \in [Runs -> Files]
      BY <1>4, StateType DEF WorkerRuns, WorkerVerify, WorkerLock, WorkerIdle, WorkerLoop,
                             WorkerStage, WorkerReverify
    <2>3. procs' \in [Runs -> {"none", "leader", "child"}]
      BY <1>4 DEF WorkerRuns, WorkerVerify, WorkerLock, WorkerIdle, WorkerLoop,
                  WorkerStage, WorkerReverify
    <2> QED BY <1>4, <2>1, <2>2, <2>3 DEF WorkerRuns
  <1>5. ASSUME NEW r \in Runs, WorkerFinalize(r) PROVE TypeOK'
    <2>1. worker' \in [Runs -> Worker]
      <3>1. [worker EXCEPT ![r].pc = "gone", ![r].lock = FALSE] \in [Runs -> Worker]
        BY LockType DEF WorkerPcs
      <3> QED BY <1>5, <3>1, GoType DEF WorkerFinalize, WorkerPcs
    <2>2. worker[r].pc = "write_status" => worker[r].verdict \in Terminal
      BY DEF RunInv
    <2>3. status' \in [Runs -> Files]
      BY <1>5, <2>2, FinalType DEF WorkerFinalize, WriteStatus, WriteHashes, WriteFinished
    <2> QED BY <1>5, <2>1, <2>3
          DEF WorkerFinalize, WriteStatus, WriteHashes, WriteFinished, Markers
  <1>6. ASSUME NEW r \in Runs, WorkerRaises(r) PROVE TypeOK'
    <2>1. worker' \in [Runs -> Worker]
      BY <1>6, DecideType DEF WorkerRaises, WorkerPcs, Terminal
    <2> QED BY <1>6, <2>1 DEF WorkerRaises
  <1>7. ASSUME NEW r \in Runs, KillWorker(r) PROVE TypeOK'
    <2>1. [worker EXCEPT ![r].pc = "killed", ![r].lock = FALSE] \in [Runs -> Worker]
      BY LockType DEF WorkerPcs
    <2> QED BY <1>7, <2>1 DEF KillWorker, Fault
  <1>8. ASSUME NEW r \in Runs, StageEnds(r) PROVE TypeOK'
    BY <1>8 DEF StageEnds
  <1>9. ASSUME NEW c \in Cmds, NEW r \in Runs, LaunchChecks(c, r) PROVE TypeOK'
    <2>1. cmd' \in [Cmds -> Command]
      BY <1>9, BeginType DEF LaunchChecks, CmdPcs
    <2> QED BY <1>9, <2>1 DEF LaunchChecks, Issue
  <1>10. ASSUME NEW c \in Cmds, LaunchMark(c) PROVE TypeOK'
    <2>1. cmd' \in [Cmds -> Command]
      BY <1>10, StepType, EndType DEF LaunchMark, CmdPcs
    <2> QED BY <1>10, <2>1, UnlockedType DEF LaunchMark, Markers
  <1>11. ASSUME NEW c \in Cmds, LaunchInspect(c) PROVE TypeOK'
    <2>1. cmd' \in [Cmds -> Command]
      BY <1>11, StepType, FailType DEF LaunchInspect, CmdPcs, Terminal
    <2> QED BY <1>11, <2>1 DEF LaunchInspect
  <1>12. ASSUME NEW c \in Cmds, LaunchSubmit(c) PROVE TypeOK'
    <2>1. cmd' \in [Cmds -> Command]
      BY <1>12, StepType DEF LaunchSubmit, CmdPcs
    <2> QED BY <1>12, <2>1 DEF LaunchSubmit, Markers
  <1>13. ASSUME NEW c \in Cmds, LaunchExec(c) PROVE TypeOK'
    <2>1. cmd' \in [Cmds -> Command]
      BY <1>13, EndType DEF LaunchExec
    <2>2. control' \in [Runs -> Cmds \cup {None}]
      BY <1>13, UnlockedType DEF LaunchExec
    <2>3. accepted' \in [Runs -> Nat]
      <3>1. cmd[c].run \in Runs
        BY <1>13 DEF LaunchExec, CmdInv
      <3>2. accepted[cmd[c].run] \in Nat
        BY <3>1
      <3> QED BY <1>13, <3>1, <3>2 DEF LaunchExec
    <2> QED BY <1>13, <2>1, <2>2, <2>3 DEF LaunchExec
  <1>14. ASSUME NEW c \in Cmds, NEW r \in Runs, CancelRequest(c, r) PROVE TypeOK'
    <2>1. cmd' \in [Cmds -> Command]
      BY <1>14, BeginType DEF CancelRequest, CmdPcs, Terminal
    <2> QED BY <1>14, <2>1 DEF CancelRequest, Issue, Markers
  <1>15. ASSUME NEW c \in Cmds, CmdFinalize(c) PROVE TypeOK'
    <2> DEFINE r == cmd[c].run
    <2>1. cmd' \in [Cmds -> Command]
      BY <1>15, StepType, EndType DEF CmdFinalize, Settle, CmdPcs
    <2>2. r \in Runs
      BY <1>15 DEF CmdFinalize, Settle, CmdInv, Settling
    <2>3. cmd[c].pc = "write_status" => cmd[c].verdict \in Terminal
      BY DEF CmdInv, Settling, Terminal
    <2>4. status' \in [Runs -> Files]
      BY <1>15, <2>2, <2>3, FinalType
      DEF CmdFinalize, Settle, WriteStatus, WriteHashes, WriteFinished
    <2>5. control' \in [Runs -> Cmds \cup {None}]
      BY <1>15, UnlockedType DEF CmdFinalize, Settle
    <2>6. hashes' \in [Runs -> Files] /\ marks' \in [Runs -> SUBSET Markers]
      BY <1>15, <2>2 DEF CmdFinalize, Settle, WriteStatus, WriteHashes, WriteFinished, Markers
    <2> QED BY <1>15, <2>1, <2>4, <2>5, <2>6 DEF CmdFinalize
  <1>16. ASSUME NEW c \in Cmds, CancelSignal(c) PROVE TypeOK'
    <2> DEFINE r == cmd[c].run
    <2>1. cmd' \in [Cmds -> Command]
      BY <1>16, EndType DEF CancelSignal
    <2>2. worker' \in [Runs -> Worker]
      BY <1>16, SignalType DEF CancelSignal
    <2> QED BY <1>16, <2>1, <2>2 DEF CancelSignal
  <1>17. ASSUME NEW c \in Cmds, NEW r \in Runs, FetchLook(c, r) PROVE TypeOK'
    <2>1. \A b \in BOOLEAN :
            [Idle EXCEPT !.op = "fetch", !.run = r, !.pc = "copy_hashes", !.alone = b] \in Command
      BY FetchType DEF CmdPcs
    <2>2. \A d \in Cmds : [cmd[d] EXCEPT !.alone = FALSE] \in Command
      BY FetchType DEF CmdPcs
    <2>3. cmd' \in [Cmds -> Command]
      BY <1>17, <2>1, <2>2 DEF FetchLook
    <2>4. UNCHANGED <<upload, source, plan, marks, status, hashes, control, accepted,
                      worker, procs, out, faults>>
      BY <1>17 DEF FetchLook, Issue
    <2>5. ops < MaxOps /\ ops' = ops + 1
      BY <1>17 DEF FetchLook, Issue
    <2> QED BY <2>3, <2>4, <2>5
  <1>18. ASSUME NEW c \in Cmds, FetchCopy(c) PROVE TypeOK'
    <2>1. cmd' \in [Cmds -> Command]
      BY <1>18, StepType DEF FetchCopy, CmdPcs
    <2>2. cmd[c].run \in Runs
      BY <1>18 DEF FetchCopy, CmdInv
    <2> QED BY <1>18, <2>1, <2>2 DEF FetchCopy
  <1>19. ASSUME NEW c \in Cmds, FetchIdentify(c) PROVE TypeOK'
    <2>1. cmd' \in [Cmds -> Command]
      BY <1>19, StepType, EndType DEF FetchIdentify, CmdPcs
    <2> QED BY <1>19, <2>1 DEF FetchIdentify
  <1>20. ASSUME NEW c \in Cmds, FetchVerify(c) PROVE TypeOK'
    <2>1. [cmd EXCEPT ![c].pc = "verified", ![c].claim = out.status] \in [Cmds -> Command]
      BY ClaimType DEF CmdPcs
    <2> QED BY <1>20, <2>1, EndType DEF FetchVerify
  <1>21. ASSUME NEW c \in Cmds, Die(c) PROVE TypeOK'
    BY <1>21, EndType, UnlockedType DEF Die, Fault
  <1>22. CASE UNCHANGED vars
    BY <1>22 DEF vars
  <1> QED BY <1>1, <1>2, <1>3, <1>4, <1>5, <1>6, <1>7, <1>8, <1>9, <1>10, <1>11, <1>12,
             <1>13, <1>14, <1>15, <1>16, <1>17, <1>18, <1>19, <1>20, <1>21, <1>22
          DEF Next, WorkerStep, CmdStep

-----------------------------------------------------------------------------
(* The inductive invariant *)

\* The invariant at the start.
LEMMA InitInv == Init => IInv
  <1> SUFFICES ASSUME Init PROVE IInv
    OBVIOUS
  <1>1. RunInv
    BY DEF Init, RunInv, NoWorker
  <1>2. CmdInv
    BY DEF Init, CmdInv, Idle, Launching, Settling
  <1>3. LockInv
    BY DEF Init, LockInv, HoldsGpu, NoWorker
  <1> QED BY <1>1, <1>2, <1>3, InitType DEF IInv

\* What the steps of a worker leave alone, and what they rest on.
LEMMA WorkerFrame ==
  ASSUME IInv, NEW r \in Runs,
         StartWorker(r) \/ WorkerStep(r) \/ WorkerRaises(r) \/ KillWorker(r)
  PROVE  /\ \A q \in Runs \ {r} : worker'[q] = worker[q] /\ procs'[q] = procs[q]
                               /\ status'[q] = status[q] /\ marks'[q] = marks[q]
                               /\ accepted'[q] = accepted[q]
         /\ UNCHANGED <<control, cmd>>
         /\ marks'[r] \in {marks[r], marks[r] \cup {"finished"}}
         /\ worker[r].pc # "none" \/ accepted[r] > 0
         /\ "launch" \in marks[r] /\ "finished" \notin marks[r]
         /\ accepted'[r] = 0
  <1> USE DEF IInv, TypeOK
  <1>1. worker[r].pc # "none" \/ accepted[r] > 0
    BY DEF StartWorker, WorkerStep, WorkerRuns, WorkerFinalize, WorkerRaises, KillWorker,
           WorkerVerify, WorkerLock, WorkerIdle, WorkerLoop, WorkerStage, WorkerReverify, WorkerAlive
  <1>2. "launch" \in marks[r]
    BY <1>1 DEF RunInv
  <1>3. "finished" \notin marks[r]
    BY DEF RunInv, StartWorker, WorkerStep, WorkerRuns, WorkerFinalize, WorkerRaises, KillWorker,
           WorkerVerify, WorkerLock, WorkerIdle, WorkerLoop, WorkerStage, WorkerReverify, WorkerAlive
  <1>4. CASE StartWorker(r)
    BY <1>1, <1>2, <1>3, <1>4 DEF StartWorker, RunInv
  <1>5. CASE WorkerRuns(r)
    <2>1. accepted[r] = 0
      BY <1>1, <1>5 DEF RunInv, WorkerRuns, WorkerVerify, WorkerLock, WorkerIdle,
                        WorkerLoop, WorkerStage, WorkerReverify
    <2>2. UNCHANGED <<marks, accepted, control, cmd>>
      BY <1>5 DEF WorkerRuns
    <2>3. \A q \in Runs \ {r} : worker'[q] = worker[q]
      BY <1>5 DEF WorkerRuns, WorkerVerify, WorkerLock, WorkerIdle, WorkerLoop, WorkerStage,
                  WorkerReverify, Go, Decide
    <2>4. \A q \in Runs \ {r} : procs'[q] = procs[q] /\ status'[q] = status[q]
      BY <1>5 DEF WorkerRuns, WorkerVerify, WorkerLock, WorkerIdle, WorkerLoop, WorkerStage,
                  WorkerReverify
    <2> QED BY <1>1, <1>2, <1>3, <2>1, <2>2, <2>3, <2>4
  <1>6. CASE WorkerFinalize(r)
    <2>1. accepted[r] = 0
      BY <1>1, <1>6 DEF RunInv, WorkerFinalize
    <2> QED BY <1>1, <1>2, <1>3, <1>6, <2>1
          DEF WorkerFinalize, WriteStatus, WriteHashes, WriteFinished, Go
  <1>7. CASE WorkerRaises(r)
    <2>1. accepted[r] = 0
      BY <1>1, <1>7 DEF RunInv, WorkerRaises
    <2> QED BY <1>1, <1>2, <1>3, <1>7, <2>1 DEF WorkerRaises, Decide, evidenceVars
  <1>8. CASE KillWorker(r)
    <2>1. accepted[r] = 0
      BY <1>1, <1>8 DEF RunInv, KillWorker, WorkerAlive
    <2> QED BY <1>1, <1>2, <1>3, <1>8, <2>1 DEF KillWorker, evidenceVars
  <1> QED BY <1>4, <1>5, <1>6, <1>7, <1>8 DEF WorkerStep

\* What a worker's step makes of its own record.
LEMMA WorkerOwn ==
  ASSUME IInv, NEW r \in Runs,
         StartWorker(r) \/ WorkerStep(r) \/ WorkerRaises(r) \/ KillWorker(r)
  PROVE  /\ worker'[r].pc \in {"idle", "loop", "stage"} => worker'[r].lock
         /\ worker'[r].pc \in {"reverify", "write_status"} => worker'[r].verdict \in Terminal
         /\ procs'[r] # "none" => worker'[r].pc \in {"stage", "killed"}
         /\ "finished" \in marks'[r] => worker'[r].pc = "gone"
         /\ worker'[r].lock \/ procs'[r] = "leader" =>
              \/ HoldsGpu(r)
              \/ \A q \in Runs : ~HoldsGpu(q)
  <1> USE DEF IInv, TypeOK
  <1>1. "finished" \notin marks[r]
    BY WorkerFrame
  <1>2. CASE StartWorker(r)
    <2>1. procs[r] = "none" \/ worker[r].pc = "killed"
      BY <1>2 DEF RunInv, StartWorker, WorkerAlive
    <2>2. worker[r].pc = "none"
      BY <1>2 DEF RunInv, StartWorker
    <2> QED BY <1>1, <1>2, <2>1, <2>2 DEF StartWorker, NoWorker
  <1>3. CASE WorkerRuns(r)
    <2>1. UNCHANGED marks
      BY <1>3 DEF WorkerRuns
    <2> USE <1>1, <2>1 DEF RunInv, HoldsGpu, Worker, Terminal
    <2>2. CASE WorkerVerify(r)
      BY <2>2 DEF WorkerVerify, Go, Decide
    <2>3. CASE WorkerLock(r)
      BY <2>3 DEF WorkerLock, Decide
    <2>4. CASE WorkerIdle(r)
      BY <2>4 DEF WorkerIdle, Go, Decide
    <2>5. CASE WorkerLoop(r)
      <3>1. worker[r].pc = "loop" /\ worker[r].lock /\ procs[r] = "none"
        BY <2>5 DEF WorkerLoop
      <3>2. CASE \E v \in {"cancelled", "completed"} :
                   Decide(r, "reverify", v) /\ UNCHANGED procs
        BY <3>1, <3>2 DEF Decide
      <3>3. CASE Go(r, "stage")
        BY <3>1, <3>3 DEF Go
      <3> QED BY <2>5, <3>2, <3>3 DEF WorkerLoop
    <2>6. CASE WorkerStage(r)
      BY <2>6 DEF WorkerStage, Outcomes, Decide
    <2>7. CASE WorkerReverify(r)
      BY <2>7 DEF WorkerReverify, Decide
    <2> QED BY <1>3, <2>2, <2>3, <2>4, <2>5, <2>6, <2>7 DEF WorkerRuns
  <1>4. CASE WorkerFinalize(r)
    BY <1>1, <1>4 DEF WorkerFinalize, WriteStatus, WriteHashes, WriteFinished, Go, RunInv,
                      HoldsGpu, Worker
  <1>5. CASE WorkerRaises(r)
    BY <1>1, <1>5 DEF WorkerRaises, Decide, RunInv, HoldsGpu, Terminal, evidenceVars, Worker
  <1>6. CASE KillWorker(r)
    BY <1>1, <1>6 DEF KillWorker, RunInv, HoldsGpu, evidenceVars, WorkerAlive, Worker
  <1> QED BY <1>2, <1>3, <1>4, <1>5, <1>6 DEF WorkerStep

\* A worker's step keeps the invariant.
LEMMA WorkerInv ==
  ASSUME IInv, NEW r \in Runs,
         StartWorker(r) \/ WorkerStep(r) \/ WorkerRaises(r) \/ KillWorker(r)
  PROVE  RunInv' /\ CmdInv' /\ LockInv'
  <1> USE DEF IInv
  <1>1. RunInv'
    <2> SUFFICES ASSUME NEW q \in Runs PROVE RunInv!(q)'
      BY DEF RunInv
    <2>1. CASE q = r
      BY <2>1, WorkerFrame, WorkerOwn
    <2>2. CASE q # r
      BY <2>2, WorkerFrame DEF RunInv
    <2> QED BY <2>1, <2>2
  <1>2. CmdInv'
    <2> SUFFICES ASSUME NEW c \in Cmds PROVE CmdInv!(c)'
      BY DEF CmdInv
    <2>1. CASE cmd[c].run = r
      BY <2>1, WorkerFrame DEF CmdInv
    <2>2. CASE cmd[c].run # r
      BY <2>2, WorkerFrame DEF CmdInv, Launching, Settling
    <2> QED BY <2>1, <2>2
  <1>3. LockInv'
    BY WorkerFrame, WorkerOwn DEF LockInv, HoldsGpu
  <1> QED BY <1>1, <1>2, <1>3

\* What the steps of a command leave alone.
LEMMA CommandFrame ==
  ASSUME IInv, NEW c \in Cmds, NEW r,
         \/ r \in Runs /\ (LaunchChecks(c, r) \/ CancelRequest(c, r) \/ FetchLook(c, r))
         \/ r = cmd[c].run /\ (CmdStep(c) \/ Die(c))
  PROVE  /\ r \in Runs
         /\ procs' = procs
         /\ \A q \in Runs : worker'[q].pc = worker[q].pc /\ worker'[q].lock = worker[q].lock
                           /\ worker'[q].verdict = worker[q].verdict
         /\ \A q \in Runs \ {r} : status'[q] = status[q] /\ marks'[q] = marks[q]
                               /\ accepted'[q] = accepted[q]
         /\ \A q \in Runs, d \in Cmds \ {c} : control[q] = d => control'[q] = d
         /\ \A d \in Cmds \ {c} : cmd'[d].run = cmd[d].run /\ cmd'[d].pc = cmd[d].pc
                               /\ cmd'[d].verdict = cmd[d].verdict
         /\ control[r] \in {None, c} \/ UNCHANGED <<status, marks, accepted>>
  <1> USE NoneAssumption DEF IInv, TypeOK, hostVars, evidenceVars
  <1>1. CASE r \in Runs /\ LaunchChecks(c, r)
    BY <1>1 DEF LaunchChecks, Issue, Begin, Lockable
  <1>2. CASE r \in Runs /\ CancelRequest(c, r)
    BY <1>2 DEF CancelRequest, Issue, Begin, Lockable
  <1>3. CASE r \in Runs /\ FetchLook(c, r)
    <2>1. \A d \in Cmds \ {c} : cmd'[d] = cmd[d] \/ cmd'[d] = [cmd[d] EXCEPT !.alone = FALSE]
      BY <1>3 DEF FetchLook
    <2>2. \A d \in Cmds \ {c} : cmd'[d].run = cmd[d].run /\ cmd'[d].pc = cmd[d].pc
                              /\ cmd'[d].verdict = cmd[d].verdict
      BY <2>1 DEF Command
    <2>3. UNCHANGED <<procs, worker, status, marks, accepted, control>>
      BY <1>3 DEF FetchLook, Issue
    <2> QED BY <1>3, <2>2, <2>3
  <1>4. CASE r = cmd[c].run /\ (CmdStep(c) \/ Die(c))
    <2>1. r \in Runs
      BY <1>4 DEF CmdInv, CmdStep, Die, LaunchMark, LaunchInspect, LaunchSubmit, LaunchExec,
                  CancelSignal, CmdFinalize, Settle, FetchCopy, FetchIdentify, FetchVerify
    <2>0. cmd[c].pc \in {"mark"} \cup Launching \cup Settling => control[r] = c
      BY <1>4 DEF CmdInv
    <2> USE <2>0 DEF Launching, Settling
    <2>2. CASE LaunchMark(c)
      BY <1>4, <2>1, <2>2 DEF LaunchMark, End, Step, Unlocked
    <2>3. CASE LaunchInspect(c)
      BY <1>4, <2>1, <2>3 DEF LaunchInspect, Step, Fail
    <2>4. CASE LaunchSubmit(c)
      BY <1>4, <2>1, <2>4 DEF LaunchSubmit, Step
    <2>5. CASE LaunchExec(c)
      BY <1>4, <2>1, <2>5 DEF LaunchExec, End, Unlocked
    <2>6. CASE CancelSignal(c)
      BY <1>4, <2>1, <2>6 DEF CancelSignal, End, Worker
    <2>7. CASE CmdFinalize(c)
      BY <1>4, <2>1, <2>7 DEF CmdFinalize, Settle, WriteStatus, WriteHashes, WriteFinished,
                              Step, End, Unlocked
    <2>8. CASE FetchCopy(c) \/ FetchIdentify(c) \/ FetchVerify(c)
      BY <1>4, <2>1, <2>8 DEF FetchCopy, FetchIdentify, FetchVerify, Step, End
    <2>9. CASE Die(c)
      BY <1>4, <2>1, <2>9 DEF Die, End, Unlocked
    <2> QED BY <1>4, <2>2, <2>3, <2>4, <2>5, <2>6, <2>7, <2>8, <2>9 DEF CmdStep
  <1> QED BY <1>1, <1>2, <1>3, <1>4

\* What a command begins with.
LEMMA BeginOwn ==
  ASSUME NEW c \in Cmds, NEW op, NEW r, NEW pc, NEW v,
         cmd \in [Cmds -> Command], Begin(c, op, r, pc, v)
  PROVE  cmd'[c].run = r /\ cmd'[c].pc = pc /\ cmd'[c].verdict = v
  <1>1. \A m \in Command :
          LET n == [m EXCEPT !.op = op, !.run = r, !.pc = pc, !.verdict = v]
          IN  n.run = r /\ n.pc = pc /\ n.verdict = v
    BY DEF Command
  <1> QED BY <1>1, IdleType DEF Begin

\* What a command's step makes of its own run and of its own record.
LEMMA CommandOwn ==
  ASSUME IInv, NEW c \in Cmds, NEW r,
         \/ r \in Runs /\ (LaunchChecks(c, r) \/ CancelRequest(c, r) \/ FetchLook(c, r))
         \/ r = cmd[c].run /\ (CmdStep(c) \/ Die(c))
  PROVE  RunInv!(r)' /\ CmdInv!(c)'
  <1> USE NoneAssumption DEF IInv, TypeOK, hostVars, evidenceVars, Launching, Settling
  <1>0. r \in Runs
    BY CommandFrame
  <1>1. CASE LaunchChecks(c, r)
    <2>1. cmd'[c].run = r /\ cmd'[c].pc = "mark"
      BY <1>1 DEF LaunchChecks, Begin, Idle, Command
    <2> QED BY <1>0, <1>1, <2>1 DEF LaunchChecks, LaunchRefused, Issue, RunInv
  <1>2. CASE CancelRequest(c, r)
    <2>1. /\ cmd'[c].run = r
          /\ IF Launched(r) THEN cmd'[c].pc = "signal"
             ELSE cmd'[c].pc = "write_status" /\ cmd'[c].verdict = "cancelled"
      <3>1. CASE Launched(r)
        BY <1>2, <3>1, BeginOwn DEF CancelRequest
      <3>2. CASE ~Launched(r)
        BY <1>2, <3>2, BeginOwn DEF CancelRequest
      <3> QED BY <3>1, <3>2
    <2>2. CmdInv!(c)'
      BY <1>0, <1>2, <2>1 DEF CancelRequest, Issue, Launched, RunInv
    <2>3. RunInv!(r)'
      BY <1>0, <1>2 DEF CancelRequest, Issue, RunInv
    <2> QED BY <2>2, <2>3
  <1>3. CASE FetchLook(c, r)
    <2>1. cmd'[c] = [Idle EXCEPT !.op = "fetch", !.run = r, !.pc = "copy_hashes",
                                 !.alone = {d \in Cmds \ {c} : Fetching(d)} = {}]
      BY <1>3 DEF FetchLook
    <2>2. cmd'[c].run = r /\ cmd'[c].pc = "copy_hashes"
      BY <2>1 DEF Idle
    <2>3. UNCHANGED <<procs, worker, status, marks, accepted>>
      BY <1>3 DEF FetchLook, Issue
    <2> QED BY <1>0, <2>2, <2>3 DEF RunInv
  <1>4. CASE r = cmd[c].run /\ LaunchMark(c)
    <2>1. "finished" \in marks[r] => "launch" \in marks[r]
      BY <1>0, <1>4 DEF LaunchMark, RunInv, CmdInv
    <2>2. cmd'[c] = Idle \/ (cmd'[c].run = r /\ cmd'[c].pc = "inspect" /\ ~Launched(r))
      BY <1>4 DEF LaunchMark, End, Step, Command
    <2> QED BY <1>0, <1>4, <2>1, <2>2 DEF LaunchMark, RunInv, CmdInv, Launched, Idle
  <1>5. CASE r = cmd[c].run /\ LaunchInspect(c)
    <2>1. \/ cmd'[c].run = r /\ cmd'[c].pc = "submit"
          \/ cmd'[c].run = r /\ cmd'[c].pc = "write_status" /\ cmd'[c].verdict = "failed"
      BY <1>5 DEF LaunchInspect, Fail, Step, Command
    <2> QED BY <1>0, <1>5, <2>1 DEF LaunchInspect, RunInv, CmdInv
  <1>6. CASE r = cmd[c].run /\ LaunchSubmit(c)
    <2>1. cmd'[c].run = r /\ cmd'[c].pc = "exec"
      BY <1>6 DEF LaunchSubmit, Step, Command
    <2> QED BY <1>0, <1>6, <2>1 DEF LaunchSubmit, RunInv, CmdInv
  <1>7. CASE r = cmd[c].run /\ LaunchExec(c)
    <2>1. cmd'[c] = Idle
      BY <1>7 DEF LaunchExec, End
    <2> QED BY <1>0, <1>7, <2>1 DEF LaunchExec, RunInv, CmdInv, Idle
  <1>8. CASE r = cmd[c].run /\ CancelSignal(c)
    <2>1. cmd'[c] = Idle
      BY <1>8 DEF CancelSignal, End
    <2>2. worker'[r].pc = worker[r].pc /\ worker'[r].lock = worker[r].lock
          /\ worker'[r].verdict = worker[r].verdict
      BY <1>0, CommandFrame
    <2> QED BY <1>0, <1>8, <2>1, <2>2 DEF CancelSignal, RunInv, Idle
  <1>9. CASE r = cmd[c].run /\ CmdFinalize(c)
    <2>1. \/ cmd[c].pc = "write_status" /\ cmd'[c].pc = "write_hashes"
            /\ cmd'[c].run = r /\ cmd'[c].verdict = cmd[c].verdict
          \/ cmd[c].pc = "write_hashes" /\ cmd'[c].pc = "finish"
            /\ cmd'[c].run = r /\ cmd'[c].verdict = cmd[c].verdict
          \/ cmd[c].pc = "finish" /\ cmd'[c] = Idle
      BY <1>9 DEF CmdFinalize, Settle, Step, End, Command
    <2>2. cmd[c].pc = "write_status" => status'[r].state = cmd[c].verdict
      BY <1>0, <1>9 DEF CmdFinalize, Settle, WriteStatus, FinalStatus
    <2> QED BY <1>0, <1>9, <2>1, <2>2
          DEF CmdFinalize, Settle, WriteStatus, WriteHashes, WriteFinished, RunInv, CmdInv, Idle
  <1>10. CASE r = cmd[c].run /\ (FetchCopy(c) \/ FetchIdentify(c) \/ FetchVerify(c))
    <2>1. cmd'[c] = Idle \/ (cmd'[c].run = r /\ cmd'[c].pc \in
             {"copy_status", "copy_manifest", "identify", "verify", "verified"})
      BY <1>10 DEF FetchCopy, FetchIdentify, FetchVerify, Step, End, Command
    <2> QED BY <1>0, <1>10, <2>1 DEF FetchCopy, FetchIdentify, FetchVerify, RunInv, Idle
  <1>11. CASE r = cmd[c].run /\ Die(c)
    <2>1. cmd'[c] = Idle
      BY <1>11 DEF Die, End
    <2> QED BY <1>0, <1>11, <2>1 DEF Die, RunInv, Idle
  <1> QED BY <1>1, <1>2, <1>3, <1>4, <1>5, <1>6, <1>7, <1>8, <1>9, <1>10, <1>11 DEF CmdStep

\* Every step of a command keeps the invariant.
LEMMA CommandInv ==
  ASSUME IInv, NEW c \in Cmds, NEW r,
         \/ r \in Runs /\ (LaunchChecks(c, r) \/ CancelRequest(c, r) \/ FetchLook(c, r))
         \/ r = cmd[c].run /\ (CmdStep(c) \/ Die(c))
  PROVE  RunInv' /\ CmdInv' /\ LockInv'
  <1> USE DEF IInv
  <1>1. RunInv'
    <2> SUFFICES ASSUME NEW q \in Runs PROVE RunInv!(q)'
      BY DEF RunInv
    <2>1. CASE q = r
      BY <2>1, CommandOwn
    <2>2. CASE q # r
      BY <2>2, CommandFrame DEF RunInv
    <2> QED BY <2>1, <2>2
  <1>2. CmdInv'
    <2> SUFFICES ASSUME NEW d \in Cmds PROVE CmdInv!(d)'
      BY DEF CmdInv
    <2>1. CASE d = c
      BY <2>1, CommandOwn
    <2>2. CASE d # c /\ cmd[d].run = r
      <3>1. cmd[d].pc \in {"mark"} \cup Launching \cup Settling =>
              control[r] = d /\ control'[r] = d
        BY <2>2, CommandFrame DEF CmdInv
      <3>2. d # None
        BY NoneAssumption
      <3> QED BY <2>2, <3>1, <3>2, CommandFrame DEF CmdInv
    <2>3. CASE d # c /\ cmd[d].run # r
      BY <2>3, CommandFrame DEF CmdInv, Launching, Settling
    <2> QED BY <2>1, <2>2, <2>3
  <1>3. LockInv'
    BY CommandFrame DEF LockInv, HoldsGpu
  <1> QED BY <1>1, <1>2, <1>3

\* And every step.
LEMMA NextInv == IInv /\ [Next]_vars => IInv'
  <1> SUFFICES ASSUME IInv, [Next]_vars PROVE RunInv' /\ CmdInv' /\ LockInv'
    BY NextType DEF IInv
  <1>1. CASE \E r \in Runs : Sync(r) \/ Damage(r)
    BY <1>1 DEF Sync, Damage, IInv, RunInv, CmdInv, LockInv, HoldsGpu, evidenceVars
  <1>2. CASE \E r \in Runs : StageEnds(r)
    BY <1>2 DEF StageEnds, IInv, TypeOK, RunInv, CmdInv, LockInv, HoldsGpu, evidenceVars
  <1>3. CASE \E r \in Runs : StartWorker(r) \/ WorkerStep(r) \/ WorkerRaises(r) \/ KillWorker(r)
    BY <1>3, WorkerInv
  <1>4. CASE \E c \in Cmds, r \in Runs :
               LaunchChecks(c, r) \/ CancelRequest(c, r) \/ FetchLook(c, r)
    BY <1>4, CommandInv
  <1>5. CASE \E c \in Cmds : CmdStep(c) \/ Die(c)
    BY <1>5, CommandInv
  <1>6. CASE UNCHANGED vars
    BY <1>6 DEF vars, IInv, RunInv, CmdInv, LockInv, HoldsGpu
  <1> QED BY <1>1, <1>2, <1>3, <1>4, <1>5, <1>6 DEF Next

-----------------------------------------------------------------------------
(* Theorems *)

\* Every state of every instance is type correct and satisfies the invariant.
THEOREM Invariance == Spec => []IInv
  BY InitInv, NextInv, PTL DEF Spec

\* The remote runs' state has its type: runs, supervisors, commands and the files they
\* exchange.
THEOREM TypeCorrect == Spec => []TypeOK
  <1>1. IInv => TypeOK
    BY DEF IInv
  <1> QED BY <1>1, Invariance, PTL

\* However many runs share the GPU, and whatever is killed, two of them have
\* stages on it together only beside a child that lost worker and leader.
THEOREM ExclusiveGpu == Spec => []GpuIsExclusive
  <1>1. IInv => GpuIsExclusive
    BY DEF IInv, TypeOK, RunInv, LockInv, HoldsGpu, GpuIsExclusive, Orphaned
  <1> QED BY <1>1, Invariance, PTL

\* finished.json is never on disk while something of the run is alive or due.
THEOREM QuietWhenFinished == Spec => []FinishedIsQuiet
  <1>1. IInv => FinishedIsQuiet
    BY DEF IInv, RunInv, FinishedIsQuiet, WorkerAlive
  <1> QED BY <1>1, Invariance, PTL

\* No step replaces the outcome of a finished run, or takes finished.json away.
LEMMA OutcomeStays ==
  ASSUME IInv, [Next]_vars, NEW r \in Runs, "finished" \in marks[r]
  PROVE  status'[r].state = status[r].state
  <1>1. CASE \E q \in Runs : Sync(q) \/ Damage(q) \/ StageEnds(q)
    BY <1>1 DEF Sync, Damage, StageEnds, evidenceVars
  <1>2. CASE \E q \in Runs :
               StartWorker(q) \/ WorkerStep(q) \/ WorkerRaises(q) \/ KillWorker(q)
    BY <1>2, WorkerFrame
  <1>3. CASE \E c \in Cmds, q \in Runs :
               LaunchChecks(c, q) \/ CancelRequest(c, q) \/ FetchLook(c, q)
    BY <1>3 DEF LaunchChecks, CancelRequest, FetchLook, Issue
  <1>4. CASE \E c \in Cmds : CmdFinalize(c)
    <2> PICK c \in Cmds : CmdFinalize(c)
      BY <1>4
    <2>1. CASE cmd[c].run = r /\ cmd[c].pc = "write_status"
      <3>1. cmd[c].verdict = "cancelled" /\ "launch" \notin marks[r]
        BY <2>1 DEF IInv, CmdInv, Settling
      <3>2. status[r].state = "cancelled"
        BY <3>1 DEF IInv, RunInv
      <3> QED BY <2>1, <3>1, <3>2
            DEF CmdFinalize, Settle, WriteStatus, FinalStatus, IInv, TypeOK
    <2>2. CASE ~(cmd[c].run = r /\ cmd[c].pc = "write_status")
      BY <2>2 DEF CmdFinalize, Settle, WriteStatus, WriteHashes, WriteFinished, IInv, TypeOK
    <2> QED BY <2>1, <2>2
  <1>5. CASE \E c \in Cmds : Die(c) \/ (CmdStep(c) /\ ~CmdFinalize(c))
    BY <1>5 DEF Die, CmdStep, LaunchMark, LaunchInspect, LaunchSubmit, LaunchExec, CancelSignal,
                FetchCopy, FetchIdentify, FetchVerify, evidenceVars
  <1>6. CASE UNCHANGED vars
    BY <1>6 DEF vars
  <1> QED BY <1>1, <1>2, <1>3, <1>4, <1>5, <1>6 DEF Next

\* A finished run stays finished.
LEMMA FinishedStays ==
  ASSUME IInv, [Next]_vars, NEW r \in Runs, "finished" \in marks[r]
  PROVE  "finished" \in marks'[r]
  <1>0. marks \in [Runs -> SUBSET Markers]
    BY DEF IInv, TypeOK
  <1>1. CASE \E q \in Runs : Sync(q) \/ Damage(q) \/ StageEnds(q)
    BY <1>1 DEF Sync, Damage, StageEnds, evidenceVars
  <1>2. CASE \E q \in Runs :
               StartWorker(q) \/ WorkerStep(q) \/ WorkerRaises(q) \/ KillWorker(q)
    BY <1>2, WorkerFrame
  <1>3. CASE \E c \in Cmds, q \in Runs :
               LaunchChecks(c, q) \/ CancelRequest(c, q) \/ FetchLook(c, q)
    BY <1>0, <1>3 DEF LaunchChecks, CancelRequest, FetchLook, Issue
  <1>4. CASE \E c \in Cmds : CmdStep(c) \/ Die(c)
    BY <1>0, <1>4 DEF Die, CmdStep, LaunchMark, LaunchInspect, LaunchSubmit, LaunchExec, CancelSignal,
                FetchCopy, FetchIdentify, FetchVerify, evidenceVars, CmdFinalize, Settle,
                WriteStatus, WriteHashes, WriteFinished
  <1>5. CASE UNCHANGED vars
    BY <1>5 DEF vars
  <1> QED BY <1>1, <1>2, <1>3, <1>4, <1>5 DEF Next

\* No command and no worker replaces the outcome of a finished run.
THEOREM FinalOutcome == Spec => OutcomeIsFinal
  <1>1. IInv /\ [Next]_vars => \A r \in Runs : "finished" \in marks[r] =>
                                  status'[r].state = status[r].state
    BY OutcomeStays
  <1> QED BY <1>1, Invariance, PTL DEF Spec, OutcomeIsFinal

-----------------------------------------------------------------------------
(* Fetched evidence *)

FetchPcs ==
  {"copy_hashes", "copy_status", "copy_manifest", "identify", "verify", "verified"}

\* A status.json that is there names its run, and a live worker has one.
StatusNamesRun ==
  \A r \in Runs : status[r].state # "absent" \/ WorkerAlive(r) => status[r].run = r

\* A fetch is of a finished run; while it is alone nobody else fills its
\* destination, and from the copy of status.json on it has the run's outcome.
Fetched(c) ==
  /\ cmd[c].op = "fetch" <=> cmd[c].pc \in FetchPcs
  /\ cmd[c].pc \in FetchPcs =>
       /\ cmd[c].run \in Runs
       /\ "finished" \in marks[cmd[c].run]
       /\ status[cmd[c].run].state \in Terminal
  /\ cmd[c].pc \in {"copy_manifest", "identify", "verify"} /\ cmd[c].alone =>
       /\ out.status.run = cmd[c].run
       /\ out.status.state = status[cmd[c].run].state
  /\ cmd[c].pc = "verified" /\ cmd[c].alone =>
       /\ cmd[c].claim.run = cmd[c].run
       /\ cmd[c].claim.state = status[cmd[c].run].state
  /\ Fetching(c) /\ cmd[c].alone => \A d \in Cmds \ {c} : ~Fetching(d)

FetchInv == StatusNamesRun /\ \A c \in Cmds : Fetched(c)

\* A status that is there is that of the run whose directory it lies in.
LEMMA StatusNames ==
  ASSUME IInv, StatusNamesRun, [Next]_vars
  PROVE  StatusNamesRun'
  <1> SUFFICES ASSUME NEW r \in Runs, status'[r].state # "absent" \/ WorkerAlive(r)'
               PROVE  status'[r].run = r
    BY DEF StatusNamesRun
  <1>0. status \in [Runs -> Files] /\ worker \in [Runs -> Worker]
    BY DEF IInv, TypeOK
  <1>1. ASSUME NEW q \in Runs, StartWorker(q) PROVE status'[r].run = r
    <2>1. status' = [status EXCEPT ![q].state = "starting", ![q].run = q]
      BY <1>1 DEF StartWorker
    <2>2. CASE r = q
      BY <1>0, <2>1, <2>2 DEF Files
    <2>3. CASE r # q
      BY <1>0, <1>1, <2>1, <2>3 DEF StatusNamesRun, StartWorker, WorkerAlive
    <2> QED BY <2>2, <2>3
  <1>2. ASSUME NEW q \in Runs, WorkerStep(q) \/ WorkerRaises(q) \/ KillWorker(q)
        PROVE  status'[r].run = r
    <2>1. CASE r # q
      BY <1>2, <2>1, WorkerFrame DEF StatusNamesRun, WorkerAlive
    <2>2. CASE r = q
      <3>1. WorkerAlive(r)
        BY <1>2, <2>2 DEF WorkerStep, WorkerRuns, WorkerFinalize, WorkerRaises, KillWorker,
           WorkerVerify, WorkerLock, WorkerIdle, WorkerLoop, WorkerStage, WorkerReverify, WorkerAlive
      <3>2. status[r].run = r
        BY <3>1 DEF StatusNamesRun
      <3>3. \/ status' = status
            \/ status' = [status EXCEPT ![r].state = "running"]
            \/ \E v : WriteStatus(r, v)
        BY <1>2, <2>2 DEF WorkerStep, WorkerRuns, WorkerFinalize, WorkerRaises, KillWorker,
           WorkerVerify, WorkerLock, WorkerIdle, WorkerLoop, WorkerStage, WorkerReverify,
           WriteHashes, WriteFinished, evidenceVars
      <3> QED BY <1>0, <3>2, <3>3 DEF WriteStatus, FinalStatus, Files
    <2> QED BY <2>1, <2>2
  <1>3. ASSUME NEW c \in Cmds, NEW q,
               \/ q \in Runs /\ (LaunchChecks(c, q) \/ CancelRequest(c, q) \/ FetchLook(c, q))
               \/ q = cmd[c].run /\ (CmdStep(c) \/ Die(c))
        PROVE  status'[r].run = r
    <2>1. WorkerAlive(r)' = WorkerAlive(r)
      BY <1>3, CommandFrame DEF WorkerAlive
    <2>2. status' = status \/ WriteStatus(cmd[c].run, cmd[c].verdict)
      <3>1. CASE CmdFinalize(c)
        BY <3>1 DEF CmdFinalize, Settle, WriteHashes, WriteFinished
      <3>2. CASE LaunchChecks(c, q) \/ CancelRequest(c, q) \/ FetchLook(c, q)
        BY <3>2 DEF LaunchChecks, CancelRequest, FetchLook, Issue
      <3>3. CASE (CmdStep(c) /\ ~CmdFinalize(c)) \/ Die(c)
        BY <3>3 DEF CmdStep, Die, LaunchMark, LaunchInspect, LaunchSubmit, LaunchExec,
           CancelSignal, FetchCopy, FetchIdentify, FetchVerify, evidenceVars
      <3> QED BY <1>3, <3>1, <3>2, <3>3
    <2> QED BY <1>0, <2>1, <2>2 DEF StatusNamesRun, WriteStatus, FinalStatus
  <1>4. CASE \E q \in Runs : Sync(q) \/ Damage(q) \/ StageEnds(q)
    BY <1>4 DEF Sync, Damage, StageEnds, evidenceVars, StatusNamesRun, WorkerAlive
  <1>5. CASE UNCHANGED vars
    BY <1>5 DEF vars, StatusNamesRun, WorkerAlive
  <1> QED BY <1>1, <1>2, <1>3, <1>4, <1>5 DEF Next

\* What a fetch has seen of its run stays so.
LEMMA FetchedRunKept ==
  ASSUME IInv, [Next]_vars, NEW c \in Cmds, Fetched(c), cmd[c].pc \in FetchPcs
  PROVE  /\ "finished" \in marks'[cmd[c].run]
         /\ status'[cmd[c].run].state = status[cmd[c].run].state
  BY OutcomeStays, FinishedStays DEF Fetched

\* A step that is not the fetch's own.
LEMMA FetchedByOthers ==
  ASSUME IInv, [Next]_vars, NEW c \in Cmds, Fetched(c),
         \/ cmd'[c] = cmd[c]
         \/ cmd'[c] = [cmd[c] EXCEPT !.alone = FALSE],
         Fetching(c) /\ cmd'[c].alone =>
           out' = out /\ \A d \in Cmds \ {c} : ~Fetching(d)'
  PROVE  Fetched(c)'
  <1>1. cmd[c] \in Command
    BY DEF IInv, TypeOK
  <1>2. /\ cmd'[c].op = cmd[c].op /\ cmd'[c].pc = cmd[c].pc /\ cmd'[c].run = cmd[c].run
        /\ cmd'[c].claim = cmd[c].claim /\ (cmd'[c].alone => cmd[c].alone)
    BY <1>1 DEF Command
  <1>3. cmd[c].pc \in FetchPcs \ {"verified"} <=> Fetching(c)
    BY DEF Fetched, Fetching, FetchPcs
  <1>4. Fetching(c)' <=> Fetching(c)
    BY <1>2 DEF Fetching
  <1>5. cmd[c].pc \in FetchPcs =>
          /\ "finished" \in marks'[cmd[c].run]
          /\ status'[cmd[c].run].state = status[cmd[c].run].state
    BY FetchedRunKept
  <1> QED BY <1>2, <1>3, <1>4, <1>5 DEF Fetched, FetchPcs

\* The fetch's own steps.
LEMMA FetchedByLook ==
  ASSUME IInv, [Next]_vars, NEW c \in Cmds, NEW r \in Runs, FetchLook(c, r)
  PROVE  Fetched(c)' /\ \A d \in Cmds \ {c} :
           /\ cmd'[d] = cmd[d] \/ cmd'[d] = [cmd[d] EXCEPT !.alone = FALSE]
           /\ ~(Fetching(d) /\ cmd'[d].alone)
  <1> DEFINE others == {d \in Cmds \ {c} : Fetching(d)}
  <1>1. /\ Finalized(r) /\ UNCHANGED <<marks, status, out>>
        /\ cmd' = [d \in Cmds |->
             IF d = c THEN [Idle EXCEPT !.op = "fetch", !.run = r, !.pc = "copy_hashes",
                                        !.alone = others = {}]
             ELSE IF d \in others THEN [cmd[d] EXCEPT !.alone = FALSE]
             ELSE cmd[d]]
    BY DEF FetchLook, Issue
  <1>2. /\ cmd'[c].op = "fetch" /\ cmd'[c].run = r /\ cmd'[c].pc = "copy_hashes"
        /\ cmd'[c].alone = (others = {})
    BY <1>1 DEF Idle
  <1>3. \A d \in Cmds \ {c} :
          /\ cmd'[d].op = cmd[d].op /\ cmd'[d].pc = cmd[d].pc
          /\ d \in others => ~cmd'[d].alone
          /\ cmd'[d] = cmd[d] \/ cmd'[d] = [cmd[d] EXCEPT !.alone = FALSE]
    BY <1>1 DEF Command, IInv, TypeOK
  <1>4. \A d \in Cmds \ {c} : Fetching(d)' = Fetching(d)
    BY <1>3 DEF Fetching
  <1>5. cmd'[c].alone => \A d \in Cmds \ {c} : ~Fetching(d)'
    BY <1>2, <1>4
  <1>6. Fetched(c)'
    BY <1>1, <1>2, <1>5 DEF Fetched, FetchPcs, Finalized
  <1> QED BY <1>3, <1>6

\* What a lone fetch has copied stays so in the steps that copy.
LEMMA FetchedOwn ==
  ASSUME IInv, StatusNamesRun, [Next]_vars, NEW c \in Cmds, Fetched(c),
         FetchCopy(c) \/ FetchIdentify(c) \/ FetchVerify(c)
  PROVE  Fetched(c)'
  <1>1. /\ cmd[c] \in Command /\ cmd \in [Cmds -> Command] /\ out.status \in Files
        /\ out \in [manifest: Runs \cup {None}, hashes: Files, status: Files]
    BY DEF IInv, TypeOK
  <1>2. UNCHANGED <<marks, status>>
    BY DEF FetchCopy, FetchIdentify, FetchVerify, evidenceVars
  <1>3. cmd[c].pc \in FetchPcs \ {"verified"}
    BY DEF FetchCopy, FetchIdentify, FetchVerify, FetchPcs
  <1>4. /\ cmd[c].op = "fetch" /\ cmd[c].run \in Runs /\ "finished" \in marks[cmd[c].run]
        /\ status[cmd[c].run].state \in Terminal
        /\ status[cmd[c].run].run = cmd[c].run
        /\ cmd[c].alone => \A d \in Cmds \ {c} : ~Fetching(d)
    BY <1>3 DEF Fetched, StatusNamesRun, Fetching, FetchPcs, Terminal
  <1>5. \A d \in Cmds \ {c} : cmd'[d] = cmd[d]
    BY <1>1 DEF FetchCopy, FetchIdentify, FetchVerify, Step, End
  <1>6. \A d \in Cmds \ {c} : Fetching(d)' = Fetching(d)
    BY <1>5 DEF Fetching
  <1>7. CASE cmd'[c] = Idle
    BY <1>7, NoOperationAssumption DEF Fetched, FetchPcs, Idle, Fetching
  <1>8. ASSUME NEW pc \in {"copy_status", "copy_manifest", "identify", "verify"}, Step(c, pc)
        PROVE  cmd'[c].pc = pc /\ cmd'[c].op = "fetch" /\ cmd'[c].run = cmd[c].run
               /\ cmd'[c].alone = cmd[c].alone
    BY <1>1, <1>4, <1>8 DEF Step, Command
  <1>9. CASE FetchCopy(c)
    <2>1. CASE cmd[c].pc = "copy_hashes" /\ Step(c, "copy_status")
      BY <1>2, <1>4, <1>6, <1>8, <2>1 DEF Fetched, FetchPcs
    <2>2. CASE cmd[c].pc = "copy_status" /\ Step(c, "copy_manifest")
               /\ out' = [out EXCEPT !.status = status[cmd[c].run]]
      <3>1. out'.status = status[cmd[c].run]
        BY <1>1, <2>2
      <3> QED BY <1>2, <1>4, <1>6, <1>8, <2>2, <3>1 DEF Fetched, FetchPcs
    <2>3. CASE cmd[c].pc = "copy_manifest" /\ Step(c, "identify")
               /\ out' = [out EXCEPT !.manifest = cmd[c].run]
      <3>1. out'.status = out.status
        BY <1>1, <2>3
      <3> QED BY <1>2, <1>4, <1>6, <1>8, <2>3, <3>1 DEF Fetched, FetchPcs
    <2> QED BY <1>9, <2>1, <2>2, <2>3 DEF FetchCopy
  <1>10. CASE FetchIdentify(c)
    <2>1. out' = out /\ cmd[c].pc = "identify"
      BY <1>10 DEF FetchIdentify
    <2>2. Step(c, "verify") \/ cmd'[c] = Idle
      BY <1>1, <1>10 DEF FetchIdentify, End
    <2> QED BY <1>2, <1>4, <1>6, <1>7, <1>8, <2>1, <2>2 DEF Fetched, FetchPcs
  <1>11. CASE FetchVerify(c)
    <2>1. out' = out /\ cmd[c].pc = "verify"
      BY <1>11 DEF FetchVerify
    <2>2. CASE cmd' = [cmd EXCEPT ![c].pc = "verified", ![c].claim = out.status]
      <3>1. /\ cmd'[c].pc = "verified" /\ cmd'[c].claim = out.status /\ cmd'[c].op = cmd[c].op
            /\ cmd'[c].run = cmd[c].run /\ cmd'[c].alone = cmd[c].alone
        BY <1>1, <2>2 DEF Command
      <3> QED BY <1>2, <1>4, <2>1, <3>1 DEF Fetched, FetchPcs, Fetching
    <2>3. CASE cmd'[c] = Idle
      BY <1>7, <2>3
    <2> QED BY <1>1, <1>11, <2>2, <2>3 DEF FetchVerify, End
  <1> QED BY <1>9, <1>10, <1>11

\* Launches, cancellations and deaths are no fetches.
LEMMA FetchedNot ==
  ASSUME IInv, NEW c \in Cmds, Fetched(c),
         \/ \E r \in Runs : LaunchChecks(c, r) \/ CancelRequest(c, r)
         \/ CmdStep(c) /\ ~(FetchCopy(c) \/ FetchIdentify(c) \/ FetchVerify(c))
         \/ Die(c)
  PROVE  /\ Fetched(c)' /\ ~Fetching(c)' /\ out' = out
         /\ \A d \in Cmds \ {c} : cmd'[d] = cmd[d]
  <1>1. cmd[c] \in Command /\ cmd \in [Cmds -> Command]
    BY DEF IInv, TypeOK
  <1>2. ASSUME NEW op \in {"launch", "cancel"}, NEW r, NEW pc \in {"mark", "signal", "write_status"},
               NEW v, Begin(c, op, r, pc, v)
        PROVE  cmd'[c].op = op /\ cmd'[c].pc = pc
    <2>1. \A m \in Command :
            LET n == [m EXCEPT !.op = op, !.run = r, !.pc = pc, !.verdict = v]
            IN  n.op = op /\ n.pc = pc
      BY DEF Command
    <2> QED BY <1>1, <1>2, <2>1, IdleType DEF Begin
  <1>3. ASSUME NEW pc \in CmdPcs \ FetchPcs, cmd[c].pc \notin FetchPcs, Step(c, pc)
        PROVE  cmd'[c].pc \notin FetchPcs /\ cmd'[c].op # "fetch"
    <2>1. cmd'[c] = [cmd[c] EXCEPT !.pc = pc]
      BY <1>1, <1>3 DEF Step
    <2>2. cmd'[c].pc = pc /\ cmd'[c].op = cmd[c].op
      BY <1>1, <2>1 DEF Command
    <2> QED BY <1>3, <2>2 DEF Fetched
  <1>4. ASSUME cmd'[c] = Idle PROVE Fetched(c)' /\ ~Fetching(c)'
    BY <1>4, NoOperationAssumption DEF Fetched, FetchPcs, Idle, Fetching
  <1>5. ASSUME cmd'[c].op # "fetch", cmd'[c].pc \notin FetchPcs
        PROVE  Fetched(c)' /\ ~Fetching(c)'
    BY <1>5 DEF Fetched, FetchPcs, Fetching
  <1>6. CASE \E r \in Runs : LaunchChecks(c, r) \/ CancelRequest(c, r)
    <2>1. PICK r \in Runs, op \in {"launch", "cancel"}, pc \in {"mark", "signal", "write_status"},
               v \in {None, "cancelled"} : Begin(c, op, r, pc, v)
      BY <1>6 DEF LaunchChecks, CancelRequest
    <2>2. cmd'[c].op # "fetch" /\ cmd'[c].pc \notin FetchPcs
      BY <1>2, <2>1 DEF FetchPcs
    <2>3. out' = out /\ \A d \in Cmds \ {c} : cmd'[d] = cmd[d]
      BY <1>1, <1>6, <2>1 DEF LaunchChecks, CancelRequest, Issue, Begin
    <2> QED BY <1>5, <2>2, <2>3
  <1>7. CASE LaunchMark(c) \/ LaunchSubmit(c) \/ (LaunchInspect(c) /\ Step(c, "submit"))
             \/ CmdFinalize(c)
    <2>1. /\ cmd[c].pc \notin FetchPcs
          /\ cmd'[c] = Idle \/ \E pc \in CmdPcs \ FetchPcs : Step(c, pc)
      BY <1>1, <1>7 DEF LaunchMark, LaunchInspect, LaunchSubmit, CmdFinalize, Settle, End,
         FetchPcs, CmdPcs
    <2>2. out' = out /\ \A d \in Cmds \ {c} : cmd'[d] = cmd[d]
      BY <1>1, <1>7 DEF LaunchMark, LaunchInspect, LaunchSubmit, CmdFinalize, Settle, End, Step
    <2> QED BY <1>3, <1>4, <1>5, <2>1, <2>2
  <1>8. CASE LaunchInspect(c) /\ Fail(c, "failed")
    <2>1. cmd[c].pc = "inspect" /\ out' = out
      BY <1>8 DEF LaunchInspect
    <2>2. cmd[c].op # "fetch"
      BY <2>1 DEF Fetched, FetchPcs
    <2>3. /\ cmd'[c].op = cmd[c].op /\ cmd'[c].pc = "write_status"
          /\ \A d \in Cmds \ {c} : cmd'[d] = cmd[d]
      BY <1>1, <1>8 DEF Fail, Command
    <2> QED BY <1>5, <2>1, <2>2, <2>3 DEF FetchPcs
  <1>9. CASE LaunchExec(c) \/ CancelSignal(c) \/ Die(c)
    <2>1. cmd'[c] = Idle /\ out' = out /\ \A d \in Cmds \ {c} : cmd'[d] = cmd[d]
      BY <1>1, <1>9 DEF LaunchExec, CancelSignal, Die, End
    <2> QED BY <1>4, <2>1
  <1> QED BY <1>6, <1>7, <1>8, <1>9 DEF CmdStep, LaunchInspect

\* Fetches stay right in every step.
LEMMA FetchNext ==
  ASSUME IInv, FetchInv, [Next]_vars
  PROVE  FetchInv'
  <1>0. StatusNamesRun'
    BY StatusNames DEF FetchInv
  <1> SUFFICES ASSUME NEW c \in Cmds PROVE Fetched(c)'
    BY <1>0 DEF FetchInv
  <1>1. StatusNamesRun /\ \A d \in Cmds : Fetched(d)
    BY DEF FetchInv
  <1>2. Fetching(c) /\ cmd[c].alone => \A d \in Cmds \ {c} : ~Fetching(d)
    BY <1>1 DEF Fetched
  <1>3. CASE cmd' = cmd /\ out' = out
    BY <1>1, <1>2, <1>3, FetchedByOthers DEF Fetching
  <1>4. ASSUME NEW d \in Cmds, NEW r \in Runs, FetchLook(d, r) PROVE Fetched(c)'
    <2>1. CASE d = c
      BY <1>4, <2>1, FetchedByLook
    <2>2. CASE d # c
      BY <1>1, <1>4, <2>2, FetchedByLook, FetchedByOthers
    <2> QED BY <2>1, <2>2
  <1>5. ASSUME NEW d \in Cmds, FetchCopy(d) \/ FetchIdentify(d) \/ FetchVerify(d)
        PROVE  Fetched(c)'
    <2>1. CASE d = c
      BY <1>1, <1>5, <2>1, FetchedOwn
    <2>2. CASE d # c
      <3>1. cmd \in [Cmds -> Command]
        BY DEF IInv, TypeOK
      <3>2. cmd'[c] = cmd[c]
        BY <1>5, <2>2, <3>1 DEF FetchCopy, FetchIdentify, FetchVerify, Step, End
      <3>3. Fetching(d)
        BY <1>1, <1>5 DEF FetchCopy, FetchIdentify, FetchVerify, Fetched, FetchPcs, Fetching
      <3>4. ~(Fetching(c) /\ cmd'[c].alone)
        BY <1>2, <2>2, <3>2, <3>3
      <3> QED BY <1>1, <3>2, <3>4, FetchedByOthers
    <2> QED BY <2>1, <2>2
  <1>6. ASSUME NEW d \in Cmds,
               \/ \E r \in Runs : LaunchChecks(d, r) \/ CancelRequest(d, r)
               \/ CmdStep(d) /\ ~(FetchCopy(d) \/ FetchIdentify(d) \/ FetchVerify(d))
               \/ Die(d)
        PROVE  Fetched(c)'
    <2>1. /\ Fetched(d)' /\ ~Fetching(d)' /\ out' = out
          /\ \A e \in Cmds \ {d} : cmd'[e] = cmd[e]
      BY <1>1, <1>6, FetchedNot
    <2>2. CASE d # c
      <3>1. \A e \in Cmds \ {c} : Fetching(e)' => Fetching(e)
        BY <2>1 DEF Fetching
      <3> QED BY <1>1, <1>2, <2>1, <2>2, <3>1, FetchedByOthers
    <2> QED BY <2>1, <2>2
  <1>7. CASE UNCHANGED vars
    BY <1>3, <1>7 DEF vars
  <1>8. ASSUME NEW r \in Runs,
               \/ Sync(r) \/ Damage(r) \/ StartWorker(r) \/ WorkerStep(r)
               \/ WorkerRaises(r) \/ KillWorker(r) \/ StageEnds(r)
        PROVE  Fetched(c)'
    BY <1>3, <1>8 DEF Sync, Damage, StartWorker, WorkerStep, WorkerRuns, WorkerFinalize,
       WorkerRaises, KillWorker, StageEnds
  <1> QED BY <1>4, <1>5, <1>6, <1>7, <1>8 DEF Next

\* A fetch that reports `verified`, and met no other fetch into its destination,
\* has its own run's evidence with the run's final outcome, however many runs,
\* commands, deaths and cancellations there are.
THEOREM VerifiedMeansFinal == Spec => []VerifiedFetchIsFinal
  <1>1. Init => FetchInv
    BY NoOperationAssumption DEF Init, FetchInv, StatusNamesRun, Fetched, FetchPcs, Fetching, Idle, NoFile,
           NoWorker, WorkerAlive
  <1>2. IInv /\ FetchInv /\ [Next]_vars => FetchInv'
    BY FetchNext
  <1>3. FetchInv => VerifiedFetchIsFinal
    BY DEF FetchInv, Fetched, FetchPcs, VerifiedFetchIsFinal
  <1> QED BY <1>1, <1>2, <1>3, Invariance, PTL DEF Spec
=============================================================================
