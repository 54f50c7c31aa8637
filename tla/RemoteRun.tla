------------------------------ MODULE RemoteRun ------------------------------
(***************************************************************************)
(* scripts/kda_remote.py: durable runs on one GPU of a remote host.        *)
(*                                                                         *)
(* A run is synced to a directory of its own on the host, launched there   *)
(* once as a detached worker in a container, cancelled, looked at and      *)
(* fetched by separate commands.  Commands meet in the run directory: a    *)
(* control lock serializes launch and cancel, marker files say how far a   *)
(* run got, status.json and the hash list are the evidence.  Workers of    *)
(* different runs meet at a cooperative lock on the GPU, a flock whose     *)
(* descriptor every stage's leader inherits.                               *)
(*                                                                         *)
(* A command may die at any step, the container may start an accepted      *)
(* worker late or never, a worker may be killed, and the uploaded source   *)
(* may be damaged.  A process group that was sent SIGKILL counts as gone.  *)
(***************************************************************************)
EXTENDS Naturals, Sequences, FiniteSets

CONSTANTS Runs,       \* run ids, all of them on the same GPU
          Cmds,       \* command processes that may be alive together
          None,       \* no run, no command, no file
          Requests,   \* the option combinations `sync` is called with
          MaxOps,     \* bound: operations issued in one behaviour
          MaxFaults   \* bound: commands and workers killed, sources damaged

Terminal == {"completed", "failed", "cancelled", "timed_out", "gpu_busy"}
Markers == {"cancel", "launch", "submission", "finished"}

Workflows == {"candidate", "final", "prepare", "profile"}
Kinds == {"none", "nsys", "ncu"}
Request == [workflow: Workflows \cup {None}, kind: Kinds \cup {None},
            skip: BOOLEAN, smoke: BOOLEAN]

ASSUME RequestsAssumption == Requests \subseteq Request
ASSUME NoneAssumption == None \notin Runs \cup Cmds
ASSUME NoOperationAssumption == None \notin {"launch", "cancel", "fetch"}
ASSUME BoundsAssumption == MaxOps \in Nat /\ MaxFaults \in Nat

-----------------------------------------------------------------------------
(* Options and plan *)

\* The workflow and the profiler a request stands for, before it is refused.
Resolved(q) ==
  LET w == IF q.workflow # None THEN q.workflow
           ELSE IF q.kind = "ncu" THEN "profile" ELSE "candidate"
      k == IF q.skip THEN "none"
           ELSE IF q.kind # None THEN q.kind
           ELSE IF w \in {"prepare", "final"} THEN "nsys" ELSE "none"
  IN  [workflow |-> w, kind |-> k]

Accepted(q) ==
  LET o == Resolved(q)
  IN  /\ ~(q.skip /\ q.kind = "ncu")
      /\ o.workflow \in {"prepare", "final"} => o.kind = "nsys"
      /\ o.kind = "ncu" => o.workflow = "profile"
      /\ o.workflow = "profile" => o.kind # "none"
      /\ ~(o.workflow = "final" /\ q.smoke)

Profiling(o) ==
  CASE o.kind = "ncu" -> <<"ncu_profile", "ncu_export", "ncu_parse">>
    [] o.kind = "nsys" /\ o.workflow = "prepare" -> <<"nsys_profile", "nsys_stats">>
    [] o.kind = "nsys" /\ o.workflow # "prepare" ->
         <<"nsys_profile_baseline", "nsys_stats_baseline",
           "nsys_profile_candidate", "nsys_stats_candidate">>
    [] OTHER -> << >>

\* The stages of a run, in order.
Plan(o) ==
  <<"preflight_baseline", "preflight_candidate">>
  \o (CASE o.workflow = "prepare" -> <<"correctness_and_benchmark">>
        [] o.workflow = "profile" -> <<"correctness_gate">>
        [] o.workflow = "candidate" ->
             <<"correctness_gate", "precision_diagnostic", "benchmark">>
        [] o.workflow = "final" ->
             <<"correctness_gate", "precision_diagnostic", "benchmark",
               "benchmark_repeat">>)
  \o Profiling(o)

\* Only the precision diagnosis may fail without failing the run.
Advisory(stage) == stage = "precision_diagnostic"

-----------------------------------------------------------------------------
VARIABLES
  upload,   \* run -> how far `sync` got: "none", "copied", "ready"
  source,   \* run -> the uploaded tree is the one its manifest describes
  plan,     \* run -> the stages its manifest lists
  marks,    \* run -> the marker files in its directory
  status,   \* run -> artifacts/status.json: its state, which write it is
  hashes,   \* run -> the status.json that artifacts.sha256.json describes
  control,  \* run -> the command that holds control.lock
  accepted, \* run -> worker starts the container engine still has to perform
  worker,   \* run -> the detached worker
  procs,    \* run -> live processes of its stage: "leader" and what it spawned,
            \* only a "child" of it, "none"
  cmd,      \* command process -> what it is doing
  out,      \* the local directory that evidence is fetched into
  ops,      \* operations issued so far
  faults    \* faults so far

hostVars == <<upload, source, plan>>
evidenceVars == <<marks, status, hashes>>
counters == <<ops, faults>>
vars == <<upload, source, plan, marks, status, hashes, control, accepted,
          worker, procs, cmd, out, ops, faults>>

NoFile == [state |-> "absent", run |-> None, write |-> 0]
Files == [state: {"absent", "starting", "running"} \cup Terminal,
          run: Runs \cup {None}, write: Nat]

Idle == [op |-> None, run |-> None, pc |-> "idle", verdict |-> None,
         alone |-> TRUE, claim |-> NoFile]
NoWorker == [pc |-> "none", stage |-> 1, verdict |-> None,
             sigterm |-> FALSE, lock |-> FALSE]

WorkerPcs == {"none", "verify", "lock", "idle", "loop", "stage", "reverify",
              "write_status", "write_hashes", "finish", "gone", "killed"}
CmdPcs == {"idle", "mark", "inspect", "submit", "exec", "release",
           "write_status", "write_hashes", "finish", "signal",
           "copy_hashes", "copy_status", "copy_manifest", "identify",
           "verify", "verified"}

Worker == [pc: WorkerPcs, stage: Nat \ {0}, verdict: Terminal \cup {None},
           sigterm: BOOLEAN, lock: BOOLEAN]
Command == [op: {"launch", "cancel", "fetch", None}, run: Runs \cup {None}, pc: CmdPcs,
            verdict: Terminal \cup {None}, alone: BOOLEAN, claim: Files]

TypeOK ==
  /\ upload \in [Runs -> {"none", "copied", "ready"}]
  /\ source \in [Runs -> BOOLEAN]
  /\ marks \in [Runs -> SUBSET Markers]
  /\ status \in [Runs -> Files]
  /\ hashes \in [Runs -> Files]
  /\ control \in [Runs -> Cmds \cup {None}]
  /\ accepted \in [Runs -> Nat]
  /\ worker \in [Runs -> Worker]
  /\ procs \in [Runs -> {"none", "leader", "child"}]
  /\ cmd \in [Cmds -> Command]
  /\ out \in [manifest: Runs \cup {None}, hashes: Files, status: Files]
  /\ ops \in 0..MaxOps
  /\ faults \in 0..MaxFaults

Init ==
  /\ upload = [r \in Runs |-> "none"]
  /\ source = [r \in Runs |-> TRUE]
  /\ plan = [r \in Runs |-> << >>]
  /\ marks = [r \in Runs |-> {}]
  /\ status = [r \in Runs |-> NoFile]
  /\ hashes = [r \in Runs |-> NoFile]
  /\ control = [r \in Runs |-> None]
  /\ accepted = [r \in Runs |-> 0]
  /\ worker = [r \in Runs |-> NoWorker]
  /\ procs = [r \in Runs |-> "none"]
  /\ cmd = [c \in Cmds |-> Idle]
  /\ out = [manifest |-> None, hashes |-> NoFile, status |-> NoFile]
  /\ ops = 0
  /\ faults = 0

Fault == faults < MaxFaults /\ faults' = faults + 1

-----------------------------------------------------------------------------
(* sync *)

\* The remote directory is made without exist_ok, so an id is used once; the
\* snapshot is copied into it and verified there.  A sync that dies or fails
\* the verification leaves no ready.json; before the manifest has arrived every
\* operation on the directory fails, so that state is left out.
Sync(r) ==
  /\ upload[r] = "none"
  /\ \E q \in Requests :
       /\ Accepted(q)
       /\ plan' = [plan EXCEPT ![r] = Plan(Resolved(q))]
  /\ \E reached \in {"copied", "ready"} : upload' = [upload EXCEPT ![r] = reached]
  /\ UNCHANGED <<source, evidenceVars, control, accepted, worker, procs, cmd, out, counters>>

\* Someone edits the uploaded tree.
Damage(r) ==
  /\ upload[r] \in {"copied", "ready"} /\ source[r]
  /\ source' = [source EXCEPT ![r] = FALSE]
  /\ Fault
  /\ UNCHANGED <<upload, plan, evidenceVars, control, accepted, worker, procs, cmd, out, ops>>

-----------------------------------------------------------------------------
(* Finalization, by whoever settles the run: the final status, the hash of *)
(* every artifact, and last of all finished.json                           *)

FinalStatus(r, verdict) ==
  [state |-> verdict, run |-> r, write |-> status[r].write + 1]

WriteStatus(r, verdict) ==
  /\ status' = [status EXCEPT ![r] = FinalStatus(r, verdict)]
  /\ UNCHANGED <<hashes, marks>>

WriteHashes(r) ==
  /\ hashes' = [hashes EXCEPT ![r] = status[r]]
  /\ UNCHANGED <<status, marks>>

WriteFinished(r) ==
  /\ marks' = [marks EXCEPT ![r] = @ \cup {"finished"}]
  /\ UNCHANGED <<status, hashes>>

-----------------------------------------------------------------------------
(* Commands *)

Step(c, pc) == cmd' = [cmd EXCEPT ![c].pc = pc]
Fail(c, verdict) == cmd' = [cmd EXCEPT ![c].pc = "write_status", ![c].verdict = verdict]
End(c) == cmd' = [cmd EXCEPT ![c] = Idle]

\* An operation gets to the point where it has an effect of its own; one that
\* is refused before that changes nothing.
Issue(c) ==
  /\ cmd[c].pc \in {"idle", "verified"} /\ ops < MaxOps
  /\ ops' = ops + 1
  /\ UNCHANGED <<hostVars, status, hashes, accepted, worker, procs, out, faults>>

Begin(c, op, r, pc, verdict) ==
  cmd' = [cmd EXCEPT ![c] = [Idle EXCEPT !.op = op, !.run = r, !.pc = pc,
                                         !.verdict = verdict]]

\* Mutant: launch and cancel are not serialized.
MutantLockable(r) == TRUE

Lockable(r) == control[r] = None
Unlocked(c) == [r \in Runs |-> IF control[r] = c THEN None ELSE control[r]]

\* The kernel frees a dead command's lock.  A finished fetch has nothing to lose.
Die(c) ==
  /\ cmd[c].pc \notin {"idle", "verified"}
  /\ End(c)
  /\ control' = Unlocked(c)
  /\ Fault
  /\ UNCHANGED <<hostVars, evidenceVars, accepted, worker, procs, out, ops>>

(* launch_once, under control.lock *)

\* Mutant: launching does not look for an earlier cancellation.
MutantLaunchRefused(r) == ~source[r] \/ upload[r] # "ready"

LaunchRefused(r) ==
  \/ "cancel" \in marks[r]
  \/ ~source[r]
  \/ upload[r] # "ready"

LaunchChecks(c, r) ==
  /\ Lockable(r) /\ ~LaunchRefused(r)
  /\ Begin(c, "launch", r, "mark", None)
  /\ control' = [control EXCEPT ![r] = c]
  /\ UNCHANGED marks
  /\ Issue(c)

\* Mutant: a run counts as launched once its worker has written a status.
MutantLaunched(r) == status[r].state # "absent"

\* launch.json is created exclusively: a run is launched once.
Launched(r) == "launch" \in marks[r]

LaunchMark(c) ==
  LET r == cmd[c].run IN
  /\ cmd[c].pc = "mark"
  /\ IF Launched(r)
       THEN /\ End(c) /\ control' = Unlocked(c)
            /\ UNCHANGED marks
       ELSE /\ Step(c, "inspect") /\ UNCHANGED control
            /\ marks' = [marks EXCEPT ![r] = @ \cup {"launch"}]
  /\ UNCHANGED <<hostVars, status, hashes, accepted, worker, procs, out, counters>>

\* The container is inspected and described; a failure here settles the run.
LaunchInspect(c) ==
  /\ cmd[c].pc = "inspect"
  /\ Step(c, "submit") \/ Fail(c, "failed")
  /\ UNCHANGED <<hostVars, evidenceVars, control, accepted, worker, procs, out, counters>>

LaunchSubmit(c) ==
  /\ cmd[c].pc = "submit"
  /\ marks' = [marks EXCEPT ![cmd[c].run] = @ \cup {"submission"}]
  /\ Step(c, "exec")
  /\ UNCHANGED <<hostVars, status, hashes, control, accepted, worker, procs, out, counters>>

\* docker exec -d: accepted, refused, or accepted although the client fails.
LaunchExec(c) ==
  LET r == cmd[c].run IN
  /\ cmd[c].pc = "exec"
  /\ \E taken \in {0, 1} : accepted' = [accepted EXCEPT ![r] = @ + taken]
  /\ End(c) /\ control' = Unlocked(c)
  /\ UNCHANGED <<hostVars, evidenceVars, worker, procs, out, counters>>

(* _cancel: a run that was not launched is settled here, any other by its worker *)

CancelRequest(c, r) ==
  /\ Lockable(r) /\ upload[r] # "none"
  /\ marks' = [marks EXCEPT ![r] = @ \cup {"cancel"}]
  /\ IF Launched(r)
       THEN Begin(c, "cancel", r, "signal", None) /\ UNCHANGED control
       ELSE /\ Begin(c, "cancel", r, "write_status", "cancelled")
            /\ control' = [control EXCEPT ![r] = c]
  /\ Issue(c)

Settle(c) ==
  LET r == cmd[c].run IN
  \/ /\ cmd[c].pc = "write_status"
     /\ WriteStatus(r, cmd[c].verdict) /\ Step(c, "write_hashes") /\ UNCHANGED control
  \/ /\ cmd[c].pc = "write_hashes"
     /\ WriteHashes(r) /\ Step(c, "finish") /\ UNCHANGED control
  \/ /\ cmd[c].pc = "finish"
     /\ WriteFinished(r) /\ End(c) /\ control' = Unlocked(c)

CmdFinalize(c) ==
  /\ Settle(c)
  /\ UNCHANGED <<hostVars, accepted, worker, procs, out, counters>>

WorkerAlive(r) == worker[r].pc \notin {"none", "gone", "killed"}

\* The signal is sent through a pidfd, to the worker that status.json names.
CancelSignal(c) ==
  LET r == cmd[c].run IN
  /\ cmd[c].pc = "signal"
  /\ worker' = [worker EXCEPT ![r].sigterm =
                  @ \/ (status[r].state \in {"starting", "running"} /\ WorkerAlive(r))]
  /\ End(c)
  /\ UNCHANGED <<hostVars, evidenceVars, control, accepted, procs, out, counters>>

(* fetch: only a finalized run, only into a destination that is its own *)

Finalized(r) == status[r].state \in Terminal /\ "finished" \in marks[r]

Empty == out.manifest = None /\ out.hashes = NoFile /\ out.status = NoFile

Fetching(c) == cmd[c].op = "fetch" /\ cmd[c].pc # "verified"

\* Each of two fetches that overlap is marked as not alone.
FetchLook(c, r) ==
  /\ Finalized(r) /\ upload[r] = "ready" /\ (Empty \/ out.manifest = r)
  /\ LET others == {d \in Cmds \ {c} : Fetching(d)}
     IN  cmd' = [d \in Cmds |->
           IF d = c THEN [Idle EXCEPT !.op = "fetch", !.run = r, !.pc = "copy_hashes",
                                      !.alone = others = {}]
           ELSE IF d \in others THEN [cmd[d] EXCEPT !.alone = FALSE]
           ELSE cmd[d]]
  /\ UNCHANGED <<marks, control>>
  /\ Issue(c)

\* rsync, in its order: the artifacts by name, then the manifest.
FetchCopy(c) ==
  LET r == cmd[c].run IN
  /\ \/ /\ cmd[c].pc = "copy_hashes" /\ Step(c, "copy_status")
        /\ out' = [out EXCEPT !.hashes = hashes[r]]
     \/ /\ cmd[c].pc = "copy_status" /\ Step(c, "copy_manifest")
        /\ out' = [out EXCEPT !.status = status[r]]
     \/ /\ cmd[c].pc = "copy_manifest" /\ Step(c, "identify")
        /\ out' = [out EXCEPT !.manifest = r]
  /\ UNCHANGED <<hostVars, evidenceVars, control, accepted, worker, procs, counters>>

FetchIdentify(c) ==
  /\ cmd[c].pc = "identify"
  /\ IF out.manifest = cmd[c].run THEN Step(c, "verify") ELSE End(c)
  /\ UNCHANGED <<hostVars, evidenceVars, control, accepted, worker, procs, out, counters>>

FetchVerify(c) ==
  /\ cmd[c].pc = "verify"
  /\ IF out.hashes = out.status
       THEN cmd' = [cmd EXCEPT ![c].pc = "verified", ![c].claim = out.status]
       ELSE End(c)
  /\ UNCHANGED <<hostVars, evidenceVars, control, accepted, worker, procs, out, counters>>

-----------------------------------------------------------------------------
(* The worker *)

\* The engine starts an accepted worker; its first write names itself.
StartWorker(r) ==
  /\ accepted[r] > 0 /\ ~WorkerAlive(r)
  /\ accepted' = [accepted EXCEPT ![r] = @ - 1]
  /\ worker' = [worker EXCEPT ![r] = [NoWorker EXCEPT !.pc = "verify"]]
  /\ status' = [status EXCEPT ![r].state = "starting", ![r].run = r]
  /\ UNCHANGED <<hostVars, marks, hashes, control, procs, cmd, out, counters>>

Cancelled(r) == worker[r].sigterm \/ "cancel" \in marks[r]

Go(r, pc) == worker' = [worker EXCEPT ![r].pc = pc]
Decide(r, pc, verdict) ==
  worker' = [worker EXCEPT ![r].pc = pc, ![r].verdict = verdict]

WorkerVerify(r) ==
  /\ worker[r].pc = "verify"
  /\ IF ~source[r] THEN Decide(r, "write_status", "failed")
     ELSE IF "cancel" \in marks[r] THEN Decide(r, "write_status", "cancelled")
     ELSE Go(r, "lock")
  /\ UNCHANGED <<status, procs>>

\* Mutant: stages do not inherit the lock's descriptor.
MutantHoldsGpu(r) == worker[r].lock

\* The lock lives as long as any descriptor of it: the worker's own, or the
\* one a stage's leader inherited.
HoldsGpu(r) == worker[r].lock \/ procs[r] = "leader"

WorkerLock(r) ==
  /\ worker[r].pc = "lock"
  /\ IF \E s \in Runs : HoldsGpu(s)
       THEN Decide(r, "write_status", "gpu_busy")
       ELSE worker' = [worker EXCEPT ![r].pc = "idle", ![r].lock = TRUE]
  /\ UNCHANGED <<status, procs>>

\* What nvidia-smi shows is any program's doing, a leftover child's included.
WorkerIdle(r) ==
  /\ worker[r].pc = "idle"
  /\ \/ Decide(r, "write_status", "gpu_busy") /\ UNCHANGED status
     \/ Go(r, "loop") /\ status' = [status EXCEPT ![r].state = "running"]
  /\ UNCHANGED procs

WorkerLoop(r) ==
  /\ worker[r].pc = "loop"
  /\ IF Cancelled(r) THEN Decide(r, "reverify", "cancelled") /\ UNCHANGED procs
     ELSE IF worker[r].stage > Len(plan[r])
       THEN Decide(r, "reverify", "completed") /\ UNCHANGED procs
     ELSE Go(r, "stage") /\ procs' = [procs EXCEPT ![r] = "leader"]
  /\ UNCHANGED status

\* Mutant: a stage has no deadline.
MutantOutcomes(r) ==
  IF procs[r] # "leader" THEN {"completed", "failed"}
  ELSE IF Cancelled(r) THEN {"cancelled"} ELSE {}

Outcomes(r) ==
  IF procs[r] # "leader" THEN {"completed", "failed"}
  ELSE IF Cancelled(r) THEN {"cancelled"} ELSE {"timed_out"}

\* The group is killed after every outcome, before the outcome is judged.  The
\* GPU must settle before the next stage; when it does not, WorkerRaises.
WorkerStage(r) ==
  /\ worker[r].pc = "stage"
  /\ \E result \in Outcomes(r) :
       IF result = "completed"
          \/ (Advisory(plan[r][worker[r].stage]) /\ result # "cancelled")
         THEN worker' = [worker EXCEPT ![r].pc = "loop", ![r].stage = @ + 1]
         ELSE Decide(r, "reverify", result)
  /\ procs' = [procs EXCEPT ![r] = "none"]
  /\ UNCHANGED status

WorkerReverify(r) ==
  /\ worker[r].pc = "reverify"
  /\ Decide(r, "write_status", IF source[r] THEN worker[r].verdict ELSE "failed")
  /\ UNCHANGED <<status, procs>>

\* An exception anywhere before finalization: the GPU did not settle, a write
\* or a spawn failed.  A stage that was running is killed on the way out.
WorkerRaises(r) ==
  /\ worker[r].pc \in {"verify", "lock", "idle", "loop", "stage", "reverify"}
  /\ Decide(r, "write_status", "failed")
  /\ procs' = [procs EXCEPT ![r] = "none"]
  /\ UNCHANGED <<hostVars, evidenceVars, control, accepted, cmd, out, counters>>

WorkerRuns(r) ==
  /\ \/ WorkerVerify(r) \/ WorkerLock(r) \/ WorkerIdle(r) \/ WorkerLoop(r)
     \/ WorkerStage(r) \/ WorkerReverify(r)
  /\ UNCHANGED <<hostVars, marks, hashes, control, accepted, cmd, out, counters>>

WorkerFinalize(r) ==
  /\ \/ /\ worker[r].pc = "write_status"
        /\ WriteStatus(r, worker[r].verdict) /\ Go(r, "write_hashes")
     \/ /\ worker[r].pc = "write_hashes"
        /\ WriteHashes(r) /\ Go(r, "finish")
     \/ /\ worker[r].pc = "finish"
        /\ WriteFinished(r)
        /\ worker' = [worker EXCEPT ![r].pc = "gone", ![r].lock = FALSE]
  /\ UNCHANGED <<hostVars, control, accepted, procs, cmd, out, counters>>

WorkerStep(r) == WorkerRuns(r) \/ WorkerFinalize(r)

\* SIGKILL: the stage goes on in its own session.
KillWorker(r) ==
  /\ WorkerAlive(r)
  /\ worker' = [worker EXCEPT ![r].pc = "killed", ![r].lock = FALSE]
  /\ Fault
  /\ UNCHANGED <<hostVars, evidenceVars, control, accepted, procs, cmd, out, ops>>

\* Processes of the stage end, by themselves or killed, in any order.
StageEnds(r) ==
  /\ \/ procs[r] = "leader" /\ procs' = [procs EXCEPT ![r] = "child"]
     \/ procs[r] # "none" /\ procs' = [procs EXCEPT ![r] = "none"]
  /\ UNCHANGED <<hostVars, evidenceVars, control, accepted, worker, cmd, out, counters>>

-----------------------------------------------------------------------------
CmdStep(c) ==
  \/ LaunchMark(c) \/ LaunchInspect(c) \/ LaunchSubmit(c) \/ LaunchExec(c)
  \/ CancelSignal(c) \/ CmdFinalize(c)
  \/ FetchCopy(c) \/ FetchIdentify(c) \/ FetchVerify(c)

Next ==
  \/ \E r \in Runs :
       \/ Sync(r) \/ Damage(r) \/ StartWorker(r) \/ WorkerStep(r)
       \/ WorkerRaises(r) \/ KillWorker(r) \/ StageEnds(r)
  \/ \E c \in Cmds :
       \/ \E r \in Runs : LaunchChecks(c, r) \/ CancelRequest(c, r) \/ FetchLook(c, r)
       \/ CmdStep(c) \/ Die(c)

\* A worker that is not killed is scheduled, and its deadlines pass.
Spec == Init /\ [][Next]_vars /\ \A r \in Runs : WF_vars(WorkerStep(r))

-----------------------------------------------------------------------------
(* Properties *)

\* A stage whose worker and leader were both killed, whose child lives on.
Orphaned(r) == worker[r].pc = "killed" /\ procs[r] = "child"

\* Two runs never have stages alive on the GPU together, not even when a worker
\* is killed and its stage goes on: only a child whose worker and leader are
\* both gone escapes the cooperative lock (worker, execute_stage's pass_fds).
GpuIsExclusive ==
  \A r, s \in Runs :
    r # s /\ procs[r] # "none" /\ procs[s] # "none" => Orphaned(r) \/ Orphaned(s)

\* finished.json says that the run is over: no process of it is on the GPU, no
\* worker is at work or about to start (finalize, launch_once, _cancel).
FinishedIsQuiet ==
  \A r \in Runs :
    "finished" \in marks[r] => procs[r] = "none" /\ ~WorkerAlive(r) /\ accepted[r] = 0

\* The outcome published with finished.json is never another one afterwards,
\* however many launches and cancels follow.
OutcomeIsFinal ==
  [][\A r \in Runs : "finished" \in marks[r] => status'[r].state = status[r].state]_vars

\* A fetch that reports `verified`, and met no other fetch into its destination,
\* holds the evidence of its own run with that run's final outcome.
VerifiedFetchIsFinal ==
  \A c \in Cmds :
    cmd[c].pc = "verified" /\ cmd[c].alone =>
      /\ cmd[c].claim.run = cmd[c].run
      /\ cmd[c].claim.state = status[cmd[c].run].state
      /\ cmd[c].claim.state \in Terminal

\* A worker that is not killed leaves final evidence, whatever its stages do.
RunSettles ==
  \A r \in Runs :
    WorkerAlive(r) ~> ("finished" \in marks[r] \/ worker[r].pc = "killed")
=============================================================================
