----------------------------- MODULE RunControl -----------------------------
(***************************************************************************)
(* tools/k3/runner.py with the local-command adapter: `k3ctl run start`,   *)
(* `run status` and `run cancel` acting on one run, as separate processes  *)
(* that share only the run's directory (manifest.json, status.json) and    *)
(* the supervisor of RunSupervisor.                                        *)
(*                                                                         *)
(* Every file operation and every look at the process table is a step of   *)
(* its own, so all interleavings of the three commands, the supervisor and *)
(* the command's process group are explored.                               *)
(***************************************************************************)
EXTENDS RunSupervisor

CONSTANT Readers   \* `run status` invocations

VARIABLES
  starter,    \* program point of `run start`
  identity,   \* the pid's start time and command were captured
  registered, \* the status file was seen before `run start` gave up waiting
  manifest,   \* manifest.json, None while there is none
  latest,     \* latest.json names this run
  canceller,  \* program point of `run cancel`
  heldManifest, \* the manifest `run cancel` loaded
  forwarded,  \* `run cancel` told its caller the request was forwarded
  query       \* the `run status` invocations

cliVars == << starter, identity, registered, manifest, latest,
              canceller, heldManifest, forwarded, query >>
vars == << supVars, cliVars >>

StarterPoints == { "idle", "planned", "listed", "launched", "captured",
                   "registered", "recorded", "done", "refused", "crashed" }
CancellerPoints == {"idle", "loaded", "matched", "sent"}
QueryPoints == {"idle", "loaded", "read", "probed", "decided"}

\* What manifest.json tells the other commands: whether the second write, the
\* one with pid, status_file and identity, has happened, and a cancel request.
ManifestRecord ==
  [ started : BOOLEAN, identity : BOOLEAN, cancelRequested : BOOLEAN ]

ASSUME NoManifestAssumption == None \notin ManifestRecord

\* What `run status` prints: the mapped state, ran_to_completion, and whether
\* any status record was found by the first read.
Answers == {"none", "live", "completed", "failed", "cancelled", "unknown"}

QueryRecord ==
  [ at     : QueryPoints,
    man    : ManifestRecord \cup {None},
    file   : StatusRecord \cup {None},
    alive  : BOOLEAN,
    vouched: BOOLEAN,   \* asked after a registered start, and `ps` answered
    answer : Answers ]

IdleQuery == [ at |-> "idle", man |-> None, file |-> None, alive |-> FALSE,
               vouched |-> FALSE, answer |-> "none" ]

Init ==
  /\ SupInit
  /\ starter = "idle"
  /\ identity = FALSE
  /\ registered = FALSE
  /\ manifest = None
  /\ latest = FALSE
  /\ canceller = "idle"
  /\ heldManifest = None
  /\ forwarded = FALSE
  /\ query = [r \in Readers |-> IdleQuery]

---------------------------------------------------------------------------
\* `k3ctl run start`

startVars == << starter, identity, registered, manifest, latest >>
cancelVars == << canceller, heldManifest, forwarded >>

\* plan(): reserve_run_dir, then run.json; a plan with blockers is refused.
Plan ==
  /\ starter = "idle"
  /\ starter' \in {"planned", "refused"}
  /\ UNCHANGED << supVars, identity, registered, manifest, latest, cancelVars,
                  query >>

\* The first manifest write: state "starting", no pid and no status_file.
ListRun ==
  /\ starter = "planned"
  /\ starter' = "listed"
  /\ manifest' = [started |-> FALSE, identity |-> FALSE, cancelRequested |-> FALSE]
  /\ UNCHANGED << supVars, identity, registered, latest, cancelVars, query >>

\* Popen of the supervisor.
Launch ==
  /\ starter = "listed"
  /\ starter' = "launched"
  /\ sup' = "boot"
  /\ UNCHANGED << flag, cancelSent, due, escalated, cleared, group, doomed, rc,
                  statusFile, identity, registered, manifest, latest, cancelVars,
                  query >>

\* `ps` until it answers, the process has ended, or five seconds are over.  (The
\* identity of a zombie is as good as none: nothing matches it later.)
CaptureIdentity ==
  /\ starter = "launched"
  /\ starter' = "captured"
  /\ identity' \in BOOLEAN
  /\ identity' => SupAlive
  /\ UNCHANGED << supVars, registered, manifest, latest, cancelVars, query >>

\* Wait for the first status write, or ten seconds.
AwaitRegistration ==
  /\ starter = "captured"
  /\ starter' = "registered"
  /\ registered' \in BOOLEAN
  /\ registered' => statusFile # None
  /\ UNCHANGED << supVars, identity, manifest, latest, cancelVars, query >>

\* The second manifest write: state "running" with what adapter.start found.
RecordStart ==
  /\ starter = "registered"
  /\ starter' = "recorded"
  /\ manifest' = [started |-> TRUE, identity |-> identity, cancelRequested |-> FALSE]
  /\ UNCHANGED << supVars, identity, registered, latest, cancelVars, query >>

PublishLatest ==
  /\ starter = "recorded"
  /\ starter' = "done"
  /\ latest' = TRUE
  /\ UNCHANGED << supVars, identity, registered, manifest, cancelVars, query >>

\* The command is interrupted or killed between two steps.
StarterCrashes ==
  /\ starter \notin {"idle", "done", "refused", "crashed"}
  /\ starter' = "crashed"
  /\ UNCHANGED << supVars, identity, registered, manifest, latest, cancelVars,
                  query >>

StartStep ==
  \/ Plan \/ ListRun \/ Launch \/ CaptureIdentity \/ AwaitRegistration
  \/ RecordStart \/ PublishLatest

---------------------------------------------------------------------------
\* `k3ctl run cancel`

CancelReturns == canceller' = "idle" /\ heldManifest' = None

\* _load_manifest; without a pid the local adapter refuses.
LoadForCancel ==
  /\ canceller = "idle"
  /\ manifest # None
  /\ manifest.started
  /\ canceller' = "loaded"
  /\ heldManifest' = manifest
  /\ UNCHANGED << supVars, startVars, forwarded, query >>

\* process_matches: a strict match, or the command refuses to signal.  A `ps`
\* that fails is a mismatch.
MatchSupervisor ==
  /\ canceller = "loaded"
  /\ \/ /\ heldManifest.identity /\ SupAlive
        /\ canceller' = "matched"
        /\ UNCHANGED heldManifest
     \/ CancelReturns
  /\ UNCHANGED << supVars, startVars, forwarded, query >>

\* os.kill(pid, SIGTERM).  It raises, and the command fails, when the
\* supervisor has gone since the match.
SignalSupervisor ==
  /\ canceller = "matched"
  /\ IF SupAlive
       THEN Terminate /\ canceller' = "sent" /\ UNCHANGED heldManifest
       ELSE UNCHANGED supVars /\ CancelReturns
  /\ UNCHANGED << startVars, forwarded, query >>

\* The loaded manifest is written back with cancel_requested_at.
RecordCancel ==
  /\ canceller = "sent"
  /\ CancelReturns
  /\ manifest' = [heldManifest EXCEPT !.cancelRequested = TRUE]
  /\ forwarded' = TRUE
  /\ UNCHANGED << supVars, starter, identity, registered, latest, query >>

CancelStep ==
  LoadForCancel \/ MatchSupervisor \/ SignalSupervisor \/ RecordCancel

---------------------------------------------------------------------------
\* `k3ctl run status`

QueryAt(r, point) == query[r].at = point

LoadForStatus(r) ==
  /\ QueryAt(r, "idle")
  /\ manifest # None
  /\ query' = [query EXCEPT ![r] =
       [IdleQuery EXCEPT !.at = "loaded", !.man = manifest,
                         !.vouched = manifest.started /\ registered]]
  /\ UNCHANGED << supVars, startVars, cancelVars >>

\* The first read of the status file; a manifest without one names no file.
ReadStatusFile(r) ==
  /\ QueryAt(r, "loaded")
  /\ query' = [query EXCEPT ![r].at = "read",
                 ![r].file = IF query[r].man.started THEN statusFile ELSE None]
  /\ UNCHANGED << supVars, startVars, cancelVars >>

\* pid_alive and process_matches.  Without a recorded identity a recycled pid
\* passes for the supervisor.
ProbeSupervisor(r) ==
  /\ QueryAt(r, "read")
  /\ \E alive \in BOOLEAN :
       /\ ~query[r].man.started => ~alive
       /\ query[r].man.started /\ SupAlive => alive
       /\ query[r].man.identity /\ ~SupAlive => ~alive
       /\ query' = [query EXCEPT ![r].at = "probed", ![r].alive = alive]
  /\ UNCHANGED << supVars, startVars, cancelVars >>

\* A `ps` that fails makes a live supervisor look like a recycled pid.
ProbeMisled(r) ==
  /\ QueryAt(r, "read")
  /\ query[r].man.started /\ query[r].man.identity
  /\ query' = [query EXCEPT ![r].at = "probed", ![r].alive = FALSE,
                            ![r].vouched = FALSE]
  /\ UNCHANGED << supVars, startVars, cancelVars >>

\* Mutation: the first read is final.
MutantRecheck(first, now) == first

\* In flight by the first read but gone by the probe: read once more, and keep
\* the second answer only if it is a final one.
Recheck(first, now) == IF Terminal(now) THEN now ELSE first

RecheckStatusFile(r) ==
  /\ QueryAt(r, "probed")
  /\ LET q == query[r] IN
     query' = [query EXCEPT ![r].at = "decided",
                 ![r].file = IF q.file # None /\ ~Terminal(q.file) /\ ~q.alive
                               THEN Recheck(q.file, statusFile) ELSE q.file]
  /\ UNCHANGED << supVars, startVars, cancelVars >>

\* ran_to_completion of runner.status.
RanToCompletion(file) ==
  /\ file.state \in {"exited", "failed-to-spawn"}
  /\ file.code = "zero"
  /\ file.normal
  /\ ~file.cancelled

AnswerFrom(file, alive) ==
  IF file = None THEN (IF alive THEN "live" ELSE "unknown")
  ELSE IF ~Terminal(file) THEN (IF alive THEN "live" ELSE "unknown")
  ELSE IF RanToCompletion(file) THEN "completed"
  ELSE IF file.state = "cancelled" THEN "cancelled"
  ELSE "failed"

Answer(r) ==
  /\ QueryAt(r, "decided")
  /\ query' = [query EXCEPT ![r] =
       [IdleQuery EXCEPT !.answer = AnswerFrom(query[r].file, query[r].alive)]]
  /\ UNCHANGED << supVars, startVars, cancelVars >>

StatusStep(r) ==
  \/ LoadForStatus(r) \/ ReadStatusFile(r)    \/ ProbeSupervisor(r)
  \/ ProbeMisled(r)   \/ RecheckStatusFile(r) \/ Answer(r)

---------------------------------------------------------------------------
SupervisorSide ==
  /\ SupStep \/ GroupStep \/ EscalationDue \/ Terminate \/ KillSupervisor
  /\ UNCHANGED cliVars

Next ==
  \/ SupervisorSide
  \/ StartStep \/ StarterCrashes
  \/ CancelStep
  \/ \E r \in Readers : StatusStep(r)

Spec == Init /\ [][Next]_vars

\* The supervisor keeps running while it exists, its deadlines pass, and a
\* process with a SIGKILL pending dies.  Nothing else is owed: the command may
\* run forever, and no operator has to run any k3ctl command.
Fairness ==
  /\ WF_vars(SupStep /\ UNCHANGED cliVars)
  /\ WF_vars(EscalationDue /\ UNCHANGED cliVars)
  /\ WF_vars(DoomedDies /\ UNCHANGED cliVars)

FairSpec == Spec /\ Fairness

---------------------------------------------------------------------------
TypeOK ==
  /\ SupTypeOK
  /\ starter \in StarterPoints
  /\ identity \in BOOLEAN
  /\ registered \in BOOLEAN
  /\ manifest \in ManifestRecord \cup {None}
  /\ latest \in BOOLEAN
  /\ canceller \in CancellerPoints
  /\ heldManifest \in ManifestRecord \cup {None}
  /\ forwarded \in BOOLEAN
  /\ query \in [Readers -> QueryRecord]

\* What is promised: see RunOutcome.  A final answer is the outcome on record,
\* an outcome never changes, and once `run start` has seen the run registered
\* the answer is "unknown" only when the supervisor died and recorded nothing,
\* or when `run status` could not look at its process.
Outcome ==
  IF HasFinalStatus THEN AnswerFrom(statusFile, FALSE)
  ELSE IF sup = "killed" THEN "lost" ELSE "pending"

Known == manifest # None /\ manifest.started /\ registered

Asked ==
  [r \in Readers |-> IF query[r].at = "idle" THEN "no"
                     ELSE IF query[r].vouched THEN "vouched" ELSE "unsure"]

Told == [r \in Readers |-> query[r].answer]

Promise == INSTANCE RunOutcome WITH
  outcome <- Outcome, known <- Known, asked <- Asked, told <- Told

KeepsPromise == Promise!Spec

\* "a cancelled run is never a completion": whoever is told that a run went to
\* completion is told so of a command that ended with status 0 by itself,
\* with no termination request ever forwarded to it.
CompletionIsTruthful ==
  \A r \in Readers :
    query[r].answer = "completed" => rc = "zero" /\ ~cancelSent

\* A run recorded as cancelled holds no device any more: its command has ended
\* and every process left in its group is already being killed.
CancelledRunIsDead ==
  HasFinalStatus /\ statusFile.cancelled =>
    Child \notin group /\ group \subseteq doomed

\* descendants_cleared is a statement about the process group that stays true.
ClearedMeansEmpty ==
  HasFinalStatus /\ statusFile.cleared => group = {}

\* A termination request that reaches a supervisor with its handlers installed
\* ends in a final status, even if the command ignores SIGTERM.
RequestSettles ==
  (flag /\ SupAlive) ~> (HasFinalStatus \/ sup = "killed")

\* Once forwarded, the request empties the process group.
RequestEmptiesGroup ==
  cancelSent ~> (group = {} \/ sup = "killed")
===========================================================================
