---------------------------- MODULE Measurement ----------------------------
(***************************************************************************)
(* runner.py `run start` and bench/: from a prepared workspace to evidence.*)
(*                                                                         *)
(* A plan hashes the candidate and the baseline tree and is ready only if  *)
(* the workspace record accounts for the baseline; a ready plan starts the *)
(* harness.  bench/benchmark.py freezes both sources again, runs one fresh *)
(* worker after another on them, each checking its source when it opens    *)
(* and when it closes, writes the correctness gate with the hashes of the  *)
(* four worker reports behind it, times only behind that gate or behind an *)
(* earlier run's, and writes a passing summary last.  `run status` reads   *)
(* the report directory back.                                              *)
(*                                                                         *)
(* Nothing is locked: the agent edits the candidate, somebody edits the    *)
(* baseline or the harness, and trees are removed, restored or prepared    *)
(* anew at any moment.                                                     *)
(***************************************************************************)
EXTENDS Workspace, Sequences

CONSTANTS Runs,          \* run ids
          GateWorkers,   \* the workers of the correctness gate, in order
          TrialWorkers   \* the workers of the timing trials, in order

VARIABLES harness,      \* version of the workloads and of the harness sources
          run,          \* per run: its plan and its process
          report,       \* per run: the worker reports in its directory
          gate,         \* per run: correctness.json
          summary       \* per run: summary.json

runVars == <<run, report, gate, summary>>
vars == <<wsVars, harness, runVars>>

Worker == [root: Roots, mode: {"correctness", "export", "compare", "benchmark"}]
AllWorkers == {GateWorkers[i] : i \in DOMAIN GateWorkers} \cup {TrialWorkers[i] : i \in DOMAIN TrialWorkers}
GateReports == {GateWorkers[i] : i \in DOMAIN GateWorkers}
TrialReports == AllWorkers \ GateReports

ASSUME WorkersAssumption ==
  /\ GateWorkers \in Seq(Worker) /\ TrialWorkers \in Seq(Worker)
  /\ \A i \in DOMAIN GateWorkers, j \in DOMAIN TrialWorkers : GateWorkers[i] # TrialWorkers[j]
  /\ \A i, j \in DOMAIN GateWorkers : GateWorkers[i] = GateWorkers[j] => i = j
  /\ \A i, j \in DOMAIN TrialWorkers : TrialWorkers[i] = TrialWorkers[j] => i = j

RunPhases == {"none", "loaded", "hashed", "refused", "ready",
              "freezing", "next", "opened", "imported", "ended"}
Operations == {"correctness-only", "benchmark"}
Sources == [candidate: Source, baseline: Source]
NoSources == [candidate |-> TreeOf(None), baseline |-> TreeOf(None)]
Report == [source: Source, measured: Source \cup {None}, harness: Nat]
PassedGate == [passed: {TRUE}, sources: Sources, harness: Nat,
               hashes: [GateReports -> Report]]
FailedGate == [passed |-> FALSE, sources |-> NoSources, harness |-> 0,
               hashes |-> [w \in GateReports |-> None]]
Run == [pc: RunPhases, op: Operations, base: Commits, planned: Source,
        frozen: Sources, harness: Nat, done: Nat, opened: Source, code: Source,
        openedHarness: Nat, lone: BOOLEAN, returned: BOOLEAN]

IdleRun == [pc |-> "none", op |-> "benchmark", base |-> CHOOSE c \in Commits : TRUE,
            planned |-> TreeOf(None), frozen |-> NoSources, harness |-> 0, done |-> 0,
            opened |-> TreeOf(None), code |-> TreeOf(None), openedHarness |-> 0,
            lone |-> FALSE, returned |-> FALSE]
NoReports == [w \in AllWorkers |-> None]

Init ==
  /\ WsInit
  /\ harness = 0
  /\ run = [r \in Runs |-> IdleRun]
  /\ report = [r \in Runs |-> NoReports]
  /\ gate = [r \in Runs |-> None]
  /\ summary = [r \in Runs |-> None]

-----------------------------------------------------------------------------
(* run plan *)

\* The process ends; what its worker held goes with it.
End(r) == run' = [run EXCEPT ![r].pc = "ended", ![r].done = 0, ![r].opened = TreeOf(None),
                             ![r].code = TreeOf(None), ![r].openedHarness = 0]
RunFiles == <<report, gate, summary>>
Outside == <<wsVars, harness>>

\* resolve_roots: the task is loaded, a record and both trees must exist; the
\* run id is reserved whatever the answer.
PlanLoad(r) ==
  /\ run[r].pc = "none"
  /\ IF record # None /\ \A root \in Roots : trees[root] # Absent
     THEN \E op \in Operations :
            run' = [run EXCEPT ![r] = [@ EXCEPT !.pc = "loaded", !.op = op, !.base = base]]
     ELSE run' = [run EXCEPT ![r].pc = "refused"]
  /\ UNCHANGED <<Outside, RunFiles>>

\* execution_inputs, of which the verdict depends on the baseline's digest alone.
PlanHash(r) ==
  /\ run[r].pc = "loaded"
  /\ run' = [run EXCEPT ![r].pc = "hashed", ![r].planned = Digest("baseline")]
  /\ UNCHANGED <<Outside, RunFiles>>

\* Mutant: the digest is compared, the commit it was recorded for is not.
MutantPrepared(r) == record # None /\ record.digest = run[r].planned

\* verify_baseline_integrity, with the record as it is by now.  `lone` is no
\* state of the program: the prepare behind that record ran alone.
Prepared(r) == /\ record # None
               /\ record.base = run[r].base
               /\ record.digest = run[r].planned

PlanVerify(r) ==
  /\ run[r].pc = "hashed"
  /\ run' = [run EXCEPT ![r] =
       IF Prepared(r) THEN [@ EXCEPT !.pc = "ready", !.lone = record.alone]
       ELSE [IdleRun EXCEPT !.pc = "refused"]]
  /\ UNCHANGED <<Outside, RunFiles>>

-----------------------------------------------------------------------------
(* bench/benchmark.py *)

\* source_info of both roots, baseline first; a root without its entry point
\* ends the command before it writes anything.
FreezeBaseline(r) ==
  /\ run[r].pc = "ready"
  /\ IF trees["baseline"] = Absent THEN End(r)
     ELSE run' = [run EXCEPT ![r].pc = "freezing", ![r].frozen.baseline = Digest("baseline")]
  /\ UNCHANGED <<Outside, RunFiles>>

\* The report directory is created and its summary says "failed" from the start.
FreezeCandidate(r) ==
  /\ run[r].pc = "freezing"
  /\ IF trees["candidate"] = Absent
     THEN End(r) /\ UNCHANGED summary
     ELSE LET frozen == [run[r].frozen EXCEPT !.candidate = Digest("candidate")]
          IN  /\ run' = [run EXCEPT ![r].pc = "next", ![r].frozen = frozen,
                                    ![r].harness = harness]
              /\ summary' = [summary EXCEPT ![r] = [passed |-> FALSE, sources |-> frozen]]
  /\ UNCHANGED <<Outside, report, gate>>

\* A worker or a check failed: a failed gate is written unless there is one.
Fail(r) ==
  /\ End(r)
  /\ gate' = [gate EXCEPT ![r] =
       IF @ # None THEN @ ELSE FailedGate]

\* The worker whose turn it is.
Plan(op) == IF op = "benchmark" THEN GateWorkers \o TrialWorkers ELSE GateWorkers
Gated(r) == run[r].done >= Len(GateWorkers)
AllDone(r) == run[r].done = Len(Plan(run[r].op))
Current(r) == Plan(run[r].op)[run[r].done + 1]
Root(r) == Current(r).root

\* What a worker imports comes from its own root and from nowhere else (load_kernel).
Loaded(r) == Digest(Root(r))

\* Before the first trial there is a gate, and a correctness-only run ends with it.
Due(r) == /\ run[r].pc = "next"
          /\ ~AllDone(r)
          /\ Gated(r) => gate[r] # None

\* A fresh worker hashes the harness and its source.
WorkerOpen(r) ==
  /\ Due(r)
  /\ run' = [run EXCEPT ![r].pc = "opened",
                        ![r].opened = Digest(Root(r)),
                        ![r].openedHarness = harness]
  /\ UNCHANGED <<Outside, RunFiles>>

\* It imports the kernel and measures: this is the code the report is about.
WorkerMeasure(r) ==
  /\ run[r].pc = "opened"
  /\ run' = [run EXCEPT ![r].pc = "imported", ![r].code = Loaded(r)]
  /\ UNCHANGED <<Outside, RunFiles>>

\* Mutant: a worker does not look at its source again.
MutantSourceHeld(r) == TRUE

\* It hashes both again, and writes its report.
SourceHeld(r) == Digest(Root(r)) = run[r].opened
HarnessHeld(r) == harness = run[r].openedHarness

\* validate_report: what the worker opened is what the run froze.
Validates(r) == /\ run[r].opened = run[r].frozen[Root(r)]
                /\ run[r].openedHarness = run[r].harness

WorkerClose(r) ==
  /\ run[r].pc = "imported"
  /\ report' = [report EXCEPT ![r][Current(r)] =
       [source |-> run[r].opened, measured |-> run[r].code, harness |-> run[r].openedHarness]]
  /\ \/ /\ SourceHeld(r) /\ HarnessHeld(r) /\ Validates(r)
        /\ run' = [run EXCEPT ![r].pc = "next", ![r].done = @ + 1,
                              ![r].opened = TreeOf(None), ![r].code = TreeOf(None),
                              ![r].openedHarness = 0]
        /\ UNCHANGED gate
     \/ Fail(r)
  /\ UNCHANGED <<Outside, summary>>

\* The gate is written once its four workers passed.
GateWritten(r) ==
  /\ run[r].pc = "next" /\ run[r].done = Len(GateWorkers) /\ gate[r] = None
  /\ gate' = [gate EXCEPT ![r] =
       [passed |-> TRUE, sources |-> run[r].frozen, harness |-> run[r].harness,
        hashes |-> [w \in GateReports |-> report[r][w]]]]
  /\ UNCHANGED <<Outside, run, report, summary>>

\* Mutant: a gate is reused for whatever sources the run froze.
MutantReusable(q, r) ==
  /\ gate[q] # None
  /\ gate[q].passed
  /\ gate[q].harness = run[r].harness
  /\ \A w \in GateReports : report[q][w] # None /\ report[q][w] = gate[q].hashes[w]

\* reuse_correctness: the passed gate of run q, its four reports intact.
Reusable(q, r) ==
  /\ gate[q] # None
  /\ gate[q].passed
  /\ gate[q].sources = run[r].frozen
  /\ gate[q].harness = run[r].harness
  /\ \A w \in GateReports :
       /\ report[q][w] # None
       /\ report[q][w] = gate[q].hashes[w]
       /\ report[q][w].source = run[r].frozen[w.root]
       /\ report[q][w].harness = run[r].harness

GateReused(r, q) ==
  /\ run[r].pc = "next" /\ run[r].done = 0 /\ run[r].op = "benchmark"
  /\ q # r
  /\ gate[q] # None
  /\ IF Reusable(q, r)
     THEN /\ report' = [report EXCEPT ![r] =
                [w \in AllWorkers |-> IF w \in GateReports THEN report[q][w] ELSE None]]
          /\ gate' = [gate EXCEPT ![r] = gate[q]]
          /\ run' = [run EXCEPT ![r].done = Len(GateWorkers), ![r].returned = run[q].returned]
     ELSE Fail(r) /\ UNCHANGED report
  /\ UNCHANGED <<Outside, summary>>

\* The last write of a run that passed.
Finish(r) ==
  /\ run[r].pc = "next"
  /\ gate[r] # None
  /\ AllDone(r)
  /\ summary' = [summary EXCEPT ![r].passed = TRUE]
  /\ End(r)
  /\ UNCHANGED <<Outside, report, gate>>

\* The harness is killed: the summary it began with stays.
HarnessDies(r) ==
  /\ run[r].pc \in {"freezing", "next", "opened", "imported"}
  /\ faults < MaxFaults
  /\ faults' = faults + 1
  /\ End(r)
  /\ UNCHANGED <<base, trees, record, prep, edits, harness, RunFiles>>

-----------------------------------------------------------------------------
(* Everybody else *)

\* A report is damaged after the gate recorded its hash.
Damage(r, w) ==
  /\ faults < MaxFaults
  /\ gate[r] # None /\ gate[r].passed
  /\ report[r][w] # None
  /\ faults' = faults + 1
  /\ report' = [report EXCEPT ![r][w].measured = None]
  /\ UNCHANGED <<base, trees, record, prep, edits, harness, run, gate, summary>>

EditHarness ==
  /\ edits < MaxEdits
  /\ edits' = edits + 1
  /\ harness' = edits + 1
  /\ UNCHANGED <<base, trees, record, prep, faults, runVars>>

\* git checkout of the commit a clone was prepared at.
Restore(root) ==
  /\ faults < MaxFaults
  /\ trees[root].head # None
  /\ Digest(root) \notin {TreeOf(None), TreeOf(trees[root].head)}
  /\ faults' = faults + 1
  /\ trees' = [trees EXCEPT ![root].files = TreeOf(trees[root].head)]
  /\ UNCHANGED <<base, record, prep, edits>>

\* `returned` is no state of the program: while a worker of the run measured, its
\* tree went back to the content the worker had opened, which no hash can see.
Returns(r) ==
  /\ run[r].pc \in {"opened", "imported"}
  /\ Digest(Root(r)) # run[r].opened
  /\ trees'[Root(r)].files = run[r].opened

TreesMove ==
  /\ run' = [r \in Runs |-> [run[r] EXCEPT !.returned = @ \/ Returns(r)]]
  /\ UNCHANGED <<harness, report, gate, summary>>

\* _inspect_summary, as `run status` reads a report directory.
Complete(r) ==
  /\ summary[r] # None
  /\ summary[r].passed
  /\ gate[r] # None
  /\ gate[r].passed
  /\ \A w \in GateReports : report[r][w] # None /\ report[r][w] = gate[r].hashes[w]
  /\ run[r].op = "benchmark" =>
       \A w \in TrialReports : report[r][w] # None

PlanStep(r) == PlanLoad(r) \/ PlanHash(r) \/ PlanVerify(r)

HarnessStep(r) ==
  \/ FreezeBaseline(r) \/ FreezeCandidate(r)
  \/ WorkerOpen(r) \/ WorkerMeasure(r) \/ WorkerClose(r)
  \/ GateWritten(r) \/ Finish(r)

RunStep(r) ==
  \/ PlanStep(r)
  \/ HarnessStep(r)
  \/ \E q \in Runs : GateReused(r, q)
  \/ HarnessDies(r)
  \/ \E w \in AllWorkers : Damage(r, w)

Next ==
  \/ WsNext /\ TreesMove
  \/ \E r \in Runs : RunStep(r)
  \/ EditHarness
  \/ (\E root \in Roots : Restore(root)) /\ TreesMove

Spec == Init /\ [][Next]_vars

-----------------------------------------------------------------------------
TypeOK ==
  /\ WsTypeOK
  /\ harness \in Nat
  /\ run \in [Runs -> Run]
  /\ report \in [Runs -> [AllWorkers -> Report \cup {None}]]
  /\ gate \in [Runs -> PassedGate \cup {FailedGate, None}]
  /\ summary \in [Runs -> [passed: BOOLEAN, sources: Sources] \cup {None}]

\* Evidence `run status` calls complete was measured on the code its summary
\* names: every worker behind the gate, the run's own or a reused one's, ran the
\* frozen source, whatever was edited while it ran and whatever was damaged
\* since -- unless a tree went away and back while a worker measured it.
CompleteEvidenceIsOfItsSources ==
  \A r \in Runs : Complete(r) /\ ~run[r].returned =>
    \A w \in GateReports : report[r][w].measured = summary[r].sources[w.root]

\* Timing is gated: where there is a trial report, however it ended, the gate in
\* the same directory passed on the sources and the harness this run froze.
TimingIsGated ==
  \A r \in Runs :
    (\E w \in TrialReports : report[r][w] # None) =>
      /\ gate[r].passed
      /\ gate[r].sources = run[r].frozen
      /\ gate[r].harness = run[r].harness

\* A plan that was ready to start claims a base commit its baseline really was
\* the tree of, through edits, rebases, removals and new prepares between its
\* two readings of the record.
ReadyPlanIsPrepared ==
  \A r \in Runs : run[r].lone => run[r].planned = TreeOf(run[r].base)
=============================================================================
