# A verification of infra-loop-kda's control plane

infra-loop-kda drives long-running kernel-optimization work: it launches an
agent that edits a candidate tree, runs measurement commands on GPUs as detached
processes, and keeps the records by which a human later decides whether a
candidate is accepted. The control plane is a set of short-lived `k3ctl`
commands (`tools/k3/*`). They share no memory and no server. They meet only in
small JSON files and in the process table. What can go wrong is therefore what
goes wrong between processes: two commands at a time, a command killed between
two writes, a process that ends just after somebody looked at it, a file read
before it was complete.

This directory models that part of the system in TLA+, model-checks it with TLC
and proves its central safety properties with TLAPS.

## 1. The system: inventory

### Run supervisor (`tools/k3/supervise.py`)

A detached process that runs one measurement command in a process group of its
own.
- State: `status.json`; the signal flag; the locals of `main()` (`cancel_sent`,
  `escalate_at`, `escalated`); the group.
- Operations: write `starting`, install handlers, spawn, write `running`, poll,
  forward a termination request to the group, escalate to SIGKILL, drain the
  group, write the final status.
- Hard: signals before the handlers are there; the command ending between a poll
  and what follows from it; workers that outlive the command; a drain that times
  out; the supervisor itself killed.
- Correct when: the final status says how the command really ended; a cancelled
  run is never a completion and leaves nothing running; a forwarded request
  ends in a final status.

### Runner (`tools/k3/runner.py`)

`run plan`, `run start`, `run status`, `run cancel`, `run fetch`, through a local
adapter (above) or a wrapper that owns a site.
- State: `run.json`, `manifest.json`, `latest.json`, the run directory with the
  report; for a site, the job there and the number the site gave it.
- Interaction: `start` spawns the supervisor, or hands the command to the wrapper
  and records the number it prints; `status` reads manifest and status file and
  looks at the process, or asks the wrapper; `cancel` signals the process, or asks
  the wrapper, and writes the manifest back; `fetch` copies the report directory
  and inventories it. The evidence report says whether a report directory is
  complete and which of its hashes agree.
- Hard: `start` dying half-way; `status` reading a file that changes before it
  looks at the process; `ps` failing; stale manifest write-backs; a job the
  manifest cannot name; a fetch beside a job that still writes; a configuration
  that names another site by then.
- Correct when: an answer given is the run's real end, answers do not change,
  `unknown` is said only when nothing better can be known, no command reaches
  another run's job, and what is called complete is all there.

### Agent session (`tools/k3/agent.py`, lock and process identity in `util.py`)

`agent start`, `agent resume`, `agent stop` on one task: at most one writer (a
detached Claude process running a Humanize loop) per task.
- State: the task lock file (`O_CREAT|O_EXCL`, outlives the command),
  `session.json`, the loop's state files (owned by the plugin).
- Hard: reclaiming a stale lock; crashes between spawn and record; `stop`
  writing back a stale session and unlinking a lock it does not own; `resume`
  acting on checks made before it had the lock; `ps` failing.
- Correct when: no second writer, no restart of an ended loop, a session
  recorded as stopped is dead, lock and session stay in step.

### Campaign (`tools/k3/campaign.py`, `cli.py campaign ...`)

A record with a status, a history and a bounded list of candidates, edited by
commands that load, change and save it with no lock.
- Hard: stale saves; sequences of transitions that bypass verification.
- Correct when: nothing is promoted that was not verified, and the budget holds.
  That `promoted` and `rejected` are final is what the documentation says and the
  code does not do (section 5).

### Precision diagnosis and its baseline cache (`precision/diagnose.py`, `baseline_cache.py`)

A diagnosis measures a candidate against a baseline at several trials. The
baseline's reports and tensors are expensive, so they are kept in a cache
directory that other diagnoses reuse.
- State: `identity.json`, one entry directory and possibly one `.pending`
  directory per trial, an advisory lock on `.lock`; in memory the probed identity
  and the reports of the current trial.
- Interaction: diagnoses meet in the cache directory; each starts its workers as
  processes and checks what they report.
- Hard: a diagnosis killed half way through the removal of a directory, a copy,
  a publication or a reset; the machine changing between two workers; a file
  damaged between the check and the use.
- Correct when: whatever is compared is the whole evidence of one baseline run,
  under the identity of this diagnosis; nothing partial is ever a hit.

### Humanize2 session (`tools/k3/humanize2.py`)

`humanize2 start`, `start --resume`, `stop`: the other block that may edit the
candidate tree, through a detached `hmz exec` flow that leads a process group.
- State: `session.json` of its own; the flow and whatever agents its group holds.
- Interaction: no lock. `start` looks at its own session, then `plan` looks at
  the agent session of Humanize1; `stop` signals the group. `agent.py` never
  looks back.
- Hard: starts and stops that race; a stop that writes back what it loaded up to
  a timeout earlier; a flow that ignores SIGTERM; a command killed between spawn
  and record; `ps` failing.
- Correct when: one flow per tree and no agent writer beside it, a session
  recorded as stopped is dead, a signalled flow comes to its end.

### The flow's cleaning epochs (`flows/infra_loop_kda_flame_chase`)

Runs inside the flow. Around every cleaning epoch of the upstream loop it copies
`.kda-task` (ledger, logs, profiles) aside and puts it back.
- State: the directory, one snapshot under the temporary directory per epoch.
- Hard: the flow stopped or killed, or a command of the shell failing, while the
  directory is cleaned, half removed or half moved back.
- Correct when: no cleaner can lose a record.

### Workspace (`tools/k3/workspace.py`) and the benchmark harness (`bench/`)

`workspace prepare` materialises the task's base commit twice, as the candidate
and as the baseline tree, hashes both and writes a record. `run plan` hashes the
trees again; the harness freezes them, runs a correctness gate of four workers and
then timing trials, each worker a fresh process that hashes its source before and
after, and writes a summary.
- State: two trees, the record; per run the frozen hashes, the worker reports, the
  gate, the summary.
- Interaction: the agent edits the candidate while any of this happens; the record
  is read by `run plan`; a gate may be reused by a later run; the runner's evidence
  report reads what the harness left.
- Hard: prepares that race, fail or are killed; trees that change between a hash
  and its use and perhaps back; a harness killed between gate and summary; damaged
  reports; a reused gate of other sources.
- Correct when: a record names the commit of the trees it hashed, timing is gated
  by a correctness run of the very same sources, complete evidence was measured on
  the sources it names.

### Remote GPU runner (`experiments/*/scripts/kda_remote.py`)

`sync`, `run`, `cancel`, `fetch` of durable runs in a container on one GPU of a
remote host, each run a detached worker that executes stages.
- State: the run directory on the host: control lock, marker files, `status.json`,
  hash list; the cooperative flock on the GPU, inherited by stage leaders.
- Hard: a worker killed while its stage lives; a launch that races a cancel or
  whose docker client fails although the engine accepted; a stage that hangs; a
  fetch beside a worker that still writes.
- Correct when: one run at a time on the GPU, one outcome, nothing alive after it,
  a verified fetch is that outcome.

### Overlay (`tools/k3/overlay.py`) and the hooks it patches

`overlay build` copies the pinned Humanize plugin, applies an edit set and
publishes the result under its fingerprint; `agent start` resolves the pointer and
freezes plugin and plan digests for the session; the patched hooks then decide at
every stop of the writer whether the loop may go on to its review.
- State: builds, staging directories, the pointer; the session's frozen
  environment, the plan and its snapshot, the loop's phase.
- Hard: racing and killed builds; the submodule moving between hash and copy;
  a plan edited between two hooks; a resume after everything has moved on.
- Correct when: what is resolved is the plugin of now with the edits of now, a
  build in use stays as it was loaded, no loop passes its review on another plan.

### Task packages, toolchain, launch gate, export

`task-create` (`taskfactory.py`, `config.py`), `lifecycle.py`, `toolchain inspect`
(`toolchain.py`, `gitq.py`), the gates of `agent start` (`agent.py`, `cli.py`) and
`export bundle` (`export.py`).
- State: configuration and packages on disk, the machine (submodules, binaries on
  PATH, Codex home), the task lock, a bundle directory.
- Interaction: every command validates the whole configuration first; a start reads
  task, machine and PATH piece by piece under its lock; an export reads them all
  beside whoever changes them.
- Hard: racing creates with `--register`; a package half written; facts that were
  true only before the lock; binaries that change between plan, shim and resume; an
  index that is staged into during the export.
- Correct when: no create breaks a configuration, no start trusts a fact older than
  its lock, a loop keeps the binaries it was launched with, a manifest describes its
  directory, and a bundle called complete had all it needs or says what it did not
  find. That a patch called verified is the copied one is documented and not so
  (section 5).

### Not modelled

| Part | Why |
| --- | --- |
| Precision metrics (`precision/metrics.py`), the kernels of the workers | floating point, out of TLC's reach |
| Tuning and diagnosis manifests (`tuning.py`, `diagnosis.py`) | validation of one small document and the expansion of a grid: pure functions with no state, as well tested as checked |
| Resolution of paths and defaults (`config.py`, `paths.py`) | pure functions on strings |
| Argument parsing and printing (`cli.py`) | layout; what a command loads and checks is in the modules |
| Text of patches, prompts and templates | data; the models say when they apply and when not |
| `agent status`, `humanize2 status`, `workspace status`, `--dry-run` | they change nothing that anybody reads |
| A site fetch into a directory of the caller's choice | see section 5: nothing tells its files apart |
| Upstream plugin, `hmz`, Flowverse, docker, sites | outside the repository; modelled as far as this code relies on them, and marked external |

Five directories hold byte-identical copies of `bench/` and `precision/`; the
models name the lines of `projects/kimi-k3/prefill/`. The two copies of
`kda_remote.py` differ in their default task.

## 2. Modules

| Module | What it is |
| --- | --- |
| `RunSupervisor` | `supervise.py` in the order of `main()`, one action per status write, poll, signal and wait; the command's process group; signals to the supervisor |
| `RunControl` | extends it with `run start`, `run cancel` and any number of `run status` commands: the complete system of one detached run |
| `RunOutcome` | abstract specification: one outcome that is settled once, and questions that are answered by it |
| `AgentSession` | `agent start/resume/stop` with `_acquire_task_lock` and `FileLock` step by step, writers, loop states, faults |
| `FlowSession` | `humanize2 start/stop` step by step, flows and their groups, faults |
| `WriterInterlock` | composes `AgentSession` and `FlowSession` on one tree and one process table |
| `CleaningEpoch` | extends `FlowSession` with the inside of its flows: snapshot, cleaner, restore, shell command by shell command |
| `Campaign` | the campaign record and its editors |
| `PrecisionCache` | diagnoses that share a baseline cache: open, reset, sweep, load, workers, publish, every file operation a step |
| `EvidenceStore` | abstract specification of the cache: evidence of a trial is there whole or not at all, for one identity |
| `RemoteRun` | `kda_remote.py`: sync, launch, cancel, fetch, detached workers, stages and the GPU lock |
| `Workspace` | `workspace prepare` in both modes, racing, failing and killed; edits, removals and a new base commit beside it |
| `Measurement` | extends `Workspace` with run plans, the harness, its workers and gate, and the evidence report over what they left |
| `SiteRun` | the site adapter: commands that start, ask, cancel and fetch jobs through a wrapper, and the evidence report over what was fetched |
| `Overlay` | the store of overlay builds and the pointer |
| `HookLoop` | extends `Overlay` with one agent session: what start freezes and resume hands on, and the order of the guards in the stop hook |
| `Lifecycle`, `TaskPackage` | what `task.json` permits; packages, configuration, racing `task-create` |
| `Toolchain`, `LaunchGate` | the inspection as a set of checks over a machine; the gates of `agent start` and `resume` up to the writer's binaries |
| `Export` | `export bundle`, read by read and write by write |
| `TaskLife` | composes `LaunchGate` and `Export` over the same packages, configuration and machine: creates, agent commands, exports and changes by hand all beside each other |
| `MC*` | for TLC: symmetry, bounds, and in some cases a composition. `MCRecords` takes `Campaign` and `Workspace` in turn, which share nothing, `MCMeasurement` puts `Measurement` beside `SiteRun`, `MCFlowSession` puts racing commands beside cleaning flows; `MCTaskLife` picks one kind of command for each behaviour of `TaskLife` |
| `*_proofs` | theorems, section 4 |

**State and code.** In `RunSupervisor`, `sup` is the program point of `main()`;
`flag`, `cancelSent`, `escalated`, `cleared` are the variables of the same names;
`due` says that `escalate_at` has passed; `statusFile` is what the last atomic
`_write` left; `group` and `doomed` are the live members of the process group
and those with a SIGKILL pending; `rc` is how the command ended. In `RunControl`,
`starter`, `canceller` and `query[r].at` are the program points of the three
commands and the rest of their fields is what each has read so far;
`manifest.started` distinguishes the first from the second manifest write. In
`AgentSession`, `at[c]` is the program point of invocation `c`, `lock` and
`session` the two files, `holder`, `peek` and `held` the copies an invocation has
read; the uuid of a session is the invocation that generated it. In `Campaign`,
`disk` is the file and `mine[e]` the copy editor `e` has loaded. In
`PrecisionCache`, `identity`, `entries[t]` and `pendings[t]` are the files of the
cache directory, `lock` the flock, `pc[r]`, `want[r]` the program point and the
probed identity of a diagnosis, and `trial`, `export`, `repeat` the memory of the
one that holds the lock. In `FlowSession`, `at[c]` is the program point of
command `c`, `session` the file, `held` the copy a command has loaded, and `rival`
the answer `plan` gets about Humanize1's process; `WriterInterlock` instantiates
`rival` by what `AgentSession`'s session and process table say. In
`CleaningEpoch`, `control` is `.kda-task`, `phase[c]` where a flow is in its loop
and `backup[c]` its snapshot; a step of the flow's Python needs the flow, a step of
a shell or an agent only a living process of the group.

In `RemoteRun`, `marks[r]` are the marker files of a run directory, `status[r]`
and `hashes[r]` its evidence, `control[r]` who holds `control.lock`,
`accepted[r]` the workers docker accepted and has not started, `procs[r]` what
lives of a stage, and `cmd[c]`, `worker[r]` the program points with what each
has read. In `Workspace`, `trees[root]` are the files and the HEAD of a tree,
`record` is `workspace.json`, `prep[p]` a running prepare. In `Measurement`,
`run[r]` is a plan and then the harness's `main`, `report[r]`, `gate[r]`,
`summary[r]` the files of its report directory. In `SiteRun`, `submit[r]` and
`request[c]` are the commands, `manifest` their file, `job[r]` the truth at the
site and `fetched` the copy. In `Overlay`, `builder[b]` is a build command,
`builds` and `pointer` the store; in `HookLoop`, `session` is the record with
its loop and the hook that runs, `review` the last code review. In the task
modules, `package[t]` and `config` are files, `machine` what the inspection
reads, `create[k]`, `launch[l]`, `export[e]` the commands, `bundle` the
directories that exports write. A task `declares` a patch, an evidence manifest,
both or neither, and its `patch` is the recorded hash, if there is one. A manifest
holds what `_patch_entry` says (copied or not, the hash it took, the recorded one),
whether the base is there (`yes`, `no`, `unknown`: `None` in the code) and whether
a workspace is `prepared`.

A file's content is what it comes from, so that equal contents are equal hashes:
the worker run that wrote it, the commit or the edit, the upstream and the edit set.

**Grain.** Every file read, file write, look at the process table, spawn and
signal is a step of its own. Atomic writes (`mkstemp`+`os.replace`) are one
step; `FileLock.acquire`, which is not atomic, is two. `rmtree`, `rm -rf`, `mv`
between file systems and copies go file by file.

**Abstractions that matter.**
- Time: a deadline may pass at any moment after it was armed, so every order of
  a timeout and a late answer is explored.
- Process identity: start time and command identify a process for its life; a
  recycled pid never matches an identity. Without an identity on record a
  recycled pid may pass for the process (`PidAlive`, `ProbeSupervisor`). A writer
  that changes its own command line after the spawn is not modelled.
- `ps` may fail at any look. It then reads like a process that has gone:
  `ProbeMisled`, the second disjunct of `MatchSupervisor`, `PsFails`.
- Loops are bound to a session by the session id; the fallback to the newest
  unbound loop directory is not modelled.
- A diagnosis runs with `--baseline-cache`; without it, it touches nothing that
  another one sees. `load` is one step: the cache is locked, so only damage could
  come between its reads. A worker that fails, a check that raises and a kill all
  end a diagnosis where it is (`Interrupted`), and the kernel drops its flock.
- The identity of a cache is a source tree and a runtime (device, driver,
  packages, numerical environment, workloads, harness): the candidate is held to
  the runtime only.
- A flow and the other processes of its group come and go by themselves; SIGTERM
  changes nothing that could not happen without it. A pid that has gone may
  answer `pid_alive` again, for another process. The readiness checks of
  Humanize2's `plan` other than the interlock may refuse at any time.
- A cleaner removes or rewrites anything; whether the upstream loop goes on after
  an error is its own affair, so it may do either.
- Numerics and timings of the harness are data: a worker passes, fails or dies.
- A site accepts a job and may print nothing, fails with or without having done
  what it was asked, and numbers its jobs by itself, so that two sites may use one
  number.
- What one hook reads of the upstream plugin is taken from the anchors of the
  overlay's edits and from `tests/test_hook_chain.py`.
- History variables (`settled`, `noted`, `stolen`, `passed`,
  `query[r].vouched`, `query[r].settled`, `touched`, `compared`, `recorded`,
  `overlapped`, `unmet`, `unproved`, and the fields `alone`, `lone`, `returned`,
  `code`, `sure`, `steady`) record what happened for the properties; no action's
  guard reads them.

## 3. Runs

| Run | Instance | States, time | What it shows |
| --- | --- | --- | --- |
| `run_control` | 1 worker, 1 reader asking again and again, 1 repeated cancel | 573,400, 72 s | all promises of a detached run, with fairness |
| `agent_serial` | 4 invocations, one at a time, 1 fault | 1,372,950, 71 s | sequences: lock and session in step, no second writer |
| `agent_concurrent` | 3 invocations, 2 at a time, 1 fault | 1,555,538, 68 s | the lock under races |
| `records` | campaign: 2 editors, 2 identities, 3 candidates, budget 2, history 6; workspace: 2 prepares, 2 commits, 2 files, 2 edits, 2 faults | 1,222,688, 42 s | what a promotion went through; what a prepare nobody overlapped leaves |
| `precision_cache` | 3 diagnoses, 2 trials, 2 sources, 2 runtimes, 1 drift, 1 damaged file | 1,335,516, 107 s | crash recovery and reuse of baseline evidence |
| `flow_session` | race: 3 commands, 2 at a time, 1 fault, with fairness; cleaning: 2 commands in turn, 2 records | 912,514, 110 s | Humanize2 without a lock; evidence through cleaning and kills |
| `flow_interlock` | 1 agent start, 1 flow start, one after the other | 292, 2 s | finding: both edit the tree |
| `remote_run` | 2 runs, 2 commands, 3 operations, 1 fault, with fairness | 738,977, 115 s | GPU exclusion, final outcomes, honest fetches |
| `evidence` | local: 1 prepare, 2 runs one after the other, 1 edit, 1 fault; site: 2 runs, 2 commands, 3 sites, 1 fault | 2,845,921, 126 s | evidence by either way |
| `overlay` | 2 builds, 2 upstreams, 2 edit sets, 3 disturbances of moves, faults and edits | 2,396,492, 112 s | builds, resolution and the loop on top |
| `task_life` | 2 creates, 2 agent commands or 2 exports; 2 changes by hand or kills | 1,291,085, 135 s | packages, launches and bundles |
| `export_patch` | 1 export, 1 change by hand | 5,117, 5 s | finding: what is called verified is not what was copied |

**Bounds and why they are enough.** Readers change nothing anybody else reads, so
one is as good as many; one worker is the smallest group that outlives its
leader, and since it may exit and fork again it stands for a sequence of them.
Four serial invocations cover start, a stop or a crash, a resume and one more;
three concurrent ones cover a victim, a thief and the one that profits. One fault
at a time is what the code is meant to survive; the proofs of `AgentSession`
cover any number. A history of six reaches a promotion through a detour over
`blocked`, and three candidates against a budget of two reach the limit and one
beyond. In `records` a behaviour is of a campaign or of a workspace, which have
no file in common. Three diagnoses are one that fills the cache, one that is interrupted in
the middle of anything, and one that meets the result; two trials are enough for
one trial's publication to disturb another's entry. Three flow commands are a
flow, one that races with it and one that comes after either. A flow that cleans
and is killed, a stop, and a flow that is started on what they left are the shortest
story in which evidence could be lost twice; two records are one that a snapshot
holds and one written after it.

Two remote runs are a GPU holder and one that waits, and three operations are
launch, cancel and launch again, or fetch. Two prepares race; a third would find
the destinations taken. Two edits tell an edit in the candidate from one in the
baseline. Of two local runs the second may reuse the gate of the first; one edit
is enough to change a tree and, by a restore, to change it back (`OneRunAtATime`
keeps the harnesses apart, and the properties speak of each run by itself). At
the site, either two commands meet on one job or one command meets two jobs that
write nothing (`FewAtTheSite`); two of the sites number their jobs alike, the
third prints no number; the one fault is a killed command or a change of
configuration. Of the three disturbances of `overlay` at most two are moves, one
a fault, two edits (`FewDisturbances`), and once a session is recorded one build
at a time runs beside it (`OneBuildBeside`). In `task_life` each behaviour is of
one kind of command; the others can change nothing for it that the operator's
changes by hand do not cover. This is a bound of TLC only: the proofs are about
`TaskLife`, where all kinds run together. Machines have one dependency besides the
source tree, `isolated` stands for an isolated Codex home, and every new task has
the same base commit (`OneBase`).

Symmetry: invocations, editors, identities, candidates, diagnoses, sources,
runtimes, builds, plans, tasks, creates, launches and exports are compared only
for equality, and no run with symmetry checks liveness. Deadlock is not checked
where the system may stop: a run has ended, all invocations are done, all
histories are full.

Every type invariant the modules state is proved, and no run repeats it.
`LockExcludes`, `BudgetKept` and `OneIdentityStored` are proved for every instance
and not run either.

**Fairness.** `RunControl`'s `FairSpec` assumes that a supervisor that exists keeps
running, that an armed deadline passes, and that a process with a SIGKILL pending
dies. All three are the operating system's. Nothing else is owed: the command may
run for ever, no operator has to ask or cancel, and a SIGTERM may be ignored. For
`flow_session` it is that a `humanize2 stop` that was not killed goes on and that
its deadline passes; flows and starts owe nothing. For `remote_run` it is that a
worker which was not killed is scheduled and its stage deadlines pass; commands,
the container engine and the stages owe nothing.

**Properties of `run_control`.** `CompletionIsTruthful`, `CancelledRunIsDead` and
`ClearedMeansEmpty` relate an answer or a record to what happened to the process
group. `KeepsPromise` is the refinement of `RunOutcome`. `RequestSettles` and
`RequestEmptiesGroup` are the liveness of cancellation.

**Properties of the agent runs.** `NothingSpawnsBesideWriter` (an action
property): no spawn while a writer lives that the records identify, in every
sequence of commands with a crash, a Ctrl-C or a failing `ps`. A writer whose
command died before recording it is identified by nothing, which the property
leaves out by name. `LockTracksSession` is about a quiet, fault-free task.
`NoSecondWriterUntilStolen` says exactly how far the lock goes: it excludes until
somebody unlinks a lock in use (which can happen, section 5). `StoppedIsDead` needs
`ps` to answer: a `ps` that fails while `agent stop` polls is taken for an exit.

**Properties of `flow_session`.** `NothingSpawnsBesideSettledFlow` (an action
property) says how far a check without a lock goes: from the moment a flow was
recorded with nobody else under way, racing starts and stops with stale copies do
not get a second one beside it. Two starts that race before either has recorded
do both spawn, and so does the start after one that was killed before it recorded;
the property leaves these out by asking for a settled flow. `StoppedFlowIsDead`
holds through every race and failure of `ps`, because `stop` polls the pid and not
`ps`. `SignalledFlowEnds` is the liveness of `stop`. `EvidenceSurvivesCleaning`
says where a record is after any cleaner and any kill: in the directory or in a
snapshot, and in the directory when nothing was cut short; flows that overlap are
left out, for they do lose records. `OneHumanizeAtATime` is about both blocks
together.

**Properties of `records` (campaign) and `precision_cache`.** `PromotedIsVerified` follows a
promotion back through every detour, although editors save stale copies over each
other and `campaign init` saves a new record over any. That an end is final is no
property here: both bring an ended campaign back (section 5). `ComparedLikeWithLike` ties together the
export, its A/A repeat, the tensors on disk and the candidate's machine at the
moment of a comparison. `PassLeavesWarmCache` (an action property) says that
passing diagnoses are not repeated for nothing. `KeepsEvidenceWhole` is the
refinement of `EvidenceStore`: an entry stands for evidence exactly when every
check of `load` accepts it, so the rename of a complete `.pending` directory is
the one step that records, and every removal or damage forgets.

**Properties of `remote_run`.** `GpuIsExclusive` leaves out only a child whose
worker and stage leader were both killed: nobody holds the lock for it then.
`FinishedIsQuiet` and `OutcomeIsFinal` hold although a launch and a cancel race and
docker may start an accepted worker late. `VerifiedFetchIsFinal` speaks of a fetch
that met no other one in its destination. `RunSettles` is the liveness of a run.

**Properties of `records` (workspace) and `evidence`.** `LoneRecordIsItsCommit` and
`LonePrepareSparesWork` say what a prepare does when no other one ran beside it;
`ReadyPlanIsPrepared` carries the record into a plan, `TimingIsGated` the gate into
a trial, and `CompleteEvidenceIsOfItsSources` says of a report directory that the
evidence report calls complete that every worker measured the sources it names,
unless a tree was changed and changed back while a worker ran. `AsksItsOwnJob` says
that a command through a site reaches the job of its own run or none, and does
reach it once the start has returned with no cancel begun before;
`CompleteFetchIsTheWholeJob` that a fetch into the run's own directory which is
called complete holds everything the job wrote, unless another fetch was at work
there or the site did not know the job and so replaced nothing.

**Properties of `overlay`.** `ResolvesToCurrent`: what an agent start is given is
the pinned plugin of that moment with the edits of that moment.
`BuildsStayAsLoaded` (an action property): no command touches a build in place.
`PassedReviewIsAnchored`: a loop past its review had a finished review under the
plan it was started with, through stops and resumes.

**Properties of `task_life`.** `CreatesHarmNothing` (an action property): a create
never makes a valid configuration invalid and never touches another's package,
unless somebody repaired, removed or patched something by hand meanwhile.
`StartsOnlyOnReadyFacts`: whatever a launch relied on was true at some moment under
its lock. `RunsAsLaunched`: the hooks of a live writer run the binaries its start
resolved. `BundleIsHonest`: a manifest lies beside the task.json it hashes and the
diff it names, the diff was taken against the index whose hash it gives, and a patch
lies there exactly if it says that one was copied; which patch is another matter, the
one of `VerifiedPatchIsCopied` (run `export_patch`), which the code violates.
`CompleteBundleIsProved` (an action property): what a bundle called complete is made
from -- workload, reports, a declared patch and evidence manifest, base, workspace --
was there at some moment of its export. It leaves out, by name, what the manifest
itself tells without listing it as missing: that nobody could look for the base, and
that no workspace was prepared (`Told`, section 5).

## 4. Proofs

What is proved holds for every value of the constants.

- **`RunControl_proofs`, run.** `IInv` strengthens `TypeOK` with what each program
  point implies: `SupInv` (the final status on disk is exactly `sup = "done"`;
  after a drain of a cancelled run every member of the group is doomed; `cleared`
  implies an empty group), `StartInv` and `CancelInv` (which files exist by which
  point), and `QueryInv(r)`, the heart of it: what a `run status` command has
  read so far is still true in the sense it needs. A final status it has read is
  the one on disk; if its look found the supervisor gone, the supervisor is done
  or killed; and after the second read, an unfinished record with no process
  means killed. Each invariant alone is not inductive: the answer given at the end
  depends on a file read before and a process seen later. `Invariance` is proved
  action by action, then `CompletionTruth`, `CancelledIsDead`, `ClearedTruth` and
  `TypeCorrect` follow, and `Implements` shows that every step is a step of
  `RunOutcome` or a stutter, using that a final status is never undone
  (`SupMonotone`).
- **`RunControl_proofs`, campaign.** Soundness of a record is an invariant of each
  copy, on disk and in hand, so that a stale save replaces one sound record by
  another, and a new record is sound; `PromotionEarned` and `BudgetBound` follow.
- **`AgentSession_proofs`.** `LInv`: while nothing in use was unlinked, whoever
  owns the task (an invocation between the create of the lock file and its
  return, or a live writer) is named in the lock file. From it `LockIsExclusive`
  and `NoSecondWriter`, for any number of invocations, concurrency and faults.
  `IInv` adds to the type what each program point says of a process (before its
  spawn an invocation has no writer, a stop that signals holds a session with an
  identity, whose writer once lived), and `StoppedHasNoProcess` follows, under any
  concurrency too. The three theorems on sequences of commands (`NoSpawnBesideWriter`, `LockIsTheMarker`,
  `ResumeIsOfLiveLoop`) assume `MaxActive = 1`: with concurrent invocations nothing
  stronger than "until stolen" is true (section 5). Their invariant `SInv` says
  what a live writer that the records identify can count on (`NotedIsGuarded`):
  its session is on record as it was written, and the invocation at work, whatever
  it is, stands at no point from which it could spawn beside the writer or lose
  its record. Which points those are depends on whether the record has an
  identity, since different checks then stop a start and a resume. `Orderly` is
  about the lock file while nothing has gone wrong: it belongs to the session on
  record or to who is at work (`Tidy`), a writer is settled once its invocation has
  returned (`WritersSettle`), and what an invocation has loaded is what is on disk
  (`Knows`).
- **`PrecisionCache_proofs`.** `IInv` is typing, `Control` (whoever is inside the
  cache holds the lock, is alone there and knows its identity) and `InHand` (the
  reports in memory belong to the current trial and to that identity).
  `ComparesLikeWithLike` follows because the one step that compares checks the
  tensors against what is in hand. `StoresOneIdentity` needs `Owned` besides: past
  the opening of the cache a readable `identity.json` is the lock holder's own,
  so that no publication can bring in a foreign manifest. `PassLeavesItWarm` is by
  the trials the holder has behind it: each has a valid entry of its identity or was
  touched by damage (`Behind`). `EvidenceIsWhole` is the refinement, step by step: a
  publication keeps every entry as it was until the rename of a `.pending` that
  holds the report in hand, its tensors and a manifest of the holder's identity
  (`Publishing`, `OwnManifests`), which is the one step that records; opening,
  sweeping and damage forget, and all else stutters.
- **`FlowSession_proofs`.** `IInv` is typing, `Control` (a start that has not
  spawned has no flow; a stop that has matched holds a session whose flow existed,
  and at `ended` is gone) and `StoppedFlowIsDead`: a flow never comes back, which
  is what makes the stale write-back harmless. `SettledInv` adds, for each settled
  flow that lives, that its session is on record, that `ps` answers, that no
  other start is past its check, and that whatever a running command has in hand
  is that very session; `SettledFlowIsAlone` follows. `EpochInv` is about the flows
  from inside: while no two groups lived at once, each record is `InPlace` for the
  group that edits, in its own snapshot while that is whole and in the directory
  otherwise, or else `Elsewhere`, where an earlier flow was cut short. A group
  comes to life only with a flow that had not started (`GroupsBegin`) and so holds no
  snapshot; `EvidenceSurvives` follows.
- **`RemoteRun_proofs`.** `RunInv` (a worker exists only after `launch.json`, one at
  most, and has the lock whenever it has a stage; a finished run has neither),
  `CmdInv` (what a command knows of its run while it holds `control.lock`) and
  `LockInv` (the GPU lock has one open file description). The proof splits every
  step into what it leaves alone (`WorkerFrame`, `CommandFrame`) and what it makes of
  its own record (`WorkerOwn`, `CommandOwn`). `ExclusiveGpu`, `QuietWhenFinished` and
  `FinalOutcome` follow. `FetchInv` follows a fetch: its run is finished, and while
  it is alone in its destination what it has copied there is its run's; with
  `FinalOutcome` that is still the outcome when it has verified (`VerifiedMeansFinal`).
- **`HookLoop_proofs`.** For the store: a build command whose upstream stood still
  has copied that upstream, and so its record says (`CopiedWhatItHashed`,
  `RecordsWhatItIs`); what verifies is then what it is recorded to be
  (`VerifiedIsCurrent`), whence `ResolvesCurrent` and `BuildsStay`. For the loop: a
  session under the policy was given a build and froze the plan it began with
  (`EnvIsFrozen`), and past the guard the hook has read that very plan
  (`GuardSawFrozen`); `PassedReviewAnchored` follows.
- **`Measurement_proofs`.** `WsInv` knows what the trees hold while a prepare runs
  alone and that no content on disk or in a hash is of an edit still to come; what
  both hashes agree on is then the commit, because an edit is in one tree only
  (`LoneRecord`, `LoneSparesWork`). Per run, `RunInv` chains a plan to the record, a
  gate to the reports behind it, and each report of a passed worker to the code it
  opened if its tree did not return. `TimingGated`, `ReadyPlan` and
  `CompleteEvidence` follow, for every set of workers and runs that overlap at will.
- **`Measurement_proofs`, site.** `SiteInv`: a site gives no number twice
  (`Numbered`), a manifest names the job of its own run or none (`ManifestFacts`),
  and so does what a command has loaded of it (`RequestFacts`), although a cancel may
  write an old copy back; `OwnJobOnly` follows. For the copy, `FileFacts` ties every
  file in a run's directory to the job and to how far the job had got, and
  `LoneFacts` says that what a fetch copied while alone nobody tears. A file
  that says passed was finished when it was copied, and when all wanted files are,
  the job has written everything; hence `CompleteIsTheWholeJob`.
- **`TaskLife_proofs`.** Each property rests on an invariant of its own, which only
  one kind of command disturbs; the steps of the others leave alone what it speaks
  of. `ToolsInv`: whatever a start resolved it resolved in full, and shim, session
  and writer come from that (`LoopsRunAsLaunched`). `ReadyInv`: a start that nothing
  blocks has seen every condition true that is not `Pending` at its point, whence
  `StartsReady`. `BundleInv`: a bundle directory has one writer (`Alone`, because
  `mkdir` creates it or fails), and that one has in hand what lies there
  (`BundlesAreHonest`). `ProvedInv`: an export that misses nothing so far has found
  all but what it has not looked at and what it has in hand to tell
  (`CompleteBundlesAreProved`). `HarmInv`: a create
  that nobody's hands outdated has made its package directory and filled it as far
  as its point says, and its copy of the configuration differs from the file in
  good entries only; its write-back can then lose another's registration, but break
  nothing (`CreatesAreHarmless`). That a patch put into a package by hand outdates the
  create at work there was found by checking `HarmInv` with TLC, three moves deep,
  before it was proved.

Assumptions are the `ASSUME`s of the modules: the command is not one of its
workers, `None` and the other markers are none of the values they stand in for,
bounds are natural numbers, there is at least one trial, no worker of a gate is one
of a trial. TLC evaluates them in every run.

Model-checked only: liveness (`RequestSettles`, `RequestEmptiesGroup`,
`SignalledFlowEnds`, `RunSettles`), because fairness is out of the prover's reach.
`OneHumanizeAtATime` and `VerifiedPatchIsCopied` are violated (section 5). Every other property of every run is
proved; the three of `agent_serial` under the assumption that its bound states, one
invocation after another.

## 5. Findings

*Humanize1 and Humanize2 can edit the same tree* (`flow_interlock`). The interlock
is one-way: `agent.py` never reads Humanize2's session, against
`humanize2.py:130-131`.

*A bundle may call a patch verified that it did not copy* (`export_patch`).
`_patch_entry` compares the hash of the file in the package with the recorded one and
then copies whatever lies there by then (`export.py:85`, `:101`), against
`export.py:19-20`.

Other divergences met while modelling, each a behaviour of the model that a
property had to leave out or that the text above names:

Runs and agents
- A run whose `run start` died before its second manifest write stays `unknown` for
  ever, also after it ended (`runner.py:1452`).
- A cancel flag set after the command was reaped is never looked at, and the drain
  then only inspects: workers live on (`supervise.py:302`, against
  `docs/runner-interface.md:289-291`).
- A lock file that is still empty is judged stale (`util.py:260`, `agent.py:767`),
  so two concurrent starts can both spawn, although `start` serialises "before
  planning".
- `agent resume` checks the loop before it locks and not again (`agent.py:1262`): a
  loop that ended in between is resumed.
- `promoted` and `rejected` are terminal (`docs/optimization-control.md:28`), but
  `campaign init` saves a new `prepared` record over any file, an ended campaign of
  the same identity included (`cli.py:325-337`), and a stale save reopens one
  (`cli.py:344`). Line 27 there says that a blocked campaign
  "must carry a reason"; `campaign.transition` takes it as optional.
  `candidate_ready` and `verified` can be reached with no candidate.
- `humanize2 stop` waits for the leader of the group only, so agents that outlive
  it go on editing under a session recorded as stopped. Its SIGKILL asks for no
  identity (`humanize2.py:377-378`), where `docs/agent-loop.md:109` promises a
  signal only while start time and command match.

Cleaning epochs
- A job started in an earlier turn that writes into `.kda-task` while the cleaner
  runs loses what it wrote: the restore removes the directory and puts the snapshot
  back (`__init__.py:70`), against "benchmark logs" in the module's docstring.
- A flow that is killed inside an epoch leaves its snapshot under the temporary
  directory. `start --resume` knows nothing of it, so the workspace stays as the
  cleaner left it; the next epoch protects that.
- Two flows in one tree (possible as above) restore each other's snapshots and can
  lose a record altogether.

Site adapter
- A `run cancel` that began before `run start` recorded the number of its job writes
  the manifest back without it, where the comment at `runner.py:1226` and
  `docs/runner-interface.md:183-184` want it kept; every later command then asks for
  a job the site does not know. A start that dies after the wrapper accepted
  leaves a job that no command can name.
- A fetch beside a diagnosis that still runs may copy a `per-field.csv` that is cut
  off and be called complete: only its existence is checked. A fetch into a
  directory of the caller's choice cannot tell another run's files apart.
- A fetch accepts whatever its wrapper exits 0 with (`runner.py:1284-1304`), so also
  that it knows no such job and copied nothing; what an earlier fetch, cut short,
  left in the directory, torn files included, is then inventoried and can be called
  complete.

Workspace and measurement
- Two `workspace prepare --mode archive` that race overwrite work of the agent,
  which `workspace.py:165-166` wants refused; with a new base commit in between, both
  trees may come out as the same mixture, under a record naming a commit that
  neither is.
- The trees hashed into a run's identity (`runner.py:644-656`) are not compared with
  what the harness measured. Trial reports are checked for existence only.
- The evidence of `preflight-static` is never complete: the harness writes no file
  the report wants (`runner.py:528`, `preflight.py:20`).

Overlay and launch
- If the submodule moves away and back while `overlay build` copies, the build
  verifies although it was derived from other content.
- `agent resume` does not verify a frozen plugin that was damaged since, and with
  the overlay disabled resumes whatever the submodule is by then, against
  `agent.py:1281-1285`. `agent start` does not compare the live plan with its snapshot.
- The plan's identity and the shim resolve PATH separately (`agent.py:667`): the
  launched binaries may be others than the identity names. The inspection mixes
  gitlinks and HEADs of different moments.

Packages and bundles
- `scaffold` "validates everything before writing anything"
  (`taskfactory.py:359`), but refuses to register in the example configuration only
  after the package is written. A scaffold cut short blocks every retry.
- Two creates with `--register` lose one registration, and a create's write-back
  undoes what was edited meanwhile.
- "Missing local proof is explicit" (`export.py:17-18`), but a missing workspace is
  never listed: `workspace.status` answers `prepared: false` and raises nothing
  (`workspace.py:531-536`), so that the branch at `export.py:342-344` is not taken, and
  the bundle is called complete. Nor is a base that nobody could look for
  (`export.py:331`, `is False`). The manifest tells both elsewhere.
- A declared patch with no recorded hash is copied, as not verified
  (`export.py:86-103`), against `export.py:19-20`. The hash of an evidence manifest is
  taken from the package after the copy (`export.py:365`).
- An export lists staged changes before it reads the index the diff is taken against,
  hashes the untracked files after the diff, and
  takes lifecycle and base commit from another read of `task.json` than availability.

## 6. Plan

What is left, in order:

1. An abstract specification of a remote run, of which `RunOutcome` is nearly one,
   and a proof that `RemoteRun` implements it: `FinalOutcome` and `FetchInv` are most
   of what its steps need.
2. Proofs across compositions: which of `FlowSession`'s theorems survive beside
   `AgentSession` in `WriterInterlock`, and that `HookLoop`'s session is the one
   `AgentSession` records.
3. Precision diagnoses without a cache, and the fallback of the loop lookup.
