------------------------------- MODULE SiteRun -------------------------------
(***************************************************************************)
(* tools/k3/runner.py with the site-wrapper adapter: `run start`, `status`,*)
(* `cancel` and `fetch` of jobs that a configured wrapper runs elsewhere.  *)
(*                                                                         *)
(* The commands share the run's manifest and, when they fetch, a directory.*)
(* The site numbers its jobs by itself; the number it prints when a job is *)
(* accepted is the only name under which that site knows it.  Everything   *)
(* that is asked afterwards goes through the wrapper and the number that   *)
(* the manifest holds, while the configuration may name another site.      *)
(*                                                                         *)
(* Commands die between any two steps and their wrapper then goes on; the  *)
(* wrapper fails with or without having done what it was asked.            *)
(***************************************************************************)
EXTENDS Naturals, Sequences, FiniteSets

CONSTANTS
  SiteRuns,       \* run ids
  SiteCmds,       \* bound: status, cancel and fetch commands
  Wrappers,       \* site wrappers
  Printing,       \* the ones that print a job id of their own
  Configurations, \* runner settings there may be
  Wanted,         \* operations that are started
  Scripts,        \* harness scripts of the task package
  MaxSiteFaults,  \* bound: commands killed, wrappers failing
  Nothing         \* no file, no job, no value

-----------------------------------------------------------------------------
(* Operations, their commands and their artifacts *)

ReportDirs == {"correctness-only", "benchmark", "precision"}
ReportFiles == {"preflight", "preflight-static", "correctness"}
SiteOperations == ReportDirs \cup ReportFiles \cup {"profile"}

Settings == [adapter: {"local-command", "site-wrapper"}, wrapper: Wrappers \cup {Nothing},
             commands: SUBSET SiteOperations]

ASSUME SiteAssumption ==
  /\ Configurations \subseteq Settings
  /\ Wanted \subseteq SiteOperations
  /\ Printing \subseteq Wrappers
  /\ Nothing \notin SiteRuns \cup Wrappers \cup SiteCmds
  /\ MaxSiteFaults \in Nat

\* A run id has a date in it, and is no number a site would print.
ASSUME NoNumberAssumption == \A r \in SiteRuns \cup {Nothing} : r \notin Nat

\* The artifact of an operation: one report, a directory of them, or nothing.
Expected(op) == IF op \in ReportDirs \cup ReportFiles THEN {op} ELSE {}

\* The script of the task package that performs an operation.
ScriptOf(op) ==
  CASE op \in {"preflight", "preflight-static"} -> "bench/preflight.py"
    [] op = "correctness" -> "bench/correctness.py"
    [] op \in {"benchmark", "correctness-only"} -> "bench/benchmark.py"
    [] op = "precision" -> "precision/diagnose.py"
    [] op = "profile" -> "bench/profile_one.py"

Builtins == {op \in SiteOperations : ScriptOf(op) \in Scripts}

\* A configured command wins; without one or a script there is no command.
CommandOf(op, s) ==
  IF op \in s.commands THEN "configured"
  ELSE IF op \in Builtins THEN "builtin" ELSE Nothing

\* The profiler's command is a template, and a plan with a hole is blocked.
Unresolved(op, origin) == op = "profile" /\ origin = "builtin"

\* What the harness of an operation writes, in its order; summary.json is there
\* from the start and says "failed" until everything else is written.  The
\* static preflight prints what it found.
Writes(op) ==
  CASE op = "benchmark" -> <<"report", "gate", "trial", "summary">>
    [] op = "correctness-only" -> <<"report", "gate", "summary">>
    [] op = "precision" -> <<"fields", "trial", "summary">>
    [] op \in {"preflight", "correctness"} -> <<"report">>
    [] OTHER -> << >>

FileNames == {"report", "gate", "trial", "fields", "summary"}

\* per-field.csv is written row by row while the diagnosis runs.
Growing == {"fields"}

-----------------------------------------------------------------------------
(* Evidence: what artifact_report makes of a directory *)

FetchedFile == [run: SiteRuns, whole: BOOLEAN, passed: BOOLEAN]

Passing(content) == content # Nothing /\ content.whole /\ content.passed

HasGate == {"benchmark", "correctness-only"}

\* A readable gate lists the worker reports behind it, with their hashes; the
\* summary of a diagnosis lists its trial reports, by name.
SidecarsOf(op, dir) ==
  IF op = "precision" THEN {"trial"}
  ELSE IF Passing(dir[<<op, "gate">>]) THEN {"report"} ELSE {}

\* Mutant: what must be there is what the reports name.
MutantSchemaRequires(op) == {}

\* What must be there whatever the reports name.
SchemaRequires(op) ==
  CASE op = "benchmark" -> {"gate", "trial"}
    [] op = "correctness-only" -> {"gate"}
    [] op = "precision" -> {"fields"}

\* The gate's hashes are those of its own run's reports.
HashesHold(gate, worker) == worker.run = gate.run /\ worker.whole

DirComplete(op, dir) ==
  /\ Passing(dir[<<op, "summary">>])
  /\ \A f \in SidecarsOf(op, dir) \cup SchemaRequires(op) : dir[<<op, f>>] # Nothing
  /\ op \in HasGate /\ dir[<<op, "gate">>] # Nothing =>
       Passing(dir[<<op, "gate">>]) /\ HashesHold(dir[<<op, "gate">>], dir[<<op, "report">>])

\* Complete: something is expected, it is there, and it is not partial.
ArtifactsComplete(op, dir) ==
  /\ Expected(op) # {}
  /\ IF op \in ReportDirs THEN DirComplete(op, dir)
     ELSE Passing(dir[<<op, "report">>])

-----------------------------------------------------------------------------
VARIABLES
  settings,   \* the runner section of the local configuration
  submit,     \* per run: its `run start`
  manifest,   \* per run: manifest.json
  job,        \* per run: what the site made of it
  request,    \* per command: what it is doing
  fetched,    \* per run: the files in its directory `fetched`
  inventory,  \* per run: fetch-inventory.json
  siteFaults  \* faults so far

\* What the start has printed, or the run's own id.
JobIds == Nat \cup SiteRuns

Submission ==
  [pc: {"none", "refused", "planned", "listed", "accepted", "recorded", "failed"},
   op: Wanted \cup {Nothing}, origin: {"configured", "builtin", Nothing},
   wrapper: Wrappers \cup {Nothing}, got: JobIds \cup {Nothing}, lone: BOOLEAN]

SiteManifest == [wrapper: Wrappers, id: JobIds \cup {Nothing}, cancelled: BOOLEAN]

Job == [wrapper: Wrappers, id: JobIds, phase: {"running", "exited", "cancelled"},
        writes: Seq(FileNames), wrote: Nat]

Request ==
  [pc: {"idle", "asked", "sent", "ended"}, kind: {"status", "cancel", "fetch", Nothing},
   run: SiteRuns \cup {Nothing}, held: SiteManifest \cup {Nothing},
   wrapper: Wrappers \cup {Nothing}, id: JobIds \cup {Nothing},
   copied: SUBSET FileNames, alone: BOOLEAN, alive: BOOLEAN, sure: BOOLEAN]

Fetched == [Wanted \X FileNames -> FetchedFile \cup {Nothing}]

Inventory == [complete: BOOLEAN, files: Fetched, alone: BOOLEAN, reached: BOOLEAN]

ASSUME NoFileAssumption ==
  Nothing \notin SiteManifest \cup Job \cup Inventory \cup FetchedFile

siteVars == <<settings, submit, manifest, job, request, fetched, inventory, siteFaults>>

NoSubmit == [pc |-> "none", op |-> Nothing, origin |-> Nothing, wrapper |-> Nothing,
             got |-> Nothing, lone |-> TRUE]
NoRequest == [pc |-> "idle", kind |-> Nothing, run |-> Nothing, held |-> Nothing, wrapper |-> Nothing,
              id |-> Nothing, copied |-> {}, alone |-> TRUE, alive |-> TRUE,
              sure |-> FALSE]
EmptyDir == [s \in Wanted \X FileNames |-> Nothing]

SiteInit ==
  /\ settings \in Configurations
  /\ submit = [r \in SiteRuns |-> NoSubmit]
  /\ manifest = [r \in SiteRuns |-> Nothing]
  /\ job = [r \in SiteRuns |-> Nothing]
  /\ request = [c \in SiteCmds |-> NoRequest]
  /\ fetched = [r \in SiteRuns |-> EmptyDir]
  /\ inventory = [r \in SiteRuns |-> Nothing]
  /\ siteFaults = 0

SiteFault == siteFaults < MaxSiteFaults /\ siteFaults' = siteFaults + 1

-----------------------------------------------------------------------------
(* run start *)

At(r, pc) == submit[r].pc = pc
Started(r) == At(r, "recorded")
SubmitOnly == UNCHANGED <<settings, manifest, job, request, fetched, inventory>>
Goes(r, pc) == submit' = [submit EXCEPT ![r].pc = pc]

\* plan, as far as the adapter and the command go: the run id is reserved, and
\* without a wrapper or with a hole in the command the start is refused.
SitePlan(r, op) ==
  /\ At(r, "none") /\ settings.adapter = "site-wrapper"
  /\ LET origin == CommandOf(op, settings)
     IN  submit' = [submit EXCEPT ![r] =
           IF origin = Nothing \/ settings.wrapper = Nothing \/ Unresolved(op, origin)
           THEN [@ EXCEPT !.pc = "refused"]
           ELSE [@ EXCEPT !.pc = "planned", !.op = op, !.origin = origin,
                          !.wrapper = settings.wrapper]]
  /\ SubmitOnly /\ UNCHANGED siteFaults

\* The first manifest: the adapter and its wrapper are frozen, no job is named.
SiteList(r) ==
  /\ At(r, "planned")
  /\ Goes(r, "listed")
  /\ manifest' = [manifest EXCEPT ![r] =
       [wrapper |-> submit[r].wrapper, id |-> Nothing, cancelled |-> FALSE]]
  /\ UNCHANGED <<settings, job, request, fetched, inventory, siteFaults>>

\* The site gives a job the next number of its own; one that prints no number
\* knows the job by its run id.
JobsAt(w) == {r \in SiteRuns : job[r] # Nothing /\ job[r].wrapper = w}
NextId(r, w) == IF w \in Printing THEN Cardinality(JobsAt(w)) + 1 ELSE r

\* The job starts.  A configured command need not write what the harness does.
SiteAccepts(r) ==
  \E writes \in {Writes(submit[r].op)} \cup IF submit[r].origin = "configured" THEN {<< >>} ELSE {} :
    job' = [job EXCEPT ![r] = [wrapper |-> submit[r].wrapper, id |-> NextId(r, submit[r].wrapper),
                               phase |-> "running", writes |-> writes, wrote |-> 0]]

\* The wrapper prints the id, or it fails, with or without having started a job.
SiteSubmit(r) ==
  /\ At(r, "listed")
  /\ SiteAccepts(r)
  /\ submit' = [submit EXCEPT ![r].pc = "accepted", ![r].got = NextId(r, submit[r].wrapper)]
  /\ UNCHANGED <<settings, manifest, request, fetched, inventory, siteFaults>>

SubmitFails(r) ==
  /\ At(r, "listed")
  /\ SiteAccepts(r) \/ UNCHANGED job
  /\ Goes(r, "failed")
  /\ SiteFault
  /\ UNCHANGED <<settings, manifest, request, fetched, inventory>>

\* The second manifest names the job.
SiteRecord(r) ==
  /\ At(r, "accepted")
  /\ Goes(r, "recorded")
  /\ manifest' = [manifest EXCEPT ![r] =
       [wrapper |-> submit[r].wrapper, id |-> submit[r].got, cancelled |-> FALSE]]
  /\ UNCHANGED <<settings, job, request, fetched, inventory, siteFaults>>

SubmitDies(r) ==
  /\ submit[r].pc \in {"planned", "listed", "accepted"}
  /\ Goes(r, "failed")
  /\ SiteFault
  /\ SubmitOnly

SubmitStep(r) ==
  \/ \E op \in Wanted : SitePlan(r, op)
  \/ SiteList(r) \/ SiteSubmit(r) \/ SubmitFails(r) \/ SiteRecord(r) \/ SubmitDies(r)

-----------------------------------------------------------------------------
(* The site *)

\* The job under that name, if that site has one.
Known(w, id) == {r \in JobsAt(w) : job[r].id = id}

JobRuns(r) == job[r] # Nothing /\ job[r].phase = "running"
JobFiles(r) == {job[r].writes[i] : i \in DOMAIN job[r].writes}

JobWrites(r) ==
  /\ JobRuns(r) /\ job[r].wrote < Len(job[r].writes)
  /\ job' = [job EXCEPT ![r].wrote = @ + 1]
  /\ UNCHANGED <<settings, submit, manifest, request, fetched, inventory, siteFaults>>

JobEnds(r) ==
  /\ JobRuns(r)
  /\ job' = [job EXCEPT ![r].phase = "exited"]
  /\ UNCHANGED <<settings, submit, manifest, request, fetched, inventory, siteFaults>>

\* A file of the job as it is by now; the summary says "failed" and a growing
\* report is partial until they are finished.
Finished(r, f) == \E i \in 1..job[r].wrote : job[r].writes[i] = f
RemoteFile(r, f) ==
  IF Finished(r, f) \/ f = "summary" \/ f \in Growing
  THEN [run |-> r, whole |-> Finished(r, f) \/ f = "summary", passed |-> Finished(r, f)]
  ELSE Nothing

-----------------------------------------------------------------------------
(* run status, run cancel, run fetch *)

\* Mutant: the adapter of today's configuration manages the run.
MutantManagedBy(r) == IF settings.wrapper # Nothing THEN settings.wrapper ELSE manifest[r].wrapper

\* adapter_from_manifest: the wrapper the run was started with.
ManagedBy(r) == manifest[r].wrapper

\* The id the site printed, or else the run's own.
SiteId(r) == IF manifest[r].id # Nothing THEN manifest[r].id ELSE r

Copying(c, r) == request[c].pc = "asked" /\ request[c].kind = "fetch" /\ request[c].run = r

\* The manifest is loaded.  `sure`, `alone` and `lone` are no state of the
\* program: the start had returned and no cancel was loaded before it did; no
\* other fetch works in the directory.  Nor is an inventory's `reached`: the site
\* knew the job (a wrapper that does not may still report success).
Ask(c, kind, r) ==
  /\ request[c].pc = "idle" /\ manifest[r] # Nothing
  /\ LET others == {d \in SiteCmds \ {c} : kind = "fetch" /\ Copying(d, r)}
         asked == [NoRequest EXCEPT !.pc = "asked", !.kind = kind, !.run = r,
                     !.held = manifest[r], !.wrapper = ManagedBy(r), !.id = SiteId(r),
                     !.alone = others = {}, !.sure = Started(r) /\ submit[r].lone]
     IN  request' = [d \in SiteCmds |->
           IF d = c THEN asked
           ELSE IF d \in others THEN [request[d] EXCEPT !.alone = FALSE] ELSE request[d]]
  /\ submit' = [submit EXCEPT ![r].lone = @ /\ (kind = "cancel" => Started(r))]
  /\ UNCHANGED <<settings, manifest, job, fetched, inventory, siteFaults>>

RequestEnds(c) == request' = [request EXCEPT ![c] = [NoRequest EXCEPT !.pc = "ended"]]
Asked(c, kind) == request[c].pc = "asked" /\ request[c].kind = kind
Target(c) == Known(request[c].wrapper, request[c].id)

StatusAnswered(c) ==
  /\ Asked(c, "status")
  /\ RequestEnds(c)
  /\ UNCHANGED <<settings, submit, manifest, job, fetched, inventory, siteFaults>>

Stopped(c) == [r \in SiteRuns |-> IF r \in Target(c) /\ JobRuns(r)
                              THEN [job[r] EXCEPT !.phase = "cancelled"] ELSE job[r]]

CancelForwarded(c) ==
  /\ Asked(c, "cancel")
  /\ job' = Stopped(c)
  /\ IF request[c].alive THEN request' = [request EXCEPT ![c].pc = "sent"] ELSE RequestEnds(c)
  /\ UNCHANGED <<settings, submit, manifest, fetched, inventory, siteFaults>>

\* The manifest goes back as it was loaded, with the request noted.
CancelRecorded(c) ==
  /\ request[c].pc = "sent"
  /\ manifest' = [manifest EXCEPT ![request[c].run] = [request[c].held EXCEPT !.cancelled = TRUE]]
  /\ RequestEnds(c)
  /\ UNCHANGED <<settings, submit, job, fetched, inventory, siteFaults>>

\* The wrapper copies what there is, file by file, in an order of its own.
FetchCopies(c) ==
  /\ Asked(c, "fetch")
  /\ \E r \in Target(c) : \E f \in JobFiles(r) \ request[c].copied :
       /\ request' = [request EXCEPT ![c].copied = @ \cup {f}]
       /\ fetched' = [fetched EXCEPT ![request[c].run][<<submit[r].op, f>>] =
            IF RemoteFile(r, f) # Nothing THEN RemoteFile(r, f) ELSE @]
  /\ UNCHANGED <<settings, submit, manifest, job, inventory, siteFaults>>

\* The expectations are checked where the files landed, and inventoried.
FetchInventories(c) ==
  /\ Asked(c, "fetch")
  /\ \A r \in Target(c) : JobFiles(r) \subseteq request[c].copied
  /\ RequestEnds(c)
  /\ LET dir == fetched[request[c].run]
     IN  inventory' = IF ~request[c].alive THEN inventory
           ELSE [inventory EXCEPT ![request[c].run] =
                   [complete |-> ArtifactsComplete(submit[request[c].run].op, dir),
                    files |-> dir, alone |-> request[c].alone,
                    reached |-> Target(c) # {}]]
  /\ UNCHANGED <<settings, submit, manifest, job, fetched, siteFaults>>

\* The wrapper fails or times out; a file it was copying stays torn.
WrapperFails(c) ==
  /\ request[c].pc = "asked"
  /\ \/ UNCHANGED <<job, fetched>>
     \/ Asked(c, "cancel") /\ job' = Stopped(c) /\ UNCHANGED fetched
     \/ /\ Asked(c, "fetch") /\ UNCHANGED job
        /\ \E r \in Target(c) : \E f \in JobFiles(r) \ request[c].copied :
             /\ RemoteFile(r, f) # Nothing
             /\ fetched' = [fetched EXCEPT ![request[c].run][<<submit[r].op, f>>] =
                  [RemoteFile(r, f) EXCEPT !.whole = FALSE]]
  /\ RequestEnds(c)
  /\ SiteFault
  /\ UNCHANGED <<settings, submit, manifest, inventory>>

\* The command is killed; its wrapper is not.
RequestDies(c) ==
  /\ request[c].pc \in {"asked", "sent"} /\ request[c].alive
  /\ IF request[c].pc = "sent" THEN RequestEnds(c)
     ELSE request' = [request EXCEPT ![c].alive = FALSE]
  /\ SiteFault
  /\ UNCHANGED <<settings, submit, manifest, job, fetched, inventory>>

RequestStep(c) ==
  \/ \E kind \in {"status", "cancel", "fetch"}, r \in SiteRuns : Ask(c, kind, r)
  \/ StatusAnswered(c) \/ CancelForwarded(c) \/ CancelRecorded(c)
  \/ FetchCopies(c) \/ FetchInventories(c) \/ WrapperFails(c) \/ RequestDies(c)

\* Bound: the configuration changes once, between commands that read it.
Reconfigure ==
  /\ SiteFault
  /\ settings' \in Configurations \ {settings}
  /\ UNCHANGED <<submit, manifest, job, request, fetched, inventory>>

SiteNext ==
  \/ \E r \in SiteRuns : SubmitStep(r) \/ JobWrites(r) \/ JobEnds(r)
  \/ \E c \in SiteCmds : RequestStep(c)
  \/ Reconfigure

SiteSpec == SiteInit /\ [][SiteNext]_siteVars

-----------------------------------------------------------------------------
\* Every state component has the kind of value the code gives it.
SiteTypeOK ==
  /\ settings \in Settings
  /\ submit \in [SiteRuns -> Submission]
  /\ manifest \in [SiteRuns -> SiteManifest \cup {Nothing}]
  /\ job \in [SiteRuns -> Job \cup {Nothing}]
  /\ request \in [SiteCmds -> Request]
  /\ fetched \in [SiteRuns -> Fetched]
  /\ inventory \in [SiteRuns -> Inventory \cup {Nothing}]

\* Whatever the configuration says by now, a command about a run never reaches
\* another run's job; and once its start has returned, with no cancel begun
\* before, every command reaches the very job that the site started for it.
AsksItsOwnJob ==
  \A c \in SiteCmds : request[c].pc = "asked" =>
    /\ Target(c) \subseteq {request[c].run}
    /\ request[c].sure => Target(c) = {request[c].run}

\* The inventory of a fetch that was alone and found its job says "complete".
Trusted(r) ==
  /\ inventory[r] # Nothing
  /\ inventory[r].complete /\ inventory[r].alone /\ inventory[r].reached

\* An inventory that calls its evidence complete lists everything the job wrote
\* at once, whole and passing, unless another fetch was at work in the same directory
\* or the site did not know the job and so replaced nothing there.
CompleteFetchIsTheWholeJob ==
  \A r \in SiteRuns : Trusted(r) =>
    LET files == inventory[r].files
        op == submit[r].op
    IN  /\ job[r].wrote = Len(job[r].writes)
        /\ \A f \in JobFiles(r) \ Growing :
             Passing(files[<<op, f>>]) /\ files[<<op, f>>].run = r
=============================================================================
