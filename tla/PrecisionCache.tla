--------------------------- MODULE PrecisionCache ---------------------------
(***************************************************************************)
(* The precision diagnosis (precision/diagnose.py) and the baseline cache  *)
(* it fills and reuses (precision/baseline_cache.py).  Several diagnoses   *)
(* share one cache directory; any of them may fail or be killed between    *)
(* two file operations, the machine or the sources may change between two  *)
(* workers, and a stored file may be damaged.                              *)
(*                                                                         *)
(* A file's content is abstracted to where it comes from: two contents     *)
(* have the same hash exactly when they are equal.  Every diagnosis is     *)
(* given --baseline-cache.                                                 *)
(***************************************************************************)
EXTENDS Naturals

CONSTANTS
  Runs,            \* diagnoses, one process each
  Sources,         \* baseline source trees
  Runtimes,        \* device, driver, packages, workloads and harness
  NTrials,         \* number of trials (TRIALS has 3)
  MaxDrifts,       \* bound: changes of the machine or the sources
  MaxCorruptions,  \* bound: damaged files
  None,            \* no file, nobody
  Bad              \* a file that is incomplete or altered

Ids == [source : Sources, runtime : Runtimes]
Trials == 0 .. NTrials - 1

\* What a baseline worker exports: the report and the tensors it names.
Evidence == [run : Runs, trial : Trials, id : Ids]

\* What a baseline_repeat worker reports of the export it was given.
Repeat == [run : Runs, trial : Trials, id : Ids, of : Evidence]

Manifest ==
  [identity : Ids, trial : Trials, baseline : Evidence \cup {None, Bad},
   baseline_repeat : Repeat \cup {None, Bad}, tensors : Evidence \cup {None, Bad}]

Files == {"baseline", "baseline_repeat", "tensors", "manifest"}

Directory ==
  [baseline : Evidence \cup {None, Bad}, baseline_repeat : Repeat \cup {None, Bad},
   tensors : Evidence \cup {None, Bad}, manifest : Manifest \cup {None, Bad}]

ASSUME PrecisionAssumption ==
  /\ NTrials \in Nat \ {0}
  /\ None # Bad
  /\ None \notin Runs
  /\ {None, Bad} \cap (Ids \cup Evidence \cup Repeat \cup Manifest) = {}

VARIABLES
  env,          \* the identity a worker would report now
  drifts,       \* how often it has changed
  corruptions,  \* how many files have been damaged
  identity,     \* identity.json
  entries,      \* entries[t]: the files of entries/trial-t
  pendings,     \* pendings[t]: the files of entries/trial-t.pending
  lock,         \* who holds the flock on .lock
  pc,           \* pc[r]: where run r is
  want,         \* want[r]: the identity r's probe reported
  trial,        \* the lock holder's trial
  export,       \* the lock holder's baseline report, in memory
  repeat,       \* and its A/A report
  touched,      \* entries damaged since they were published (history)
  compared      \* the comparisons that passed (history)

machine == << env, drifts, corruptions >>
disk == << identity, entries, pendings, touched >>
work == << trial, export, repeat >>
vars == << machine, disk, lock, pc, want, work, compared >>

NoDirectory == [f \in Files |-> None]

Holding == { "opening", "sweep", "load", "export", "repeat", "clear", "move",
             "copy export", "copy repeat", "manifest", "rename", "verify",
             "discard", "candidate" }
Ended == {"passed", "failed"}

Init ==
  /\ env \in Ids
  /\ drifts = 0 /\ corruptions = 0
  /\ identity = None
  /\ entries = [t \in Trials |-> NoDirectory]
  /\ pendings = [t \in Trials |-> NoDirectory]
  /\ touched = {}
  /\ lock = None
  /\ pc = [r \in Runs |-> "ready"]
  /\ want = [r \in Runs |-> None]
  /\ trial = 0 /\ export = None /\ repeat = None
  /\ compared = {}

---------------------------------------------------------------------------
\* Pieces of the actions.

At(r, place) == pc[r] = place
Goto(r, place) == pc' = [pc EXCEPT ![r] = place]

\* Leaving `with ExitStack()`, or dying: the flock and the memory are gone.
Leave(r, end) ==
  /\ Goto(r, end)
  /\ IF lock = r
     THEN lock' = None /\ trial' = 0 /\ export' = None /\ repeat' = None
     ELSE UNCHANGED << lock, work >>

Present(directory) == {f \in Files : directory[f] # None}

\* shutil.rmtree: one file at a time, in whatever order the directory has.
RemoveFromEntry(t) ==
  /\ \E f \in Present(entries[t]) : entries' = [entries EXCEPT ![t][f] = None]
  /\ UNCHANGED << identity, pendings, touched >>

RemoveFromPending(t) ==
  /\ \E f \in Present(pendings[t]) : pendings' = [pendings EXCEPT ![t][f] = None]
  /\ UNCHANGED << identity, entries, touched >>

\* Every check of BaselineCache.load on one entry.
Valid(directory, id, t) ==
  LET manifest == directory.manifest IN
  /\ manifest \in Manifest
  /\ manifest.identity = id /\ manifest.trial = t
  /\ directory.baseline = manifest.baseline
  /\ directory.baseline \in Evidence
  /\ directory.baseline.trial = t /\ directory.baseline.id = id
  /\ directory.baseline_repeat = manifest.baseline_repeat
  /\ directory.baseline_repeat \in Repeat
  /\ directory.baseline_repeat.trial = t /\ directory.baseline_repeat.id = id
  /\ directory.baseline_repeat.of = directory.baseline
  /\ directory.tensors = manifest.tensors
  /\ directory.tensors = directory.baseline

---------------------------------------------------------------------------
\* Opening the cache.

\* The identity worker: what this diagnosis is about from now on.
Probe(r) ==
  /\ At(r, "ready")
  /\ want' = [want EXCEPT ![r] = env]
  /\ Goto(r, "probed")
  /\ UNCHANGED << machine, disk, lock, work, compared >>

Lock(r) ==
  /\ At(r, "probed")
  /\ lock = None
  /\ lock' = r
  /\ Goto(r, "opening")
  /\ UNCHANGED << machine, disk, want, work, compared >>

\* LOCK_NB: somebody else has the cache open.
Refused(r) ==
  /\ At(r, "probed")
  /\ lock # None
  /\ Goto(r, "failed")
  /\ UNCHANGED << machine, disk, lock, want, work, compared >>

Stale(r) == identity # want[r]

KeepEntries(r) ==
  /\ At(r, "opening")
  /\ ~Stale(r)
  /\ Goto(r, "sweep")
  /\ UNCHANGED << machine, disk, lock, want, work, compared >>

ResetEntries(r) ==
  /\ At(r, "opening")
  /\ Stale(r)
  /\ \E t \in Trials : RemoveFromEntry(t) \/ RemoveFromPending(t)
  /\ UNCHANGED << machine, lock, pc, want, work, compared >>

WriteIdentity(r) ==
  /\ At(r, "opening")
  /\ Stale(r)
  /\ \A t \in Trials : Present(entries[t]) \cup Present(pendings[t]) = {}
  /\ identity' = want[r]
  /\ Goto(r, "sweep")
  /\ UNCHANGED << machine, entries, pendings, touched, lock, want, work, compared >>

\* What an earlier run left in a .pending directory goes before anything else.
Sweep(r) ==
  /\ At(r, "sweep")
  /\ \/ \E t \in Trials : RemoveFromPending(t) /\ UNCHANGED pc
     \/ /\ \A t \in Trials : Present(pendings[t]) = {}
        /\ Goto(r, "load")
        /\ UNCHANGED disk
  /\ UNCHANGED << machine, lock, want, work, compared >>

---------------------------------------------------------------------------
\* One trial: reuse the entry, or export, repeat and publish.

\* Mutation: an entry is good when its manifest is.
MutantHit(r) ==
  /\ At(r, "load")
  /\ entries[trial].manifest \in Manifest
  /\ entries[trial].manifest.identity = want[r]
  /\ export' = entries[trial].baseline
  /\ repeat' = entries[trial].baseline_repeat
  /\ Goto(r, "candidate")
  /\ UNCHANGED << machine, disk, lock, want, trial, compared >>

Hit(r) ==
  /\ At(r, "load")
  /\ Valid(entries[trial], want[r], trial)
  /\ export' = entries[trial].baseline
  /\ repeat' = entries[trial].baseline_repeat
  /\ Goto(r, "candidate")
  /\ UNCHANGED << machine, disk, lock, want, trial, compared >>

Miss(r) ==
  /\ At(r, "load")
  /\ ~Valid(entries[trial], want[r], trial)
  /\ Goto(r, "export")
  /\ UNCHANGED << machine, disk, lock, want, work, compared >>

\* The baseline worker, validated and still under the probed identity.
Export(r) ==
  /\ At(r, "export")
  /\ env = want[r]
  /\ export' = [run |-> r, trial |-> trial, id |-> env]
  /\ Goto(r, "repeat")
  /\ UNCHANGED << machine, disk, lock, want, trial, repeat, compared >>

Again(r) ==
  /\ At(r, "repeat")
  /\ env = want[r]
  /\ repeat' = [run |-> r, trial |-> trial, id |-> env, of |-> export]
  /\ Goto(r, "clear")
  /\ UNCHANGED << machine, disk, lock, want, trial, export, compared >>

\* Mutation: the other trials' entries go too.
MutantClear(r) ==
  /\ At(r, "clear")
  /\ \/ RemoveFromPending(trial) /\ UNCHANGED pc
     \/ \E t \in Trials : RemoveFromEntry(t) /\ UNCHANGED pc
     \/ /\ \A t \in Trials : Present(pendings[t]) \cup Present(entries[t]) = {}
        /\ Goto(r, "move")
        /\ UNCHANGED disk
  /\ UNCHANGED << machine, lock, want, work, compared >>

Clear(r) ==
  /\ At(r, "clear")
  /\ \/ RemoveFromPending(trial) /\ UNCHANGED pc
     \/ /\ Present(pendings[trial]) = {}
        /\ RemoveFromEntry(trial) /\ UNCHANGED pc
     \/ /\ Present(pendings[trial]) \cup Present(entries[trial]) = {}
        /\ Goto(r, "move")
        /\ UNCHANGED disk
  /\ UNCHANGED << machine, lock, want, work, compared >>

\* A move across file systems and a copyfile write in pieces: the file is
\* there, incomplete, before it is whole.
Write(r, file, content, next) ==
  /\ \/ /\ pendings[trial][file] = None
        /\ pendings' = [pendings EXCEPT ![trial][file] = Bad]
        /\ UNCHANGED pc
     \/ /\ pendings' = [pendings EXCEPT ![trial][file] = content]
        /\ Goto(r, next)
  /\ UNCHANGED << machine, identity, entries, touched, lock, want, work, compared >>

MoveScratch(r) == At(r, "move") /\ Write(r, "tensors", export, "copy export")
CopyExport(r) == At(r, "copy export") /\ Write(r, "baseline", export, "copy repeat")
CopyRepeat(r) == At(r, "copy repeat") /\ Write(r, "baseline_repeat", repeat, "manifest")

\* write_json replaces the file in one step; the hashes are of what is there.
WriteManifest(r) ==
  /\ At(r, "manifest")
  /\ pendings' = [pendings EXCEPT ![trial].manifest =
       [identity |-> want[r], trial |-> trial,
        baseline |-> pendings[trial].baseline,
        baseline_repeat |-> pendings[trial].baseline_repeat,
        tensors |-> pendings[trial].tensors]]
  /\ Goto(r, "rename")
  /\ UNCHANGED << machine, identity, entries, touched, lock, want, work, compared >>

Rename(r) ==
  /\ At(r, "rename")
  /\ entries' = [entries EXCEPT ![trial] = pendings[trial]]
  /\ pendings' = [pendings EXCEPT ![trial] = NoDirectory]
  /\ touched' = touched \ {trial}
  /\ Goto(r, "verify")
  /\ UNCHANGED << machine, identity, lock, want, work, compared >>

Verify(r) ==
  /\ At(r, "verify")
  /\ Goto(r, IF Valid(entries[trial], want[r], trial) THEN "candidate" ELSE "discard")
  /\ UNCHANGED << machine, disk, lock, want, work, compared >>

\* The new entry did not validate: it is removed and the diagnosis fails.
Discard(r) ==
  /\ At(r, "discard")
  /\ \/ RemoveFromEntry(trial) /\ UNCHANGED << pc, lock, work >>
     \/ Present(entries[trial]) = {} /\ Leave(r, "failed") /\ UNCHANGED disk
  /\ UNCHANGED << machine, want, compared >>

Comparison(r) ==
  [want |-> want[r], trial |-> trial, export |-> export, repeat |-> repeat,
   tensors |-> entries[trial].tensors, candidate |-> env.runtime]

LastTrial == trial + 1 = NTrials

\* Mutation: the tensor file is read without comparing its hash.
MutantCandidate(r) ==
  /\ At(r, "candidate")
  /\ entries[trial].tensors # None
  /\ env.runtime = want[r].runtime
  /\ compared' = compared \cup {Comparison(r)}
  /\ IF LastTrial
     THEN Leave(r, "passed")
     ELSE /\ trial' = trial + 1 /\ export' = None /\ repeat' = None
          /\ Goto(r, "load") /\ UNCHANGED lock
  /\ UNCHANGED << machine, disk, want >>

\* The candidate worker reads the tensors of the entry, and the next trial
\* begins or the diagnosis has passed.
Candidate(r) ==
  /\ At(r, "candidate")
  /\ entries[trial].tensors = export
  /\ env.runtime = want[r].runtime
  /\ compared' = compared \cup {Comparison(r)}
  /\ IF LastTrial
     THEN Leave(r, "passed")
     ELSE /\ trial' = trial + 1 /\ export' = None /\ repeat' = None
          /\ Goto(r, "load") /\ UNCHANGED lock
  /\ UNCHANGED << machine, disk, want >>

---------------------------------------------------------------------------
\* What goes wrong.

\* A worker fails or times out, a check raises, a file operation fails, or the
\* diagnosis is killed: it ends where it is.
Interrupted(r) ==
  /\ pc[r] \notin Ended
  /\ Leave(r, "failed")
  /\ UNCHANGED << machine, disk, want, compared >>

Drift ==
  /\ drifts < MaxDrifts
  /\ drifts' = drifts + 1
  /\ env' \in Ids \ {env}
  /\ UNCHANGED << corruptions, disk, lock, pc, want, work, compared >>

DamageEntry ==
  /\ \E t \in Trials : \E f \in Present(entries[t]) :
       /\ \E damage \in {None, Bad} : entries' = [entries EXCEPT ![t][f] = damage]
       /\ touched' = touched \cup {t}
  /\ UNCHANGED << identity, pendings >>

DamageIdentity ==
  /\ identity # None
  /\ identity' \in {None, Bad}
  /\ UNCHANGED << entries, pendings, touched >>

Damage ==
  /\ corruptions < MaxCorruptions
  /\ corruptions' = corruptions + 1
  /\ DamageEntry \/ DamageIdentity
  /\ UNCHANGED << env, drifts, lock, pc, want, work, compared >>

---------------------------------------------------------------------------
Open(r) == Probe(r) \/ Lock(r) \/ Refused(r) \/ KeepEntries(r) \/ ResetEntries(r)
             \/ WriteIdentity(r) \/ Sweep(r)

Publish(r) == Clear(r) \/ MoveScratch(r) \/ CopyExport(r) \/ CopyRepeat(r)
                \/ WriteManifest(r) \/ Rename(r) \/ Verify(r) \/ Discard(r)

Trial(r) == Hit(r) \/ Miss(r) \/ Export(r) \/ Again(r) \/ Publish(r) \/ Candidate(r)

Next == (\E r \in Runs : Open(r) \/ Trial(r) \/ Interrupted(r)) \/ Drift \/ Damage

Spec == Init /\ [][Next]_vars

---------------------------------------------------------------------------
\* Properties.

\* Every state component has the kind of value the code gives it.
TypeOK ==
  /\ env \in Ids
  /\ identity \in Ids \cup {None, Bad}
  /\ entries \in [Trials -> Directory]
  /\ pendings \in [Trials -> Directory]
  /\ touched \subseteq Trials
  /\ lock \in Runs \cup {None}
  /\ pc \in [Runs -> {"ready", "probed"} \cup Holding \cup Ended]
  /\ want \in [Runs -> Ids \cup {None}]
  /\ trial \in Trials
  /\ export \in Evidence \cup {None}
  /\ repeat \in Repeat \cup {None}

\* A comparison that passed compared like with like: the export, its A/A repeat
\* and the tensors the candidate was measured against are of one baseline run of
\* that trial, and all of them and the candidate come from the identity that
\* was probed, whatever was cached, damaged, half removed or changed meanwhile
\* (load, the worker's tensor check, the runtime check after each worker).
ComparedLikeWithLike ==
  \A c \in compared :
    /\ c.export \in Evidence /\ c.repeat \in Repeat
    /\ c.export.trial = c.trial /\ c.export.id = c.want
    /\ c.repeat.trial = c.trial /\ c.repeat.id = c.want
    /\ c.repeat.of = c.export
    /\ c.tensors = c.export
    /\ c.candidate = c.want.runtime

\* "Keep only one source/runtime identity": as long as identity.json can be
\* read, no manifest on disk is of another identity, at any point of a reset or
\* after a crash in the middle of one (open_cache removes before it records).
OneIdentityStored ==
  identity \in Ids =>
    \A t \in Trials : \A directory \in {entries[t], pendings[t]} :
      directory.manifest \in Manifest => directory.manifest.identity = identity

\* A diagnosis that passes leaves a cache its next run would hit at every
\* trial that nobody damaged since it was published.
PassLeavesWarmCache ==
  [][\A r \in Runs :
       pc[r] # "passed" /\ pc'[r] = "passed" =>
         \A t \in Trials : t \in touched' \/ Valid(entries'[t], want[r], t)]_vars

\* The evidence an entry stands for, and the evidence a run works with.
Stored ==
  [t \in Trials |->
    IF /\ entries[t].manifest \in Manifest
       /\ Valid(entries[t], entries[t].manifest.identity, t)
    THEN entries[t].baseline ELSE None]

Held == [r \in Runs |-> IF pc[r] = "candidate" THEN export ELSE None]

\* The cache keeps the promise of EvidenceStore: crashes, half-removed
\* directories and damage never show as anything but evidence that is not there.
Store == INSTANCE EvidenceStore WITH asked <- want, store <- Stored, held <- Held

KeepsEvidenceWhole == Store!Spec
===========================================================================
