------------------------ MODULE PrecisionCache_proofs ------------------------
(***************************************************************************)
(* Proofs about PrecisionCache, for any number of diagnoses, sources,      *)
(* runtimes and trials, and any amount of drift and damage: its type, what *)
(* a diagnosis that passes leaves behind, and that the cache implements    *)
(* the abstract EvidenceStore, step by step.                               *)
(***************************************************************************)
EXTENDS PrecisionCache, TLAPS

---------------------------------------------------------------------------
\* Type correctness.

\* A directory stays one when a file of it is removed or damaged.
LEMMA SpoiledDirectory ==
  ASSUME NEW directory \in Directory, NEW f \in Files, NEW v \in {None, Bad}
  PROVE  [directory EXCEPT ![f] = v] \in Directory
<1>1. CASE f = "baseline"
  BY <1>1 DEF Directory
<1>2. CASE f = "baseline_repeat"
  BY <1>2 DEF Directory
<1>3. CASE f = "tensors"
  BY <1>3 DEF Directory
<1>4. CASE f = "manifest"
  BY <1>4 DEF Directory
<1>5. QED
  BY <1>1, <1>2, <1>3, <1>4 DEF Files

\* So does every entry when one file of one of them is.
LEMMA SpoiledDirectories ==
  ASSUME NEW directories \in [Trials -> Directory], NEW t \in Trials,
         NEW f \in Files, NEW v \in {None, Bad}
  PROVE  [directories EXCEPT ![t][f] = v] \in [Trials -> Directory]
<1>1. [directories[t] EXCEPT ![f] = v] \in Directory
  BY SpoiledDirectory
<1>2. QED
  BY <1>1

\* Removing a file keeps the types of the disk.
LEMMA RemovalTyped ==
  ASSUME entries \in [Trials -> Directory], pendings \in [Trials -> Directory],
         NEW t \in Trials, RemoveFromEntry(t) \/ RemoveFromPending(t)
  PROVE  /\ entries' \in [Trials -> Directory]
         /\ pendings' \in [Trials -> Directory]
         /\ UNCHANGED << identity, touched >>
<1>1. CASE RemoveFromEntry(t)
  <2>1. PICK f \in Files : entries' = [entries EXCEPT ![t][f] = None]
    BY <1>1 DEF RemoveFromEntry, Present
  <2>2. QED
    BY <1>1, <2>1, SpoiledDirectories DEF RemoveFromEntry
<1>2. CASE RemoveFromPending(t)
  <2>1. PICK f \in Files : pendings' = [pendings EXCEPT ![t][f] = None]
    BY <1>2 DEF RemoveFromPending, Present
  <2>2. QED
    BY <1>2, <2>1, SpoiledDirectories DEF RemoveFromPending
<1>3. QED
  BY <1>1, <1>2

\* Writing a file of a pending entry keeps the types of the disk.
LEMMA WriteTyped ==
  ASSUME TypeOK, NEW r \in Runs,
         MoveScratch(r) \/ CopyExport(r) \/ CopyRepeat(r) \/ WriteManifest(r),
         export \in Evidence, repeat \in Repeat \cup {None},
         CopyRepeat(r) => repeat \in Repeat, want[r] \in Ids
  PROVE  pendings' \in [Trials -> Directory]
<1>1. pendings \in [Trials -> Directory] /\ pendings[trial] \in Directory
      /\ trial \in Trials
  BY DEF TypeOK
<1>2. CASE MoveScratch(r)
  BY <1>1, <1>2 DEF MoveScratch, Write, Directory
<1>3. CASE CopyExport(r)
  BY <1>1, <1>3 DEF CopyExport, Write, Directory
<1>4. CASE CopyRepeat(r)
  BY <1>1, <1>4 DEF CopyRepeat, Write, Directory
<1>5. CASE WriteManifest(r)
  <2> DEFINE m == [identity |-> want[r], trial |-> trial,
                   baseline |-> pendings[trial].baseline,
                   baseline_repeat |-> pendings[trial].baseline_repeat,
                   tensors |-> pendings[trial].tensors]
  <2>1. m \in Manifest
    BY <1>1 DEF Manifest, Directory
  <2>2. pendings' = [pendings EXCEPT ![trial].manifest = m]
    BY <1>5 DEF WriteManifest
  <2> HIDE DEF m
  <2>3. [pendings[trial] EXCEPT !.manifest = m] \in Directory
    BY <1>1, <2>1 DEF Directory
  <2>4. QED
    BY <1>1, <2>2, <2>3
<1>6. QED
  BY <1>2, <1>3, <1>4, <1>5

---------------------------------------------------------------------------
\* What a diagnosis has in hand at each point.

HasExport == { "repeat", "clear", "move", "copy export", "copy repeat",
               "manifest", "rename", "verify", "candidate" }
HasRepeat == HasExport \ {"repeat"}

\* Only the lock holder is inside the cache, and it knows what it is about.
Control ==
  /\ \A r \in Runs : pc[r] \in Holding => lock = r
  /\ \A r \in Runs : pc[r] \in Holding \cup {"probed"} => want[r] \in Ids
  /\ lock # None => \E r \in Runs : lock = r /\ pc[r] \in Holding
  /\ lock = None => trial = 0
  /\ \A r \in Runs : pc[r] \in {"opening", "sweep"} => trial = 0

\* The reports in memory are of the current trial and the probed identity.
InHand ==
  \A r \in Runs :
    /\ pc[r] \in HasExport =>
         export \in Evidence /\ export.trial = trial /\ export.id = want[r]
    /\ pc[r] \in HasRepeat =>
         /\ repeat \in Repeat /\ repeat.trial = trial /\ repeat.id = want[r]
         /\ repeat.of = export

IInv == TypeOK /\ Control /\ InHand

\* The inductive invariant holds initially.
LEMMA IInvInit == Init => IInv
<1> SUFFICES ASSUME Init PROVE IInv
  OBVIOUS
<1>1. NoDirectory \in Directory
  BY DEF NoDirectory, Directory, Files
<1>2. 0 \in Trials
  BY PrecisionAssumption DEF Trials
<1>3. TypeOK
  BY <1>1, <1>2 DEF Init, TypeOK
<1>4. Control /\ InHand
  BY DEF Init, Control, InHand, Holding, HasExport, HasRepeat
<1>5. QED
  BY <1>3, <1>4 DEF IInv

\* Entering the next program point moves one run only.
LEMMA GotoMoves ==
  ASSUME TypeOK, NEW r \in Runs, NEW place, Goto(r, place)
  PROVE  /\ pc'[r] = place
         /\ \A q \in Runs : q # r => pc'[q] = pc[q]
  BY DEF Goto, TypeOK

\* Nobody else is in the cache.
LEMMA Alone ==
  ASSUME Control, NEW r \in Runs, pc[r] \in Holding
  PROVE  /\ lock = r
         /\ \A q \in Runs : q # r => pc[q] \notin Holding
  BY DEF Control

\* The steps that open the cache keep the inductive invariant.
LEMMA OpenKeeps ==
  ASSUME IInv, NEW r \in Runs, Open(r)
  PROVE  IInv'
<1> USE DEF IInv
<1>1. CASE Probe(r)
  BY <1>1, GotoMoves DEF Probe, At, Goto, TypeOK, Control, InHand, machine, disk, work, Holding, HasExport, HasRepeat
<1>2. CASE Lock(r)
  BY <1>2, GotoMoves, PrecisionAssumption DEF Lock, At, Goto, TypeOK, Control, InHand, machine, disk, work, Holding, HasExport, HasRepeat
<1>3. CASE Refused(r)
  BY <1>3, GotoMoves DEF Refused, At, Goto, TypeOK, Control, InHand, machine, disk, work, Holding, Ended, HasExport, HasRepeat
<1>4. CASE KeepEntries(r)
  BY <1>4, GotoMoves DEF KeepEntries, At, Goto, TypeOK, Control, InHand, machine, disk, work, Holding, HasExport, HasRepeat
<1>5. CASE ResetEntries(r)
  <2>1. PICK t \in Trials : RemoveFromEntry(t) \/ RemoveFromPending(t)
    BY <1>5 DEF ResetEntries
  <2>2. QED
    BY <1>5, <2>1, RemovalTyped DEF ResetEntries, TypeOK, Control, InHand, machine, work
<1>6. CASE WriteIdentity(r)
  BY <1>6, GotoMoves DEF WriteIdentity, At, Goto, TypeOK, Control, InHand, machine, work, Holding, HasExport, HasRepeat
<1>7. CASE Sweep(r)
  <2>1. CASE \E t \in Trials : RemoveFromPending(t) /\ UNCHANGED pc
    BY <1>7, <2>1, RemovalTyped DEF Sweep, TypeOK, Control, InHand, machine, work
  <2>2. CASE Goto(r, "load") /\ UNCHANGED disk
    BY <1>7, <2>2, GotoMoves DEF Sweep, At, Goto, TypeOK, Control, InHand, machine, disk, work, Holding, HasExport, HasRepeat
  <2>3. QED
    BY <1>7, <2>1, <2>2 DEF Sweep
<1>8. QED
  BY <1>1, <1>2, <1>3, <1>4, <1>5, <1>6, <1>7 DEF Open

\* A run that leaves takes its lock and its memory with it.
LEMMA LeaveKeeps ==
  ASSUME IInv, NEW r \in Runs, NEW end \in Ended, Leave(r, end),
         UNCHANGED << env, disk, want >>
  PROVE  IInv'
<1> USE DEF IInv
<1>1. /\ pc' = [pc EXCEPT ![r] = end] /\ end \notin Holding \cup {"probed"}
      /\ pc'[r] = end
      /\ \A q \in Runs : q # r => pc'[q] = pc[q]
  BY DEF Leave, Goto, TypeOK, Ended, Holding
<1>2. CASE lock = r
  <2>1. \A q \in Runs : pc'[q] \notin Holding
    BY <1>1, <1>2 DEF Control
  <2>2. lock' = None /\ trial' = 0 /\ export' = None /\ repeat' = None
    BY <1>2 DEF Leave
  <2>3. 0 \in Trials
    BY PrecisionAssumption DEF Trials
  <2>4. TypeOK'
    BY <1>1, <2>2, <2>3 DEF TypeOK, disk
  <2>5. Control'
    BY <1>1, <2>1, <2>2 DEF Control, Holding, TypeOK
  <2>6. InHand'
    BY <2>1 DEF InHand, Holding, HasExport, HasRepeat
  <2>7. QED
    BY <2>4, <2>5, <2>6
<1>3. CASE lock # r
  <2>1. UNCHANGED << lock, work >>
    BY <1>3 DEF Leave
  <2>2. pc[r] \notin Holding
    BY <1>3 DEF Control
  <2>3. TypeOK'
    BY <1>1, <2>1 DEF TypeOK, disk, work
  <2>4. Control'
    BY <1>1, <2>1, <2>2 DEF Control, work, Holding, TypeOK
  <2>5. InHand'
    BY <1>1, <2>1 DEF InHand, Holding, HasExport, HasRepeat, work, Ended
  <2>6. QED
    BY <2>3, <2>4, <2>5
<1>4. QED
  BY <1>2, <1>3

\* The steps that publish an entry keep the inductive invariant.
LEMMA PublishKeeps ==
  ASSUME IInv, NEW r \in Runs, Publish(r)
  PROVE  IInv'
<1> USE DEF IInv
<1>0. trial \in Trials
  BY DEF TypeOK
<1>1. CASE Clear(r)
  <2>1. CASE RemoveFromPending(trial) \/ RemoveFromEntry(trial)
    <3>1. UNCHANGED << machine, lock, pc, want, work, compared >>
      <4>1. CASE RemoveFromPending(trial) /\ UNCHANGED pc
        BY <1>1, <4>1 DEF Clear
      <4>2. CASE RemoveFromEntry(trial) /\ UNCHANGED pc
        BY <1>1, <4>2 DEF Clear
      <4>3. CASE Goto(r, "move") /\ UNCHANGED disk /\ Present(pendings[trial]) \cup Present(entries[trial]) = {}
        BY <2>1, <4>3 DEF RemoveFromPending, RemoveFromEntry
      <4>4. QED
        BY <1>1, <4>1, <4>2, <4>3 DEF Clear
    <3>2. QED
      BY <1>0, <2>1, <3>1, RemovalTyped DEF TypeOK, Control, InHand, machine, work
  <2>2. CASE Goto(r, "move") /\ UNCHANGED disk
    BY <1>1, <2>2, GotoMoves DEF Clear, At, Goto, TypeOK, Control, InHand, machine, disk, work, Holding, HasExport, HasRepeat
  <2>3. QED
    BY <1>1, <2>1, <2>2 DEF Clear
<1>2. CASE MoveScratch(r) \/ CopyExport(r) \/ CopyRepeat(r) \/ WriteManifest(r)
  <2>1. /\ UNCHANGED << machine, identity, entries, touched, lock, want, work >>
        /\ \/ UNCHANGED pc
           \/ \E next \in {"copy export", "copy repeat", "manifest", "rename"} : Goto(r, next)
        /\ pc[r] \in HasRepeat
    BY <1>2 DEF MoveScratch, CopyExport, CopyRepeat, WriteManifest, Write, At, HasRepeat, HasExport
  <2>2. export \in Evidence /\ repeat \in Repeat /\ want[r] \in Ids
    BY <2>1 DEF InHand, Control, HasRepeat, HasExport, Holding
  <2>3. pendings' \in [Trials -> Directory]
    BY <1>2, <2>2, WriteTyped
  <2>4. CASE UNCHANGED pc
    BY <2>1, <2>3, <2>4 DEF TypeOK, Control, InHand, machine, work
  <2>5. ASSUME NEW next \in {"copy export", "copy repeat", "manifest", "rename"}, Goto(r, next)
        PROVE  IInv'
    BY <2>1, <2>3, <2>5, GotoMoves DEF Goto, TypeOK, Control, InHand, machine, work, Holding, HasExport, HasRepeat
  <2>6. QED
    BY <2>1, <2>4, <2>5
<1>3. CASE Rename(r)
  <2>1. NoDirectory \in Directory
    BY DEF NoDirectory, Directory, Files
  <2>2. QED
    <3>1. pendings[trial] \in Directory /\ lock = r
      BY <1>0, <1>3, Alone DEF Rename, At, TypeOK, Holding
    <3>2. TypeOK'
      BY <1>0, <1>3, <2>1, <3>1 DEF Rename, Goto, TypeOK, machine, work, Holding
    <3>3. pc'[r] = "verify" /\ \A q \in Runs : q # r => pc'[q] = pc[q]
      BY <1>3, GotoMoves DEF Rename
    <3>4. Control'
      BY <1>3, <3>1, <3>3 DEF Rename, At, Control, work, Holding
    <3>5. InHand'
      BY <1>3, <3>3 DEF Rename, At, InHand, work, HasExport, HasRepeat
    <3>6. QED
      BY <3>2, <3>4, <3>5
<1>4. CASE Verify(r)
  <2>1. \E next \in {"candidate", "discard"} : Goto(r, next)
    BY <1>4 DEF Verify
  <2>2. QED
    BY <1>4, <2>1, GotoMoves DEF Verify, At, Goto, TypeOK, Control, InHand, machine, disk, work, Holding, HasExport, HasRepeat
<1>5. CASE Discard(r)
  <2>1. CASE RemoveFromEntry(trial) /\ UNCHANGED << pc, lock, work >>
    BY <1>0, <1>5, <2>1, RemovalTyped DEF Discard, TypeOK, Control, InHand, machine, work
  <2>2. CASE Leave(r, "failed") /\ UNCHANGED disk
    BY <1>5, <2>2, LeaveKeeps DEF Discard, Ended, machine, disk
  <2>3. QED
    BY <1>5, <2>1, <2>2 DEF Discard
<1>6. QED
  BY <1>1, <1>2, <1>3, <1>4, <1>5 DEF Publish

\* The steps of one trial keep the inductive invariant.
LEMMA TrialKeeps ==
  ASSUME IInv, NEW r \in Runs, Trial(r)
  PROVE  IInv'
<1> USE DEF IInv
<1>1. CASE Hit(r)
  <2>1. /\ export' \in Evidence /\ export'.trial = trial /\ export'.id = want[r]
        /\ repeat' \in Repeat /\ repeat'.trial = trial /\ repeat'.id = want[r]
        /\ repeat'.of = export'
    BY <1>1 DEF Hit, Valid
  <2>2. lock = r /\ \A q \in Runs : q # r => pc[q] \notin Holding
    BY <1>1, Alone DEF Hit, At, Holding
  <2>3. pc'[r] = "candidate" /\ \A q \in Runs : q # r => pc'[q] = pc[q]
    BY <1>1, GotoMoves DEF Hit
  <2>4. TypeOK'
    BY <1>1, <2>1 DEF Hit, Goto, TypeOK, machine, disk, Holding
  <2>5. Control'
    BY <1>1, <2>2, <2>3 DEF Hit, At, Control, Holding
  <2>6. InHand'
    BY <1>1, <2>1, <2>2, <2>3 DEF Hit, InHand, Holding, HasExport, HasRepeat
  <2>7. QED
    BY <2>4, <2>5, <2>6
<1>2. CASE Miss(r)
  BY <1>2, GotoMoves DEF Miss, At, Goto, TypeOK, Control, InHand, machine, disk, work, Holding, HasExport, HasRepeat
<1>3. CASE Export(r)
  <2> DEFINE e == [run |-> r, trial |-> trial, id |-> env]
  <2>1. e \in Evidence /\ e.trial = trial /\ e.id = env
    BY DEF TypeOK, Evidence
  <2>2. export' = e
    BY <1>3 DEF Export
  <2> HIDE DEF e
  <2>3. lock = r /\ \A q \in Runs : q # r => pc[q] \notin Holding
    BY <1>3, Alone DEF Export, At, Holding
  <2>4. QED
    BY <1>3, <2>1, <2>2, <2>3, GotoMoves DEF Export, At, Goto, TypeOK, Control, InHand, machine, disk, work, Holding, HasExport, HasRepeat
<1>4. CASE Again(r)
  <2> DEFINE a == [run |-> r, trial |-> trial, id |-> env, of |-> export]
  <2>0. export \in Evidence
    BY <1>4 DEF Again, At, InHand, HasExport
  <2>1. a \in Repeat /\ a.trial = trial /\ a.id = env /\ a.of = export
    BY <2>0 DEF TypeOK, Repeat
  <2>2. repeat' = a
    BY <1>4 DEF Again
  <2> HIDE DEF a
  <2>3. lock = r /\ \A q \in Runs : q # r => pc[q] \notin Holding
    BY <1>4, Alone DEF Again, At, Holding
  <2>4. QED
    BY <1>4, <2>1, <2>2, <2>3, GotoMoves DEF Again, At, Goto, TypeOK, Control, InHand, machine, disk, work, Holding, HasExport, HasRepeat
<1>5. CASE Publish(r)
  BY <1>5, PublishKeeps
<1>6. CASE Candidate(r)
  <2>1. CASE /\ ~LastTrial
             /\ trial' = trial + 1 /\ export' = None /\ repeat' = None
             /\ Goto(r, "load") /\ UNCHANGED lock
    <3>1. trial' \in Trials
      BY <2>1, PrecisionAssumption DEF TypeOK, Trials, LastTrial
    <3>2. lock = r /\ \A q \in Runs : q # r => pc[q] \notin Holding
      BY <1>6, Alone DEF Candidate, At, Holding
    <3>3. pc'[r] = "load" /\ \A q \in Runs : q # r => pc'[q] = pc[q]
      BY <2>1, GotoMoves
    <3>4. TypeOK'
      BY <1>6, <2>1, <3>1 DEF Candidate, Goto, TypeOK, machine, disk, Holding
    <3>5. Control'
      BY <1>6, <2>1, <3>2, <3>3, PrecisionAssumption DEF Candidate, At, Control, Holding
    <3>6. InHand'
      BY <3>2, <3>3 DEF InHand, Holding, HasExport, HasRepeat
    <3>7. QED
      BY <3>4, <3>5, <3>6
  <2>2. CASE Leave(r, "passed")
    BY <1>6, <2>2, LeaveKeeps DEF Candidate, Ended, disk, machine
  <2>3. QED
    BY <1>6, <2>1, <2>2 DEF Candidate
<1>7. QED
  BY <1>1, <1>2, <1>3, <1>4, <1>5, <1>6 DEF Trial

\* What the world does keeps the inductive invariant.
LEMMA WorldKeeps ==
  ASSUME IInv, Drift \/ Damage
  PROVE  IInv'
<1> USE DEF IInv
<1>1. CASE Drift
  BY <1>1 DEF Drift, TypeOK, Control, InHand, disk, work
<1>2. CASE Damage
  <2>1. CASE DamageEntry
    <3>1. PICK t \in Trials, f \in Files, damage \in {None, Bad} :
            /\ entries' = [entries EXCEPT ![t][f] = damage]
            /\ touched' = touched \cup {t}
      BY <2>1 DEF DamageEntry, Present
    <3>2. entries' \in [Trials -> Directory]
      BY <3>1, SpoiledDirectories DEF TypeOK
    <3>3. QED
      BY <1>2, <2>1, <3>1, <3>2 DEF Damage, DamageEntry, TypeOK, Control, InHand, work
  <2>2. CASE DamageIdentity
    BY <1>2, <2>2 DEF Damage, DamageIdentity, TypeOK, Control, InHand, work
  <2>3. QED
    BY <1>2, <2>1, <2>2 DEF Damage
<1>3. QED
  BY <1>1, <1>2

\* Every step keeps the inductive invariant.
LEMMA IInvNext == IInv /\ [Next]_vars => IInv'
<1> SUFFICES ASSUME IInv, [Next]_vars PROVE IInv'
  OBVIOUS
<1>1. CASE UNCHANGED vars
  BY <1>1 DEF IInv, TypeOK, Control, InHand, vars, machine, disk, work
<1>2. ASSUME NEW r \in Runs, Interrupted(r) PROVE IInv'
  BY <1>2, LeaveKeeps DEF Interrupted, Ended, machine, disk
<1>3. QED
  BY <1>1, <1>2, OpenKeeps, TrialKeeps, WorldKeeps DEF Next

\* Every state component keeps the kind of value the code gives it.
THEOREM TypeCorrect == Spec => []TypeOK
<1>1. Spec => []IInv
  BY IInvInit, IInvNext, PTL DEF Spec
<1>2. IInv => TypeOK
  BY DEF IInv
<1>3. QED
  BY <1>1, <1>2, PTL

---------------------------------------------------------------------------
\* Like is compared with like.

\* The one step that compares does so with what the run has in hand.
LEMMA ComparesWhatIsInHand ==
  ASSUME IInv, NEW r \in Runs, Candidate(r), ComparedLikeWithLike
  PROVE  ComparedLikeWithLike'
<1> DEFINE c == Comparison(r)
<1>1. /\ export \in Evidence /\ export.trial = trial /\ export.id = want[r]
      /\ repeat \in Repeat /\ repeat.trial = trial /\ repeat.id = want[r]
      /\ repeat.of = export
  BY DEF IInv, InHand, Candidate, At, HasExport, HasRepeat
<1>2. /\ entries[trial].tensors = export
      /\ env.runtime = want[r].runtime
      /\ compared' = compared \cup {c}
  BY DEF Candidate
<1>3. /\ c.want = want[r] /\ c.trial = trial /\ c.export = export
      /\ c.repeat = repeat /\ c.tensors = entries[trial].tensors
      /\ c.candidate = env.runtime
  BY DEF Comparison
<1> HIDE DEF c
<1>4. QED
  BY <1>1, <1>2, <1>3 DEF ComparedLikeWithLike

\* Every other step compares nothing.
LEMMA OthersCompareNothing ==
  ASSUME [Next]_vars, ~ \E r \in Runs : Candidate(r)
  PROVE  UNCHANGED compared
<1>1. CASE UNCHANGED vars
  BY <1>1 DEF vars
<1>2. CASE Drift \/ Damage
  BY <1>2 DEF Drift, Damage
<1>3. ASSUME NEW r \in Runs, Open(r) PROVE UNCHANGED compared
  BY <1>3 DEF Open, Probe, Lock, Refused, KeepEntries, ResetEntries, WriteIdentity, Sweep
<1>4. ASSUME NEW r \in Runs, Interrupted(r) PROVE UNCHANGED compared
  BY <1>4 DEF Interrupted
<1>5. ASSUME NEW r \in Runs, Publish(r) PROVE UNCHANGED compared
  BY <1>5 DEF Publish, Clear, MoveScratch, CopyExport, CopyRepeat, Write,
              WriteManifest, Rename, Verify, Discard
<1>6. ASSUME NEW r \in Runs, Hit(r) \/ Miss(r) \/ Export(r) \/ Again(r)
      PROVE  UNCHANGED compared
  BY <1>6 DEF Hit, Miss, Export, Again
<1>7. QED
  BY <1>1, <1>2, <1>3, <1>4, <1>5, <1>6 DEF Next, Trial

\* A comparison that passed is between evidence of one baseline run, of the
\* probed identity, whatever crashed, drifted or was damaged on the way.
THEOREM ComparesLikeWithLike == Spec => []ComparedLikeWithLike
<1>1. Init => ComparedLikeWithLike
  BY DEF Init, ComparedLikeWithLike
<1>2. IInv /\ [Next]_vars /\ ComparedLikeWithLike => ComparedLikeWithLike'
  <2> SUFFICES ASSUME IInv, [Next]_vars, ComparedLikeWithLike
               PROVE  ComparedLikeWithLike'
    OBVIOUS
  <2>1. CASE \E r \in Runs : Candidate(r)
    BY <2>1, ComparesWhatIsInHand
  <2>2. CASE ~ \E r \in Runs : Candidate(r)
    BY <2>2, OthersCompareNothing DEF ComparedLikeWithLike
  <2>3. QED
    BY <2>1, <2>2
<1>3. Spec => []IInv
  BY IInvInit, IInvNext, PTL DEF Spec
<1>4. QED
  BY <1>1, <1>2, <1>3, PTL DEF Spec

---------------------------------------------------------------------------
\* One identity on disk.

\* Why a publishing run cannot break OneIdentityStored: once past "opening", a
\* readable identity.json is the lock holder's own.
Owned ==
  \A r \in Runs :
    (pc[r] \in Holding \ {"opening"} /\ identity \in Ids) => identity = want[r]

\* Emptying a file of a directory brings no manifest into it.
LEMMA NoNewManifest ==
  ASSUME NEW directories \in [Trials -> Directory], NEW t \in Trials, NEW f \in Files,
         NEW v \in {None, Bad}, NEW u \in Trials,
         [directories EXCEPT ![t][f] = v][u].manifest \in Manifest
  PROVE  [directories EXCEPT ![t][f] = v][u].manifest = directories[u].manifest
<1>1. v \notin Manifest
  BY PrecisionAssumption
<1>2. CASE u = t
  <2>1. [directories EXCEPT ![t][f] = v][u] = [directories[t] EXCEPT ![f] = v]
    BY <1>2
  <2>2. CASE f = "manifest"
    BY <1>1, <2>1, <2>2 DEF Directory
  <2>3. CASE f # "manifest"
    BY <1>2, <2>1, <2>3 DEF Directory
  <2>4. QED
    BY <2>2, <2>3
<1>3. CASE u # t
  BY <1>3
<1>4. QED
  BY <1>2, <1>3

\* Removing or damaging one file keeps OneIdentityStored.
LEMMA SpoilingKeepsOne ==
  ASSUME TypeOK, OneIdentityStored, NEW t \in Trials, NEW f \in Files,
         NEW v \in {None, Bad}, UNCHANGED identity,
         \/ entries' = [entries EXCEPT ![t][f] = v] /\ UNCHANGED pendings
         \/ pendings' = [pendings EXCEPT ![t][f] = v] /\ UNCHANGED entries
  PROVE  OneIdentityStored'
<1>1. entries \in [Trials -> Directory] /\ pendings \in [Trials -> Directory]
  BY DEF TypeOK
<1>2. ASSUME NEW u \in Trials, entries'[u].manifest \in Manifest
      PROVE  entries'[u].manifest = entries[u].manifest
  <2>1. CASE entries' = [entries EXCEPT ![t][f] = v]
    BY <1>1, <1>2, <2>1, NoNewManifest
  <2>2. CASE UNCHANGED entries
    BY <2>2
  <2>3. QED
    BY <2>1, <2>2
<1>3. ASSUME NEW u \in Trials, pendings'[u].manifest \in Manifest
      PROVE  pendings'[u].manifest = pendings[u].manifest
  <2>1. CASE pendings' = [pendings EXCEPT ![t][f] = v]
    BY <1>1, <1>3, <2>1, NoNewManifest
  <2>2. CASE UNCHANGED pendings
    BY <2>2
  <2>3. QED
    BY <2>1, <2>2
<1>4. QED
  BY <1>2, <1>3 DEF OneIdentityStored

\* So does rmtree, step by step.
LEMMA RemovalKeepsOne ==
  ASSUME TypeOK, OneIdentityStored, NEW t \in Trials,
         RemoveFromEntry(t) \/ RemoveFromPending(t)
  PROVE  OneIdentityStored'
<1>1. CASE RemoveFromEntry(t)
  <2>1. PICK f \in Files : entries' = [entries EXCEPT ![t][f] = None]
    BY <1>1 DEF RemoveFromEntry, Present
  <2>2. QED
    BY <1>1, <2>1, SpoilingKeepsOne DEF RemoveFromEntry
<1>2. CASE RemoveFromPending(t)
  <2>1. PICK f \in Files : pendings' = [pendings EXCEPT ![t][f] = None]
    BY <1>2 DEF RemoveFromPending, Present
  <2>2. QED
    BY <1>2, <2>1, SpoilingKeepsOne DEF RemoveFromPending
<1>3. QED
  BY <1>1, <1>2

\* A step that leaves the directories alone keeps it when it leaves identity.json
\* alone or makes it unreadable.
LEMMA SameDiskKeepsOne ==
  ASSUME OneIdentityStored, UNCHANGED << entries, pendings >>,
         identity' = identity \/ identity' \in {None, Bad}
  PROVE  OneIdentityStored'
  BY PrecisionAssumption DEF OneIdentityStored

\* Opening the cache keeps it: the old entries go before the new identity comes.
LEMMA OpenKeepsOne ==
  ASSUME TypeOK, OneIdentityStored, NEW r \in Runs, Open(r)
  PROVE  OneIdentityStored'
<1>1. CASE Probe(r) \/ Lock(r) \/ Refused(r) \/ KeepEntries(r)
  BY <1>1, SameDiskKeepsOne DEF Probe, Lock, Refused, KeepEntries, disk
<1>2. CASE ResetEntries(r)
  BY <1>2, RemovalKeepsOne DEF ResetEntries
<1>3. CASE WriteIdentity(r)
  <2>1. ASSUME NEW u \in Trials
        PROVE  entries[u].manifest \notin Manifest /\ pendings[u].manifest \notin Manifest
    <3>1. "manifest" \in Files
      BY DEF Files
    <3>2. entries[u].manifest = None /\ pendings[u].manifest = None
      BY <1>3, <3>1 DEF WriteIdentity, Present
    <3>3. QED
      BY <3>2, PrecisionAssumption
  <2>2. QED
    BY <1>3, <2>1 DEF WriteIdentity, OneIdentityStored
<1>4. CASE Sweep(r)
  <2>1. CASE \E t \in Trials : RemoveFromPending(t)
    BY <2>1, RemovalKeepsOne
  <2>2. CASE UNCHANGED disk
    BY <2>2, SameDiskKeepsOne DEF disk
  <2>3. QED
    BY <1>4, <2>1, <2>2 DEF Sweep
<1>5. QED
  BY <1>1, <1>2, <1>3, <1>4 DEF Open

\* Publishing keeps it: the manifest it writes is of the lock holder's identity.
LEMMA PublishKeepsOne ==
  ASSUME IInv, Owned, OneIdentityStored, NEW r \in Runs, Publish(r)
  PROVE  OneIdentityStored'
<1>0. TypeOK /\ trial \in Trials /\ pendings \in [Trials -> Directory]
      /\ entries \in [Trials -> Directory]
  BY DEF IInv, TypeOK
<1>1. CASE Clear(r) \/ Discard(r)
  <2>1. RemoveFromPending(trial) \/ RemoveFromEntry(trial) \/ UNCHANGED disk
    BY <1>1 DEF Clear, Discard
  <2>2. CASE UNCHANGED disk
    BY <2>2, SameDiskKeepsOne DEF disk
  <2>3. QED
    BY <1>0, <2>1, <2>2, RemovalKeepsOne
<1>2. CASE MoveScratch(r) \/ CopyExport(r) \/ CopyRepeat(r)
  <2>1. PICK file, content :
          /\ file \in Files \ {"manifest"}
          /\ pendings' = [pendings EXCEPT ![trial][file] = content]
          /\ UNCHANGED << identity, entries >>
    BY <1>2 DEF MoveScratch, CopyExport, CopyRepeat, Write, Files
  <2>2. ASSUME NEW u \in Trials PROVE pendings'[u].manifest = pendings[u].manifest
    <3>1. CASE u = trial
      <4>1. pendings'[u] = [pendings[u] EXCEPT ![file] = content]
        BY <1>0, <2>1, <3>1
      <4>2. QED
        BY <1>0, <2>1, <4>1 DEF Directory
    <3>2. CASE u # trial
      BY <1>0, <2>1, <3>2
    <3>3. QED
      BY <3>1, <3>2
  <2>3. QED
    BY <2>1, <2>2 DEF OneIdentityStored
<1>3. CASE WriteManifest(r)
  <2>1. identity \in Ids => identity = want[r]
    BY <1>3 DEF Owned, WriteManifest, At, Holding
  <2>2. pendings'[trial].manifest.identity = want[r]
    BY <1>0, <1>3 DEF WriteManifest, Directory
  <2>3. \A u \in Trials : u # trial => pendings'[u] = pendings[u]
    BY <1>0, <1>3 DEF WriteManifest
  <2>4. UNCHANGED << identity, entries >>
    BY <1>3 DEF WriteManifest
  <2>5. QED
    BY <2>1, <2>2, <2>3, <2>4 DEF OneIdentityStored
<1>4. CASE Rename(r)
  <2>1. /\ UNCHANGED identity
        /\ entries'[trial] = pendings[trial]
        /\ \A u \in Trials : u # trial =>
             entries'[u] = entries[u] /\ pendings'[u] = pendings[u]
        /\ pendings'[trial] = NoDirectory
    BY <1>0, <1>4 DEF Rename
  <2>2. NoDirectory.manifest \notin Manifest
    BY PrecisionAssumption DEF NoDirectory, Files
  <2>3. QED
    BY <1>0, <2>1, <2>2 DEF OneIdentityStored
<1>5. CASE Verify(r)
  BY <1>5, SameDiskKeepsOne DEF Verify, disk
<1>6. QED
  BY <1>1, <1>2, <1>3, <1>4, <1>5 DEF Publish

\* Every step keeps it.
LEMMA OneNext ==
  ASSUME IInv, Owned, OneIdentityStored, [Next]_vars
  PROVE  OneIdentityStored'
<1>0. TypeOK
  BY DEF IInv
<1>1. CASE UNCHANGED vars
  BY <1>1, SameDiskKeepsOne DEF vars, disk
<1>2. CASE Drift
  BY <1>2, SameDiskKeepsOne DEF Drift, disk
<1>3. CASE Damage
  <2>1. CASE DamageEntry
    <3>1. PICK t \in Trials, f \in Files, damage \in {None, Bad} :
            entries' = [entries EXCEPT ![t][f] = damage]
      BY <2>1 DEF DamageEntry, Present
    <3>2. QED
      BY <1>0, <2>1, <3>1, SpoilingKeepsOne DEF DamageEntry
  <2>2. CASE DamageIdentity
    BY <2>2, SameDiskKeepsOne DEF DamageIdentity
  <2>3. QED
    BY <1>3, <2>1, <2>2 DEF Damage
<1>4. ASSUME NEW r \in Runs,
             Interrupted(r) \/ Hit(r) \/ Miss(r) \/ Export(r) \/ Again(r) \/ Candidate(r)
      PROVE  OneIdentityStored'
  BY <1>4, SameDiskKeepsOne DEF Interrupted, Hit, Miss, Export, Again, Candidate, disk
<1>5. QED
  BY <1>0, <1>1, <1>2, <1>3, <1>4, OpenKeepsOne, PublishKeepsOne DEF Next, Trial

\* A run that is past "opening" after a step was so before it, or has just
\* found or written its own identity.
LEMMA OwnedNext ==
  ASSUME IInv, Owned, [Next]_vars
  PROVE  Owned'
<1>0. TypeOK /\ Control /\ None \notin Ids /\ Bad \notin Ids
  BY PrecisionAssumption DEF IInv
<1> DEFINE Inside(r) == pc[r] \in Holding \ {"opening"}
<1>1. ASSUME \A r \in Runs : Inside(r)' => Inside(r) /\ want'[r] = want[r],
             identity' = identity \/ identity' \in {None, Bad}
      PROVE  Owned'
  BY <1>0, <1>1 DEF Owned
<1>2. CASE UNCHANGED vars
  BY <1>1, <1>2 DEF vars, disk
<1>3. CASE Drift \/ Damage
  BY <1>1, <1>3 DEF Drift, Damage, DamageEntry, DamageIdentity, disk
<1>4. ASSUME NEW r \in Runs, Interrupted(r) PROVE Owned'
  BY <1>0, <1>1, <1>4, GotoMoves DEF Interrupted, Leave, disk, Holding
<1>5. ASSUME NEW r \in Runs, Open(r) PROVE Owned'
  <2>1. CASE Probe(r)
    <3>1. pc[r] = "ready" /\ pc'[r] = "probed" /\ \A q \in Runs : q # r => pc'[q] = pc[q] /\ want'[q] = want[q]
      BY <1>0, <2>1, GotoMoves DEF Probe, At, TypeOK
    <3>2. QED
      BY <1>1, <2>1, <3>1 DEF Probe, disk, Holding
  <2>2. CASE Lock(r)
    BY <1>0, <1>1, <2>2, GotoMoves DEF Lock, disk
  <2>3. CASE Refused(r)
    BY <1>0, <1>1, <2>3, GotoMoves DEF Refused, disk, Holding
  <2>4. CASE KeepEntries(r)
    <3>1. /\ pc'[r] = "sweep" /\ identity = want[r]
          /\ \A q \in Runs : q # r => pc'[q] = pc[q]
          /\ UNCHANGED << want, identity >>
      BY <1>0, <2>4, GotoMoves DEF KeepEntries, Stale, disk
    <3>2. QED
      BY <3>1 DEF Owned
  <2>5. CASE ResetEntries(r)
    BY <1>1, <2>5 DEF ResetEntries, RemoveFromEntry, RemoveFromPending
  <2>6. CASE WriteIdentity(r)
    <3>1. /\ pc'[r] = "sweep" /\ identity' = want[r] /\ UNCHANGED want
          /\ \A q \in Runs : q # r => pc'[q] = pc[q]
      BY <1>0, <2>6, GotoMoves DEF WriteIdentity
    <3>2. \A q \in Runs : q # r => pc[q] \notin Holding
      BY <1>0, <2>6, Alone DEF WriteIdentity, At, Holding
    <3>3. QED
      BY <3>1, <3>2 DEF Owned
  <2>7. CASE Sweep(r)
    BY <1>0, <1>1, <2>7, GotoMoves DEF Sweep, At, RemoveFromPending, disk, Holding
  <2>8. QED
    BY <1>5, <2>1, <2>2, <2>3, <2>4, <2>5, <2>6, <2>7 DEF Open
<1>6. ASSUME NEW r \in Runs, Publish(r) PROVE Owned'
  <2>1. Inside(r) /\ UNCHANGED << identity, want >>
    BY <1>6 DEF Publish, Clear, MoveScratch, CopyExport, CopyRepeat, Write, WriteManifest,
                Rename, Verify, Discard, RemoveFromEntry, RemoveFromPending, disk, At, Holding
  <2>2. \A q \in Runs : q # r => pc'[q] = pc[q]
    BY <1>0, <1>6 DEF Publish, Clear, MoveScratch, CopyExport, CopyRepeat, Write, WriteManifest,
                Rename, Verify, Discard, Leave, Goto, TypeOK
  <2>3. QED
    BY <1>1, <2>1, <2>2
<1>7. ASSUME NEW r \in Runs, Hit(r) \/ Miss(r) \/ Export(r) \/ Again(r) \/ Candidate(r)
      PROVE  Owned'
  <2>1. Inside(r) /\ UNCHANGED << identity, want >>
    BY <1>7 DEF Hit, Miss, Export, Again, Candidate, disk, At, Holding
  <2>2. \A q \in Runs : q # r => pc'[q] = pc[q]
    BY <1>0, <1>7 DEF Hit, Miss, Export, Again, Candidate, Leave, Goto, TypeOK
  <2>3. QED
    BY <1>1, <2>1, <2>2
<1>8. QED
  BY <1>2, <1>3, <1>4, <1>5, <1>6, <1>7 DEF Next, Trial

\* No manifest on disk is of another identity than the recorded one, at any
\* point of a reset and whoever crashed in the middle of one.
THEOREM StoresOneIdentity == Spec => []OneIdentityStored
<1>1. Init => Owned /\ OneIdentityStored
  <2>1. Init => Owned
    BY DEF Init, Owned, Holding
  <2>2. Init => OneIdentityStored
    BY PrecisionAssumption DEF Init, OneIdentityStored
  <2>3. QED
    BY <2>1, <2>2
<1>2. IInv /\ [Next]_vars /\ Owned /\ OneIdentityStored => (Owned /\ OneIdentityStored)'
  BY OwnedNext, OneNext
<1>3. Spec => []IInv
  BY IInvInit, IInvNext, PTL DEF Spec
<1>4. QED
  BY <1>1, <1>2, <1>3, PTL DEF Spec

---------------------------------------------------------------------------
\* What a diagnosis that passed leaves behind.

\* The trials the lock holder has done, the one of its candidate included, would
\* be hit by a run of its identity, unless somebody damaged them since.
Done(r, t) == t < trial \/ (t = trial /\ pc[r] = "candidate")
Behind ==
  \A r \in Runs : pc[r] \in Holding =>
    \A t \in Trials : Done(r, t) => t \in touched \/ Valid(entries[t], want[r], t)

\* A step by which nobody enters the cache or gets further in it, and that
\* touches no entry of a trial that is done.
LEMMA BehindStays ==
  ASSUME Behind, trial' = trial,
         \A q \in Runs : pc'[q] \in Holding =>
           /\ pc[q] \in Holding /\ want'[q] = want[q]
           /\ pc'[q] = "candidate" => pc[q] = "candidate",
         \A t \in Trials :
           \/ entries'[t] = entries[t] /\ (t \in touched => t \in touched')
           \/ t \in touched'
           \/ \A q \in Runs : pc[q] \in Holding => ~Done(q, t)
  PROVE  Behind'
<1> SUFFICES ASSUME NEW r \in Runs, pc'[r] \in Holding, NEW t \in Trials, Done(r, t)',
                    ~ (t \in touched')
             PROVE  Valid(entries[t], want[r], t)'
  BY DEF Behind
<1>1. pc[r] \in Holding /\ want'[r] = want[r] /\ Done(r, t)
  BY DEF Done
<1>2. entries'[t] = entries[t] /\ t \notin touched
  BY <1>1
<1>3. Valid(entries[t], want[r], t)
  BY <1>1, <1>2 DEF Behind
<1>4. QED
  BY <1>1, <1>2, <1>3 DEF Valid

\* Removing a file of one entry leaves the others.
LEMMA OthersUntouched ==
  ASSUME TypeOK, NEW t \in Trials, RemoveFromEntry(t) \/ RemoveFromPending(t)
  PROVE  /\ \A u \in Trials : u # t => entries'[u] = entries[u]
         /\ UNCHANGED touched
  BY DEF RemoveFromEntry, RemoveFromPending, TypeOK

\* A run that leaves, or dies, undoes nothing.
LEMMA LeavingKeepsBehind ==
  ASSUME IInv, Behind, NEW r \in Runs, NEW end \in Ended, Leave(r, end),
         UNCHANGED << entries, touched, want >>
  PROVE  Behind'
<1>1. /\ pc'[r] = end /\ \A q \in Runs : q # r => pc'[q] = pc[q]
      /\ end \notin Holding
  BY GotoMoves DEF Leave, IInv, Ended, Holding
<1>2. CASE lock = r
  <2>1. \A q \in Runs : pc'[q] \notin Holding
    BY <1>1, <1>2 DEF IInv, Control
  <2>2. QED
    BY <2>1 DEF Behind
<1>3. CASE lock # r
  BY <1>1, <1>3, BehindStays DEF Leave, work
<1>4. QED
  BY <1>2, <1>3

\* Opening the cache: no trial is done yet.
LEMMA OpenKeepsBehind ==
  ASSUME IInv, Behind, NEW r \in Runs, Open(r)
  PROVE  Behind'
<1>0. TypeOK /\ Control
  BY DEF IInv
<1>1. CASE Probe(r)
  <2>1. /\ pc'[r] = "probed" /\ \A q \in Runs : q # r => pc'[q] = pc[q] /\ want'[q] = want[q]
    BY <1>0, <1>1, GotoMoves DEF Probe, TypeOK
  <2>2. QED
    BY <1>1, <2>1, BehindStays DEF Probe, disk, work, Holding
<1>2. CASE Lock(r)
  <2>1. trial' = 0 /\ pc'[r] = "opening" /\ \A q \in Runs : q # r => pc'[q] = pc[q]
    BY <1>0, <1>2, GotoMoves DEF Lock, Control, work
  <2>2. \A q \in Runs : pc[q] \notin Holding
    BY <1>0, <1>2, PrecisionAssumption DEF Lock, Control
  <2>3. ASSUME NEW q \in Runs, pc'[q] \in Holding, NEW t \in Trials PROVE ~Done(q, t)'
    BY <2>1, <2>2, <2>3 DEF Done, Trials
  <2>4. QED
    BY <2>3 DEF Behind
<1>3. CASE Refused(r) \/ KeepEntries(r) \/ WriteIdentity(r)
  <2>1. UNCHANGED << entries, touched, want, trial >>
    BY <1>3 DEF Refused, KeepEntries, WriteIdentity, disk, work
  <2>2. \/ Goto(r, "failed")
        \/ pc[r] = "opening" /\ Goto(r, "sweep")
    BY <1>3 DEF Refused, KeepEntries, WriteIdentity, At
  <2>3. /\ pc'[r] \in Holding => pc[r] \in Holding
        /\ pc'[r] # "candidate"
        /\ \A q \in Runs : q # r => pc'[q] = pc[q]
    <3>1. CASE Goto(r, "failed")
      <4>1. pc'[r] = "failed" /\ \A q \in Runs : q # r => pc'[q] = pc[q]
        BY <1>0, <3>1, GotoMoves
      <4>2. QED
        BY <4>1 DEF Holding
    <3>2. CASE pc[r] = "opening" /\ Goto(r, "sweep")
      BY <1>0, <3>2, GotoMoves DEF Holding
    <3>3. QED
      BY <2>2, <3>1, <3>2
  <2>4. QED
    BY <2>1, <2>3, BehindStays
<1>4. CASE ResetEntries(r)
  <2>1. PICK t \in Trials : RemoveFromEntry(t) \/ RemoveFromPending(t)
    BY <1>4 DEF ResetEntries
  <2>2. UNCHANGED << pc, want, trial >> /\ pc[r] = "opening" /\ trial = 0
    BY <1>0, <1>4 DEF ResetEntries, At, Control, work
  <2>3. ASSUME NEW q \in Runs, pc[q] \in Holding, NEW u \in Trials PROVE ~Done(q, u)
    <3>1. q = r
      BY <1>0, <2>2, <2>3, Alone DEF Holding
    <3>2. QED
      BY <2>2, <3>1, PrecisionAssumption DEF Done, Trials
  <2>4. QED
    BY <2>2, <2>3, BehindStays
<1>5. CASE Sweep(r)
  <2>1. CASE \E t \in Trials : RemoveFromPending(t) /\ UNCHANGED pc
    BY <1>5, <2>1, BehindStays DEF Sweep, RemoveFromPending, work
  <2>2. CASE Goto(r, "load") /\ UNCHANGED disk
    BY <1>0, <1>5, <2>2, GotoMoves, BehindStays DEF Sweep, At, disk, work, Holding
  <2>3. QED
    BY <1>5, <2>1, <2>2 DEF Sweep
<1>6. QED
  BY <1>1, <1>2, <1>3, <1>4, <1>5 DEF Open

\* Publishing disturbs the entry of the holder's own trial only.
LEMMA PublishKeepsBehind ==
  ASSUME IInv, Behind, NEW r \in Runs, Publish(r)
  PROVE  Behind'
<1>0. TypeOK /\ Control /\ trial \in Trials
  BY DEF IInv, TypeOK
<1>1. pc[r] \in Holding \ {"candidate"}
  BY DEF Publish, Clear, MoveScratch, CopyExport, CopyRepeat, WriteManifest, Rename,
         Verify, Discard, At, Holding
<1>2. \A q \in Runs : pc[q] \in Holding => ~Done(q, trial)
  BY <1>0, <1>1, Alone DEF Done, Trials
<1>3. CASE Clear(r) \/ (Discard(r) /\ UNCHANGED << pc, work >>)
  <2>1. /\ pc'[r] = pc[r] \/ pc'[r] = "move"
        /\ \A q \in Runs : q # r => pc'[q] = pc[q]
        /\ UNCHANGED << want, trial >>
    BY <1>0, <1>3, GotoMoves DEF Clear, Discard, work
  <2>2. \/ RemoveFromEntry(trial) \/ RemoveFromPending(trial)
        \/ UNCHANGED << entries, touched >>
    BY <1>3 DEF Clear, Discard, disk
  <2>3. /\ \A u \in Trials : u # trial => entries'[u] = entries[u]
        /\ UNCHANGED touched
    BY <1>0, <2>2, OthersUntouched
  <2>4. QED
    BY <1>1, <1>2, <2>1, <2>3, BehindStays DEF Holding
<1>4. CASE MoveScratch(r) \/ CopyExport(r) \/ CopyRepeat(r) \/ WriteManifest(r)
  <2>1. /\ pc'[r] = pc[r] \/ pc'[r] \in {"copy export", "copy repeat", "manifest", "rename"}
        /\ \A q \in Runs : q # r => pc'[q] = pc[q]
        /\ UNCHANGED << entries, touched, want, trial >>
    BY <1>0, <1>4, GotoMoves DEF MoveScratch, CopyExport, CopyRepeat, WriteManifest, Write, work
  <2>2. QED
    BY <1>1, <2>1, BehindStays
<1>5. CASE Rename(r)
  <2>1. /\ pc'[r] = "verify" /\ \A q \in Runs : q # r => pc'[q] = pc[q]
        /\ UNCHANGED << want, trial >>
        /\ \A u \in Trials : u # trial => entries'[u] = entries[u]
        /\ touched' = touched \ {trial}
    BY <1>0, <1>5, GotoMoves DEF Rename, work, TypeOK
  <2>2. QED
    BY <1>1, <1>2, <2>1, BehindStays
<1>6. CASE Verify(r)
  <2>1. /\ \A q \in Runs : q # r => pc'[q] = pc[q]
        /\ UNCHANGED << entries, touched, want, trial >>
        /\ pc'[r] = "candidate" => Valid(entries[trial], want[r], trial)
        /\ pc'[r] \in {"candidate", "discard"}
    BY <1>0, <1>6, GotoMoves DEF Verify, disk, work
  <2>2. ASSUME NEW q \in Runs, pc'[q] \in Holding, NEW t \in Trials, Done(q, t)'
        PROVE  t \in touched \/ Valid(entries[t], want[q], t)
    <3>1. pc[q] \in Holding /\ (q # r => Done(q, t))
      BY <1>1, <2>1, <2>2 DEF Done
    <3>2. CASE q = r /\ pc'[r] = "candidate" /\ t = trial
      BY <2>1, <3>2
    <3>3. CASE Done(q, t)
      BY <3>1, <3>3 DEF Behind
    <3>4. QED
      BY <2>1, <2>2, <3>1, <3>2, <3>3 DEF Done
  <2>3. QED
    BY <2>1, <2>2 DEF Behind, Valid
<1>7. CASE Discard(r) /\ Leave(r, "failed") /\ UNCHANGED disk
  BY <1>7, LeavingKeepsBehind DEF Discard, disk, Ended
<1>8. QED
  BY <1>3, <1>4, <1>5, <1>6, <1>7 DEF Publish, Discard


\* Every step keeps the done trials warm.
LEMMA BehindNext ==
  ASSUME IInv, Behind, [Next]_vars
  PROVE  Behind'
<1>0. TypeOK /\ Control /\ trial \in Trials
  BY DEF IInv, TypeOK
<1>1. CASE UNCHANGED vars
  BY <1>1, BehindStays DEF vars, disk, work
<1>2. CASE Drift
  BY <1>2, BehindStays DEF Drift, disk, work
<1>3. CASE Damage
  <2>1. UNCHANGED << pc, want, trial >>
    BY <1>3 DEF Damage, work
  <2>2. ASSUME NEW t \in Trials
        PROVE  \/ entries'[t] = entries[t] /\ (t \in touched => t \in touched')
               \/ t \in touched'
    BY <1>0, <1>3 DEF Damage, DamageEntry, DamageIdentity, TypeOK
  <2>3. QED
    BY <2>1, <2>2, BehindStays
<1>4. ASSUME NEW r \in Runs, Interrupted(r) PROVE Behind'
  BY <1>4, LeavingKeepsBehind DEF Interrupted, disk, Ended
<1>5. ASSUME NEW r \in Runs, Hit(r)
      PROVE  Behind'
  <2>1. /\ pc'[r] = "candidate" /\ \A q \in Runs : q # r => pc'[q] = pc[q]
        /\ UNCHANGED << entries, touched, want, trial >>
        /\ Valid(entries[trial], want[r], trial)
    BY <1>0, <1>5, GotoMoves DEF Hit, disk
  <2>2. pc[r] \in Holding
    BY <1>5 DEF Hit, At, Holding
  <2>3. ASSUME NEW q \in Runs, pc'[q] \in Holding, NEW t \in Trials, Done(q, t)'
        PROVE  t \in touched \/ Valid(entries[t], want[q], t)
    <3>1. CASE q = r /\ t = trial
      BY <2>1, <3>1
    <3>2. CASE ~ (q = r /\ t = trial)
      <4>1. pc[q] \in Holding /\ Done(q, t)
        BY <2>1, <2>2, <2>3, <3>2 DEF Done
      <4>2. QED
        BY <4>1 DEF Behind
    <3>3. QED
      BY <3>1, <3>2
  <2>4. QED
    BY <2>1, <2>3 DEF Behind, Valid
<1>6. ASSUME NEW r \in Runs, Miss(r) \/ Export(r) \/ Again(r)
      PROVE  Behind'
  <2>1. UNCHANGED << entries, touched, want, trial >>
    BY <1>6 DEF Miss, Export, Again, disk, work
  <2>2. /\ pc[r] \in {"load", "export", "repeat"}
        /\ \E place \in {"export", "repeat", "clear"} : Goto(r, place)
    BY <1>6 DEF Miss, Export, Again, At
  <2>3. /\ pc'[r] \in {"export", "repeat", "clear"}
        /\ \A q \in Runs : q # r => pc'[q] = pc[q]
    BY <1>0, <2>2, GotoMoves
  <2>4. pc[r] \in Holding /\ pc'[r] # "candidate"
    BY <2>2, <2>3 DEF Holding
  <2>5. QED
    BY <2>1, <2>3, <2>4, BehindStays
<1>7. ASSUME NEW r \in Runs, Candidate(r) PROVE Behind'
  <2>1. CASE Leave(r, "passed")
    BY <1>7, <2>1, LeavingKeepsBehind DEF Candidate, disk, Ended
  <2>2. CASE trial' = trial + 1 /\ Goto(r, "load")
    <3>1. /\ pc'[r] = "load" /\ \A q \in Runs : q # r => pc'[q] = pc[q]
          /\ UNCHANGED << entries, touched, want >>
          /\ pc[r] = "candidate" /\ trial' = trial + 1
      BY <1>0, <1>7, <2>2, GotoMoves DEF Candidate, disk, At
    <3>2. pc[r] \in Holding /\ \A q \in Runs : pc'[q] \in Holding => q = r
      <4>1. pc[r] \in Holding
        BY <3>1 DEF Holding
      <4>2. QED
        BY <1>0, <3>1, <4>1, Alone
    <3>3. ASSUME NEW t \in Trials, Done(r, t)'
          PROVE  Done(r, t)
      BY <1>0, <3>1, <3>3, PrecisionAssumption DEF Done, Trials
    <3>4. ASSUME NEW t \in Trials, Done(r, t)'
          PROVE  t \in touched \/ Valid(entries[t], want[r], t)
      BY <3>2, <3>3, <3>4 DEF Behind
    <3>5. QED
      BY <3>1, <3>2, <3>4 DEF Behind, Valid
  <2>3. QED
    BY <1>7, <2>1, <2>2 DEF Candidate
<1>8. QED
  BY <1>1, <1>2, <1>3, <1>4, <1>5, <1>6, <1>7, OpenKeepsBehind, PublishKeepsBehind
     DEF Next, Trial

\* Passing is the candidate step of the last trial, and nothing else.
LEMMA PassesAtTheEnd ==
  ASSUME IInv, [Next]_vars, NEW r \in Runs, pc[r] # "passed", pc'[r] = "passed"
  PROVE  /\ pc[r] = "candidate" /\ trial + 1 = NTrials
         /\ UNCHANGED << entries, touched >>
<1>0. TypeOK
  BY DEF IInv
<1>1. ASSUME NEW q \in Runs, Open(q) \/ Publish(q) \/ Interrupted(q) \/ Hit(q) \/ Miss(q)
                               \/ Export(q) \/ Again(q)
      PROVE  FALSE
  <2>1. pc' = pc \/ \E place \in Holding \cup {"probed", "failed"} : Goto(q, place)
    <3>1. CASE Open(q)
      BY <3>1 DEF Open, Probe, Lock, Refused, KeepEntries, ResetEntries, WriteIdentity,
                  Sweep, Holding
    <3>2. CASE Publish(q)
      BY <3>2 DEF Publish, Clear, MoveScratch, CopyExport, CopyRepeat, Write,
                  WriteManifest, Rename, Verify, Discard, Leave, Holding
    <3>3. CASE Interrupted(q) \/ Hit(q) \/ Miss(q) \/ Export(q) \/ Again(q)
      BY <3>3 DEF Interrupted, Leave, Hit, Miss, Export, Again, Holding
    <3>4. QED
      BY <1>1, <3>1, <3>2, <3>3
  <2>2. pc'[r] = pc[r] \/ pc'[r] \in Holding \cup {"probed", "failed"}
    BY <1>0, <2>1, GotoMoves
  <2>3. "passed" \notin Holding \cup {"probed", "failed"}
    BY DEF Holding
  <2>4. QED
    BY <2>2, <2>3
<1>2. ~UNCHANGED vars /\ ~Drift /\ ~Damage
  BY DEF vars, Drift, Damage
<1>3. PICK q \in Runs : Candidate(q)
  BY <1>1, <1>2 DEF Next, Trial
<1>4. UNCHANGED << entries, touched >> /\ pc[q] = "candidate"
  BY <1>3 DEF Candidate, disk, At
<1>5. CASE LastTrial /\ Leave(q, "passed")
  <2>1. q = r
    BY <1>0, <1>5, GotoMoves DEF Leave
  <2>2. QED
    BY <1>4, <1>5, <2>1 DEF LastTrial
<1>6. CASE Goto(q, "load")
  BY <1>0, <1>6, GotoMoves
<1>7. QED
  BY <1>3, <1>5, <1>6 DEF Candidate

\* A diagnosis that passes leaves every trial hot for the next run of its
\* identity, but for those somebody damaged after they were published.
THEOREM PassLeavesItWarm == Spec => PassLeavesWarmCache
<1>1. Init => Behind
  BY DEF Init, Behind, Holding
<1>2. IInv /\ [Next]_vars /\ Behind => Behind'
  BY BehindNext
<1>3. IInv /\ Behind /\ [Next]_vars
        => [\A r \in Runs :
              pc[r] # "passed" /\ pc'[r] = "passed" =>
                \A t \in Trials : t \in touched' \/ Valid(entries'[t], want[r], t)]_vars
  <2> SUFFICES ASSUME IInv, Behind, [Next]_vars, NEW r \in Runs,
                      pc[r] # "passed", pc'[r] = "passed", NEW t \in Trials
               PROVE  t \in touched' \/ Valid(entries'[t], want[r], t)
    OBVIOUS
  <2>1. /\ pc[r] = "candidate" /\ trial + 1 = NTrials
        /\ UNCHANGED << entries, touched >>
    BY PassesAtTheEnd
  <2>2. Done(r, t)
    BY <2>1, PrecisionAssumption DEF Done, IInv, TypeOK, Trials
  <2>3. t \in touched \/ Valid(entries[t], want[r], t)
    BY <2>1, <2>2 DEF Behind, Holding
  <2>4. QED
    BY <2>1, <2>3
<1>4. Spec => []IInv
  BY IInvInit, IInvNext, PTL DEF Spec
<1>5. QED
  BY <1>1, <1>2, <1>3, <1>4, PTL DEF Spec, PassLeavesWarmCache


---------------------------------------------------------------------------
\* The cache keeps the promise of EvidenceStore.  What its steps need beside
\* IInv, Owned and OneIdentityStored:

\* - nobody has asked before its probe;
Asking == \A r \in Runs : pc[r] = "ready" => want[r] = None

\* - once the cache is open, every manifest in it is of the holder's identity,
\*   whatever becomes of identity.json;
OwnManifests ==
  \A r \in Runs : pc[r] \in Holding \ {"opening"} =>
    \A t \in Trials : \A directory \in {entries[t], pendings[t]} :
      directory.manifest \in Manifest => directory.manifest.identity = want[r]

\* - an entry is published into an empty place, and brings the report in hand.
Publishing ==
  \A r \in Runs :
    /\ pc[r] \in { "move", "copy export", "copy repeat", "manifest", "rename" } =>
         Present(entries[trial]) = {}
    /\ pc[r] \in { "copy repeat", "manifest", "rename" } => pendings[trial].baseline = export
    /\ pc[r] = "verify" => entries[trial].baseline \in {export, None, Bad}

\* No manifest is on disk that was not there before.
NoNewManifests ==
  \A u \in Trials :
    /\ entries'[u].manifest \in Manifest => entries'[u].manifest = entries[u].manifest
    /\ pendings'[u].manifest \in Manifest => pendings'[u].manifest = pendings[u].manifest

\* Removing or damaging a file brings none.
LEMMA SpoilingBringsNone ==
  ASSUME TypeOK, NEW t \in Trials, NEW f \in Files, NEW v \in {None, Bad},
         \/ entries' = [entries EXCEPT ![t][f] = v] /\ UNCHANGED pendings
         \/ pendings' = [pendings EXCEPT ![t][f] = v] /\ UNCHANGED entries
  PROVE  NoNewManifests
<1>1. entries \in [Trials -> Directory] /\ pendings \in [Trials -> Directory]
  BY DEF TypeOK
<1>2. ASSUME NEW u \in Trials, entries'[u].manifest \in Manifest
      PROVE  entries'[u].manifest = entries[u].manifest
  <2>1. CASE entries' = [entries EXCEPT ![t][f] = v]
    BY <1>1, <1>2, <2>1, NoNewManifest
  <2>2. CASE UNCHANGED entries
    BY <2>2
  <2>3. QED
    BY <2>1, <2>2
<1>3. ASSUME NEW u \in Trials, pendings'[u].manifest \in Manifest
      PROVE  pendings'[u].manifest = pendings[u].manifest
  <2>1. CASE pendings' = [pendings EXCEPT ![t][f] = v]
    BY <1>1, <1>3, <2>1, NoNewManifest
  <2>2. CASE UNCHANGED pendings
    BY <2>2
  <2>3. QED
    BY <2>1, <2>2
<1>4. QED
  BY <1>2, <1>3 DEF NoNewManifests

\* The same of rmtree.
LEMMA RemovalBringsNone ==
  ASSUME TypeOK, NEW t \in Trials, RemoveFromEntry(t) \/ RemoveFromPending(t)
  PROVE  NoNewManifests
<1>1. CASE RemoveFromEntry(t)
  <2>1. PICK f \in Files : entries' = [entries EXCEPT ![t][f] = None]
    BY <1>1 DEF RemoveFromEntry, Present
  <2>2. QED
    BY <1>1, <2>1, SpoilingBringsNone DEF RemoveFromEntry
<1>2. CASE RemoveFromPending(t)
  <2>1. PICK f \in Files : pendings' = [pendings EXCEPT ![t][f] = None]
    BY <1>2 DEF RemoveFromPending, Present
  <2>2. QED
    BY <1>2, <2>1, SpoilingBringsNone DEF RemoveFromPending
<1>3. QED
  BY <1>1, <1>2

\* A step that opens the cache for nobody and brings no manifest.
LEMMA OwnManifestsStay ==
  ASSUME OwnManifests,
         NoNewManifests \/ UNCHANGED << entries, pendings >>,
         \A r \in Runs : pc'[r] \in Holding \ {"opening"} =>
           pc[r] \in Holding \ {"opening"} /\ want'[r] = want[r]
  PROVE  OwnManifests'
<1>1. NoNewManifests
  BY DEF NoNewManifests
<1>2. QED
  BY <1>1 DEF OwnManifests, NoNewManifests

\* Opening the cache leaves it with manifests of the new holder only.
LEMMA OpenKeepsOwn ==
  ASSUME IInv, OneIdentityStored, OwnManifests, NEW r \in Runs, Open(r)
  PROVE  OwnManifests'
<1>0. TypeOK /\ Control
  BY DEF IInv
<1>1. CASE Probe(r)
  <2>1. /\ pc'[r] = "probed" /\ \A q \in Runs : q # r => pc'[q] = pc[q] /\ want'[q] = want[q]
    BY <1>0, <1>1, GotoMoves DEF Probe, TypeOK
  <2>2. QED
    BY <1>1, <2>1, OwnManifestsStay DEF Probe, disk, Holding
<1>2. CASE Lock(r) \/ Refused(r)
  <2>1. \/ Goto(r, "opening")
        \/ Goto(r, "failed")
    BY <1>2 DEF Lock, Refused
  <2>2. /\ pc'[r] \notin Holding \ {"opening"}
        /\ \A q \in Runs : q # r => pc'[q] = pc[q]
    <3>1. pc'[r] \in {"opening", "failed"} /\ \A q \in Runs : q # r => pc'[q] = pc[q]
      BY <1>0, <2>1, GotoMoves
    <3>2. QED
      BY <3>1 DEF Holding
  <2>3. QED
    BY <1>2, <2>2, OwnManifestsStay DEF Lock, Refused, disk
<1>3. CASE KeepEntries(r)
  <2>1. /\ pc'[r] = "sweep" /\ identity = want[r]
        /\ \A q \in Runs : q # r => pc'[q] = pc[q]
        /\ UNCHANGED << want, entries, pendings >>
    BY <1>0, <1>3, GotoMoves DEF KeepEntries, Stale, disk
  <2>2. identity \in Ids
    BY <1>0, <1>3, <2>1 DEF KeepEntries, At, Control, Holding
  <2>3. \A t \in Trials : \A directory \in {entries[t], pendings[t]} :
          directory.manifest \in Manifest => directory.manifest.identity = want[r]
    BY <2>1, <2>2 DEF OneIdentityStored
  <2>4. QED
    BY <2>1, <2>3 DEF OwnManifests
<1>4. CASE ResetEntries(r)
  BY <1>0, <1>4, RemovalBringsNone, OwnManifestsStay DEF ResetEntries
<1>5. CASE WriteIdentity(r)
  <2>1. ASSUME NEW u \in Trials
        PROVE  entries[u].manifest \notin Manifest /\ pendings[u].manifest \notin Manifest
    <3>1. "manifest" \in Files
      BY DEF Files
    <3>2. entries[u].manifest = None /\ pendings[u].manifest = None
      BY <1>5, <3>1 DEF WriteIdentity, Present
    <3>3. QED
      BY <3>2, PrecisionAssumption
  <2>2. QED
    BY <1>5, <2>1 DEF WriteIdentity, OwnManifests
<1>6. CASE Sweep(r)
  <2>1. CASE \E t \in Trials : RemoveFromPending(t) /\ UNCHANGED pc
    BY <1>0, <1>6, <2>1, RemovalBringsNone, OwnManifestsStay DEF Sweep
  <2>2. CASE Goto(r, "load") /\ UNCHANGED disk
    <3>1. pc'[r] = "load" /\ \A q \in Runs : q # r => pc'[q] = pc[q]
      BY <1>0, <2>2, GotoMoves
    <3>2. pc[r] = "sweep"
      BY <1>6 DEF Sweep, At
    <3>3. QED
      BY <1>6, <2>2, <3>1, <3>2, OwnManifestsStay DEF Sweep, disk, Holding
  <2>3. QED
    BY <1>6, <2>1, <2>2 DEF Sweep
<1>7. QED
  BY <1>1, <1>2, <1>3, <1>4, <1>5, <1>6 DEF Open

\* The manifest a run publishes is of its own identity.
LEMMA PublishKeepsOwn ==
  ASSUME IInv, OwnManifests, NEW r \in Runs, Publish(r)
  PROVE  OwnManifests'
<1>0. TypeOK /\ Control /\ trial \in Trials /\ pendings \in [Trials -> Directory]
      /\ entries \in [Trials -> Directory]
  BY DEF IInv, TypeOK
<1>1. pc[r] \in Holding \ {"opening"}
  BY DEF Publish, Clear, MoveScratch, CopyExport, CopyRepeat, WriteManifest, Rename,
         Verify, Discard, At, Holding
<1>2. /\ \A q \in Runs : q # r => pc'[q] = pc[q]
      /\ UNCHANGED want
  BY <1>0 DEF Publish, Clear, MoveScratch, CopyExport, CopyRepeat, Write, WriteManifest,
              Rename, Verify, Discard, Leave, Goto, TypeOK
<1>3. \A q \in Runs : pc'[q] \in Holding \ {"opening"} => pc[q] \in Holding \ {"opening"}
  BY <1>1, <1>2
<1>4. CASE Clear(r) \/ Discard(r) \/ Verify(r)
  <2>1. \/ RemoveFromPending(trial) \/ RemoveFromEntry(trial)
        \/ UNCHANGED << entries, pendings >>
    BY <1>4 DEF Clear, Discard, Verify, disk
  <2>2. QED
    BY <1>0, <1>2, <1>3, <2>1, RemovalBringsNone, OwnManifestsStay
<1>5. CASE MoveScratch(r) \/ CopyExport(r) \/ CopyRepeat(r)
  <2>1. PICK file, content :
          /\ file \in Files \ {"manifest"}
          /\ pendings' = [pendings EXCEPT ![trial][file] = content]
          /\ UNCHANGED entries
    BY <1>5 DEF MoveScratch, CopyExport, CopyRepeat, Write, Files
  <2>2. ASSUME NEW u \in Trials PROVE pendings'[u].manifest = pendings[u].manifest
    <3>1. CASE u = trial
      <4>1. pendings'[u] = [pendings[u] EXCEPT ![file] = content]
        BY <1>0, <2>1, <3>1
      <4>2. QED
        BY <1>0, <2>1, <4>1 DEF Directory
    <3>2. CASE u # trial
      BY <1>0, <2>1, <3>2
    <3>3. QED
      BY <3>1, <3>2
  <2>3. NoNewManifests
    BY <2>1, <2>2 DEF NoNewManifests
  <2>4. QED
    BY <1>2, <1>3, <2>3, OwnManifestsStay
<1>6. \A q \in Runs : pc'[q] \in Holding \ {"opening"} => q = r
  BY <1>0, <1>1, <1>3, Alone
<1>7. CASE WriteManifest(r)
  <2>1. pendings'[trial].manifest.identity = want[r]
    BY <1>0, <1>7 DEF WriteManifest, Directory
  <2>2. \A u \in Trials : u # trial => pendings'[u] = pendings[u]
    BY <1>0, <1>7 DEF WriteManifest
  <2>3. UNCHANGED entries
    BY <1>7 DEF WriteManifest
  <2>4. QED
    BY <1>1, <1>2, <1>6, <2>1, <2>2, <2>3 DEF OwnManifests
<1>8. CASE Rename(r)
  <2>1. /\ entries'[trial] = pendings[trial]
        /\ \A u \in Trials : u # trial =>
             entries'[u] = entries[u] /\ pendings'[u] = pendings[u]
        /\ pendings'[trial] = NoDirectory
    BY <1>0, <1>8 DEF Rename
  <2>2. NoDirectory.manifest \notin Manifest
    BY PrecisionAssumption DEF NoDirectory, Files
  <2>3. QED
    BY <1>0, <1>1, <1>2, <1>6, <2>1, <2>2 DEF OwnManifests
<1>9. QED
  BY <1>4, <1>5, <1>7, <1>8 DEF Publish

\* Every step keeps the holder's manifests the only ones.
LEMMA OwnNext ==
  ASSUME IInv, OneIdentityStored, OwnManifests, [Next]_vars
  PROVE  OwnManifests'
<1>0. TypeOK
  BY DEF IInv
<1>1. CASE UNCHANGED vars
  BY <1>1, OwnManifestsStay DEF vars, disk
<1>2. CASE Drift
  BY <1>2, OwnManifestsStay DEF Drift, disk
<1>3. CASE Damage
  <2>1. CASE DamageEntry
    <3>1. PICK t \in Trials, f \in Files, damage \in {None, Bad} :
            entries' = [entries EXCEPT ![t][f] = damage]
      BY <2>1 DEF DamageEntry, Present
    <3>2. NoNewManifests
      BY <1>0, <2>1, <3>1, SpoilingBringsNone DEF DamageEntry
    <3>3. QED
      BY <1>3, <3>2, OwnManifestsStay DEF Damage
  <2>2. CASE DamageIdentity
    BY <1>3, <2>2, OwnManifestsStay DEF Damage, DamageIdentity
  <2>3. QED
    BY <1>3, <2>1, <2>2 DEF Damage
<1>4. ASSUME NEW r \in Runs, Interrupted(r) PROVE OwnManifests'
  <2>1. pc'[r] = "failed" /\ \A q \in Runs : q # r => pc'[q] = pc[q]
    BY <1>0, <1>4, GotoMoves DEF Interrupted, Leave
  <2>2. QED
    BY <1>4, <2>1, OwnManifestsStay DEF Interrupted, disk, Holding
<1>5. ASSUME NEW r \in Runs, Hit(r) \/ Miss(r) \/ Export(r) \/ Again(r) \/ Candidate(r)
      PROVE  OwnManifests'
  <2>1. pc[r] \in Holding \ {"opening"} /\ UNCHANGED << entries, pendings, want >>
    BY <1>5 DEF Hit, Miss, Export, Again, Candidate, disk, At, Holding
  <2>2. \A q \in Runs : q # r => pc'[q] = pc[q]
    BY <1>0, <1>5 DEF Hit, Miss, Export, Again, Candidate, Leave, Goto, TypeOK
  <2>3. QED
    BY <2>1, <2>2, OwnManifestsStay
<1>6. QED
  BY <1>1, <1>2, <1>3, <1>4, <1>5, OpenKeepsOwn, PublishKeepsOwn DEF Next, Trial

\* Nobody asks twice.
LEMMA AskingNext ==
  ASSUME TypeOK, Asking, [Next]_vars
  PROVE  Asking'
<1>1. ASSUME NEW q \in Runs, pc'[q] = "ready"
      PROVE  pc[q] = "ready" /\ want'[q] = want[q]
  <2>1. CASE UNCHANGED vars \/ Drift \/ Damage
    BY <1>1, <2>1 DEF vars, Drift, Damage
  <2>2. ASSUME NEW r \in Runs, Probe(r) PROVE pc[q] = "ready" /\ want'[q] = want[q]
    BY <1>1, <2>2, GotoMoves DEF Probe, TypeOK
  <2>3. ASSUME NEW r \in Runs, Open(r) \/ Trial(r) \/ Interrupted(r), ~Probe(r)
        PROVE  pc[q] = "ready" /\ want'[q] = want[q]
    <3>1. CASE Open(r)
      BY <1>1, <2>3, <3>1 DEF Open, Lock, Refused, KeepEntries, ResetEntries, WriteIdentity,
                              Sweep, Goto, TypeOK
    <3>2. CASE Publish(r)
      BY <1>1, <3>2 DEF Publish, Clear, MoveScratch, CopyExport, CopyRepeat, Write,
                        WriteManifest, Rename, Verify, Discard, Leave, Goto, TypeOK
    <3>3. CASE Interrupted(r) \/ Hit(r) \/ Miss(r) \/ Export(r) \/ Again(r) \/ Candidate(r)
      BY <1>1, <3>3 DEF Interrupted, Hit, Miss, Export, Again, Candidate, Leave, Goto, TypeOK
    <3>4. QED
      BY <2>3, <3>1, <3>2, <3>3 DEF Trial
  <2>4. QED
    BY <2>1, <2>2, <2>3 DEF Next
<1>2. QED
  BY <1>1 DEF Asking


InPublication == { "move", "copy export", "copy repeat", "manifest", "rename", "verify" }

\* A step that takes nobody further in a publication, and none of the holder's
\* data with it.
LEMMA PublishingStays ==
  ASSUME Publishing, UNCHANGED << entries, pendings, trial, export >>,
         \A q \in Runs : pc'[q] \in InPublication => pc'[q] = pc[q]
  PROVE  Publishing'
<1> SUFFICES ASSUME NEW q \in Runs, pc'[q] \in InPublication
             PROVE  /\ pc'[q] \in { "move", "copy export", "copy repeat", "manifest", "rename" } =>
                         Present(entries[trial]) = {}
                    /\ pc'[q] \in { "copy repeat", "manifest", "rename" } =>
                         pendings[trial].baseline = export
                    /\ pc'[q] = "verify" => entries[trial].baseline \in {export, None, Bad}
  BY DEF Publishing, InPublication, Present
<1>1. QED
  BY DEF Publishing

\* Nothing is promised outside a publication.
LEMMA NoPublication ==
  ASSUME \A q \in Runs : pc'[q] \notin InPublication
  PROVE  Publishing'
  BY DEF Publishing, InPublication

\* Damage empties no empty place and puts no other report into one.
LEMMA DamageKeepsPublishing ==
  ASSUME TypeOK, Publishing, Damage
  PROVE  Publishing'
<1>1. UNCHANGED << pc, trial, export, pendings >>
  BY DEF Damage, DamageEntry, DamageIdentity, work
<1>2. CASE DamageIdentity
  BY <1>1, <1>2, PublishingStays DEF DamageIdentity
<1>3. CASE DamageEntry
  <2>1. PICK t \in Trials, f \in Files, damage \in {None, Bad} :
          f \in Present(entries[t]) /\ entries' = [entries EXCEPT ![t][f] = damage]
    BY <1>3 DEF DamageEntry, Present
  <2>2. /\ entries \in [Trials -> Directory] /\ trial \in Trials
        /\ entries[t] \in Directory
    BY DEF TypeOK
  <2>3. CASE t = trial
    <3>1. Present(entries[trial]) # {}
      BY <2>1, <2>3
    <3>2. entries'[trial] = [entries[trial] EXCEPT ![f] = damage]
      BY <2>1, <2>2, <2>3
    <3>3. entries'[trial].baseline \in {entries[trial].baseline, None, Bad}
      BY <2>2, <2>3, <3>2 DEF Directory
    <3>4. QED
      BY <1>1, <3>1, <3>3 DEF Publishing
  <2>4. CASE t # trial
    <3>1. entries'[trial] = entries[trial]
      BY <2>1, <2>2, <2>4
    <3>2. QED
      BY <1>1, <3>1 DEF Publishing, Present
  <2>5. QED
    BY <2>3, <2>4
<1>4. QED
  BY <1>2, <1>3 DEF Damage

\* The publication itself: the place is empty from "move" on, and what is renamed
\* into it is the report that was copied.
LEMMA PublishKeepsPublishing ==
  ASSUME IInv, Publishing, NEW r \in Runs, Publish(r)
  PROVE  Publishing'
<1>0. TypeOK /\ Control /\ trial \in Trials /\ pendings \in [Trials -> Directory]
      /\ entries \in [Trials -> Directory] /\ pendings[trial] \in Directory
  BY DEF IInv, TypeOK
<1>1. pc[r] \in Holding
  BY DEF Publish, Clear, MoveScratch, CopyExport, CopyRepeat, WriteManifest, Rename,
         Verify, Discard, At, Holding
<1>2. \A q \in Runs : q # r => pc'[q] = pc[q] /\ pc'[q] \notin InPublication
  <2>1. \A q \in Runs : q # r => pc'[q] = pc[q]
    BY <1>0 DEF Publish, Clear, MoveScratch, CopyExport, CopyRepeat, Write, WriteManifest,
                Rename, Verify, Discard, Leave, Goto, TypeOK
  <2>2. InPublication \subseteq Holding
    BY DEF InPublication, Holding
  <2>3. QED
    BY <1>0, <1>1, <2>1, <2>2, Alone
<1>3. CASE Clear(r)
  <2>1. CASE UNCHANGED pc
    BY <1>2, <1>3, <2>1, NoPublication DEF Clear, At, InPublication
  <2>2. CASE Present(pendings[trial]) \cup Present(entries[trial]) = {} /\ Goto(r, "move")
             /\ UNCHANGED disk
    <3>1. pc'[r] = "move" /\ Present(entries[trial]) = {} /\ UNCHANGED << entries, trial >>
      BY <1>0, <1>3, <2>2, GotoMoves DEF Clear, disk, work
    <3>2. QED
      BY <1>2, <3>1 DEF Publishing, InPublication, Present
  <2>3. QED
    BY <1>3, <2>1, <2>2 DEF Clear
<1>4. CASE MoveScratch(r) \/ CopyExport(r) \/ CopyRepeat(r) \/ WriteManifest(r)
  <2>1. UNCHANGED << entries, trial, export >> /\ Present(entries[trial]) = {}
    BY <1>4 DEF MoveScratch, CopyExport, CopyRepeat, WriteManifest, Write, work, At, Publishing
  <2>2. /\ pc'[r] # "verify"
        /\ pc'[r] \in { "copy repeat", "manifest", "rename" } =>
             pendings'[trial].baseline = export
    <3>1. CASE MoveScratch(r)
      <4>1. pc[r] = "move" /\ (UNCHANGED pc \/ Goto(r, "copy export"))
        BY <3>1 DEF MoveScratch, Write, At
      <4>2. pc'[r] \in {"move", "copy export"}
        BY <1>0, <4>1, GotoMoves
      <4>3. QED
        BY <4>2
    <3>2. CASE CopyExport(r) /\ UNCHANGED pc
      BY <3>2 DEF CopyExport, At
    <3>3. CASE CopyExport(r) /\ Goto(r, "copy repeat")
               /\ pendings' = [pendings EXCEPT ![trial]["baseline"] = export]
      <4>1. pendings'[trial].baseline = export
        BY <1>0, <3>3 DEF Directory
      <4>2. pc'[r] = "copy repeat"
        BY <1>0, <3>3, GotoMoves
      <4>3. QED
        BY <2>1, <4>1, <4>2
    <3>4. CASE CopyRepeat(r)
      <4>1. pendings'[trial].baseline = pendings[trial].baseline
        BY <1>0, <3>4 DEF CopyRepeat, Write, Directory
      <4>2. pc[r] = "copy repeat" /\ (UNCHANGED pc \/ Goto(r, "manifest"))
        BY <3>4 DEF CopyRepeat, Write, At
      <4>3. pc'[r] \in {"copy repeat", "manifest"}
        BY <1>0, <4>2, GotoMoves
      <4>4. QED
        BY <2>1, <4>1, <4>2, <4>3 DEF Publishing
    <3>5. CASE WriteManifest(r)
      <4>1. pendings'[trial].baseline = pendings[trial].baseline
        BY <1>0, <3>5 DEF WriteManifest, Directory
      <4>2. pc[r] = "manifest" /\ pc'[r] = "rename"
        BY <1>0, <3>5, GotoMoves DEF WriteManifest, At
      <4>3. QED
        BY <2>1, <4>1, <4>2 DEF Publishing
    <3>6. QED
      BY <1>4, <3>1, <3>2, <3>3, <3>4, <3>5 DEF CopyExport, Write
  <2>3. QED
    BY <1>2, <2>1, <2>2 DEF Publishing, InPublication, Present
<1>5. CASE Rename(r)
  <2>1. pc'[r] = "verify" /\ UNCHANGED << trial, export >>
        /\ entries'[trial] = pendings[trial] /\ pendings[trial].baseline = export
    BY <1>0, <1>5, GotoMoves DEF Rename, At, work, Publishing
  <2>2. QED
    BY <1>2, <2>1 DEF Publishing, InPublication
<1>6. CASE Verify(r)
  <2>1. pc'[r] \in {"candidate", "discard"}
    BY <1>0, <1>6, GotoMoves DEF Verify
  <2>2. QED
    BY <1>2, <2>1, NoPublication DEF InPublication
<1>7. CASE Discard(r)
  <2>1. pc'[r] \in {"discard", "failed"}
    BY <1>0, <1>7, GotoMoves DEF Discard, At, Leave
  <2>2. QED
    BY <1>2, <2>1, NoPublication DEF InPublication
<1>8. QED
  BY <1>3, <1>4, <1>5, <1>6, <1>7 DEF Publish

\* Every step keeps it.
LEMMA PublishingNext ==
  ASSUME IInv, Publishing, [Next]_vars
  PROVE  Publishing'
<1>0. TypeOK /\ Control
  BY DEF IInv
<1>1. CASE UNCHANGED vars \/ Drift
  BY <1>1, PublishingStays DEF vars, Drift, disk, work
<1>2. ASSUME NEW r \in Runs, Leave(r, "failed") \/ Leave(r, "passed"),
             UNCHANGED << entries, pendings >>
      PROVE  Publishing'
  <2>1. pc'[r] \in {"failed", "passed"} /\ \A q \in Runs : q # r => pc'[q] = pc[q]
    BY <1>0, <1>2, GotoMoves DEF Leave
  <2>2. CASE lock = r
    <3>1. \A q \in Runs : q # r => pc[q] \notin Holding
      BY <1>0, <2>2 DEF Control
    <3>2. QED
      BY <2>1, <3>1, NoPublication DEF InPublication, Holding
  <2>3. CASE lock # r
    <3>1. UNCHANGED << trial, export >>
      BY <1>2, <2>3 DEF Leave, work
    <3>2. QED
      BY <1>2, <2>1, <3>1, PublishingStays DEF InPublication
  <2>4. QED
    BY <2>2, <2>3
<1>3. ASSUME NEW r \in Runs, Interrupted(r) PROVE Publishing'
  BY <1>2, <1>3 DEF Interrupted, disk
<1>4. ASSUME NEW r \in Runs, Probe(r) \/ Lock(r) \/ Refused(r) \/ KeepEntries(r) \/ Miss(r)
      PROVE  Publishing'
  <2>1. UNCHANGED << entries, pendings, trial, export >>
    BY <1>4 DEF Probe, Lock, Refused, KeepEntries, Miss, disk, work
  <2>2. \E place \in {"probed", "opening", "failed", "sweep", "export"} : Goto(r, place)
    BY <1>4 DEF Probe, Lock, Refused, KeepEntries, Miss
  <2>3. /\ pc'[r] \in {"probed", "opening", "failed", "sweep", "export"}
        /\ \A q \in Runs : q # r => pc'[q] = pc[q]
    BY <1>0, <2>2, GotoMoves
  <2>4. QED
    BY <2>1, <2>3, PublishingStays DEF InPublication
<1>5. ASSUME NEW r \in Runs, ResetEntries(r) \/ WriteIdentity(r) \/ Sweep(r) \/ Hit(r)
                               \/ Export(r) \/ Again(r) \/ Candidate(r),
             ~ Leave(r, "passed")
      PROVE  Publishing'
  <2>1. /\ pc[r] \in {"opening", "sweep", "load", "export", "repeat", "candidate"}
        /\ \/ UNCHANGED pc
           \/ \E place \in {"sweep", "load", "candidate", "repeat", "clear"} : Goto(r, place)
    BY <1>5 DEF ResetEntries, WriteIdentity, Sweep, Hit, Export, Again, Candidate, At
  <2>2. /\ pc'[r] \in {"opening", "sweep", "load", "export", "repeat", "candidate", "clear"}
        /\ \A q \in Runs : q # r => pc'[q] = pc[q]
    BY <1>0, <2>1, GotoMoves
  <2>3. pc[r] \in Holding /\ InPublication \subseteq Holding
    BY <2>1 DEF Holding, InPublication
  <2>4. \A q \in Runs : q # r => pc[q] \notin InPublication
    BY <1>0, <2>3, Alone
  <2>5. QED
    BY <2>2, <2>4, NoPublication DEF InPublication
<1>6. ASSUME NEW r \in Runs, Candidate(r) PROVE Publishing'
  BY <1>2, <1>5, <1>6 DEF Candidate, disk
<1>7. ASSUME NEW r \in Runs,
             ResetEntries(r) \/ WriteIdentity(r) \/ Sweep(r) \/ Hit(r) \/ Export(r) \/ Again(r)
      PROVE  ~ Leave(r, "passed")
  <2>1. /\ pc[r] # "passed"
        /\ \/ UNCHANGED pc
           \/ \E place \in {"sweep", "load", "candidate", "repeat", "clear"} : Goto(r, place)
    BY <1>7 DEF ResetEntries, WriteIdentity, Sweep, Hit, Export, Again, At
  <2>2. pc'[r] # "passed"
    BY <1>0, <2>1, GotoMoves
  <2>3. QED
    BY <1>0, <2>2, GotoMoves DEF Leave
<1>8. QED
  BY <1>0, <1>1, <1>3, <1>4, <1>5, <1>6, <1>7, DamageKeepsPublishing, PublishKeepsPublishing
     DEF Next, Open, Trial


\* An entry missing a file, or with a damaged one, is no evidence.
LEMMA SpoiledIsInvalid ==
  ASSUME NEW directory \in Directory, NEW f \in Files, NEW v \in {None, Bad},
         NEW id, NEW t
  PROVE  ~ Valid([directory EXCEPT ![f] = v], id, t)
<1> DEFINE d == [directory EXCEPT ![f] = v]
<1>0. v \notin Evidence /\ v \notin Repeat /\ v \notin Manifest
  BY PrecisionAssumption
<1>1. CASE f = "manifest"
  <2>1. d.manifest = v
    BY <1>1 DEF Directory
  <2>2. QED
    BY <1>0, <2>1 DEF Valid
<1>2. CASE f = "baseline"
  <2>1. d.baseline = v
    BY <1>2 DEF Directory
  <2>2. QED
    BY <1>0, <2>1 DEF Valid
<1>3. CASE f = "baseline_repeat"
  <2>1. d.baseline_repeat = v
    BY <1>3 DEF Directory
  <2>2. QED
    BY <1>0, <2>1 DEF Valid
<1>4. CASE f = "tensors"
  <2>1. d.tensors = v /\ d.baseline = directory.baseline
    BY <1>4 DEF Directory
  <2>2. QED
    BY <1>0, <2>1 DEF Valid
<1>5. QED
  BY <1>1, <1>2, <1>3, <1>4 DEF Files

\* What an entry that validates stands for.
LEMMA StoredWhenValid ==
  ASSUME NEW t \in Trials, NEW id \in Ids, Valid(entries[t], id, t)
  PROVE  /\ Stored[t] = entries[t].baseline
         /\ Stored[t] \in Evidence /\ Stored[t].trial = t /\ Stored[t].id = id
  BY DEF Stored, Valid

\* And what is stored is of the identity of its manifest.
LEMMA StoredIsOfManifest ==
  ASSUME NEW t \in Trials, Stored[t] # None
  PROVE  /\ entries[t].manifest \in Manifest
         /\ Stored[t] \in Evidence /\ Stored[t].trial = t
         /\ Stored[t].id = entries[t].manifest.identity
  BY DEF Stored, Valid

\* The store has changed at one trial only.
LEMMA StoredElsewhere ==
  ASSUME NEW t \in Trials, \A u \in Trials : u # t => entries'[u] = entries[u]
  PROVE  Stored' = [Stored EXCEPT ![t] = Stored'[t]]
<1>1. \A u \in Trials : u # t => Stored'[u] = Stored[u]
  BY DEF Stored, Valid
<1>2. QED
  BY <1>1 DEF Stored

\* Losing one file of an entry loses the evidence, and nothing else.
LEMMA SpoilingForgets ==
  ASSUME TypeOK, NEW t \in Trials, NEW f \in Files, NEW v \in {None, Bad},
         entries' = [entries EXCEPT ![t][f] = v], UNCHANGED << want, Held >>
  PROVE  Store!Next
<1>1. entries \in [Trials -> Directory]
  BY DEF TypeOK
<1>2. entries'[t] = [entries[t] EXCEPT ![f] = v] /\ \A u \in Trials : u # t => entries'[u] = entries[u]
  BY <1>1
<1>3. ~ Valid(entries'[t], entries'[t].manifest.identity, t)
  BY <1>1, <1>2, SpoiledIsInvalid
<1>4. Stored'[t] = None
  BY <1>3 DEF Stored, Valid
<1>5. Stored' = [Stored EXCEPT ![t] = None]
  BY <1>2, <1>4, StoredElsewhere
<1>6. Store!Forget(t)
  BY <1>5 DEF Store!Forget
<1>7. QED
  BY <1>6 DEF Store!Next

\* The same of rmtree, which may also empty a pending directory, unseen.
LEMMA RemovalForgets ==
  ASSUME TypeOK, NEW t \in Trials, RemoveFromEntry(t) \/ RemoveFromPending(t),
         UNCHANGED << want, Held >>
  PROVE  Store!Next \/ UNCHANGED << want, Stored, Held >>
<1>1. CASE RemoveFromEntry(t)
  <2>1. PICK f \in Files : entries' = [entries EXCEPT ![t][f] = None]
    BY <1>1 DEF RemoveFromEntry, Present
  <2>2. QED
    BY <2>1, SpoilingForgets
<1>2. CASE RemoveFromPending(t)
  BY <1>2 DEF RemoveFromPending, Stored, Valid
<1>3. QED
  BY <1>1, <1>2

\* What a run holds stays when it stays at its candidate, or away from it.
LEMMA HeldStays ==
  ASSUME \A q \in Runs : (pc'[q] = "candidate") = (pc[q] = "candidate"),
         UNCHANGED export \/ \A q \in Runs : pc[q] # "candidate"
  PROVE  UNCHANGED Held
  BY DEF Held

\* Leaving, or dying, puts down what the run held.
LEMMA LeavingPutsDown ==
  ASSUME IInv, NEW r \in Runs, NEW end \in Ended, Leave(r, end),
         UNCHANGED << entries, want >>
  PROVE  Store!Next \/ UNCHANGED << want, Stored, Held >>
<1>0. UNCHANGED Stored
  BY DEF Stored, Valid
<1>1. pc'[r] \in Ended /\ \A q \in Runs : q # r => pc'[q] = pc[q]
  BY GotoMoves DEF Leave, IInv
<1>2. CASE lock = r
  <2>1. \A q \in Runs : q # r => pc[q] # "candidate"
    BY <1>2 DEF IInv, Control, Holding
  <2>2. Held' = [Held EXCEPT ![r] = None]
    BY <1>1, <2>1 DEF Held, Ended
  <2>3. Store!PutDown(r)
    BY <1>0, <2>2 DEF Store!PutDown
  <2>4. QED
    BY <2>3 DEF Store!Next
<1>3. CASE lock # r
  <2>1. UNCHANGED export /\ pc[r] # "candidate"
    BY <1>3 DEF Leave, work, IInv, Control, Holding
  <2>2. UNCHANGED Held
    BY <1>1, <2>1, HeldStays DEF Ended
  <2>3. QED
    BY <1>0, <2>2
<1>4. QED
  BY <1>2, <1>3

\* A hit, and a published entry that validates, is a look-up.
LEMMA HitLooksUp ==
  ASSUME IInv, NEW r \in Runs, pc[r] \in Holding \ {"candidate"},
         Valid(entries[trial], want[r], trial), Goto(r, "candidate"),
         export' = entries[trial].baseline, UNCHANGED << entries, want >>
  PROVE  Store!Next
<1>0. TypeOK /\ Control /\ trial \in Trials /\ want[r] \in Ids
  BY DEF IInv, TypeOK, Control
<1>1. /\ Stored[trial] = entries[trial].baseline
      /\ Stored[trial] \in Evidence /\ Stored[trial].id = want[r]
  BY <1>0, StoredWhenValid
<1>2. Stored[trial] # None
  BY <1>1, PrecisionAssumption
<1>3. \A q \in Runs : q # r => pc[q] # "candidate" /\ pc'[q] = pc[q]
  BY <1>0, Alone, GotoMoves DEF Holding
<1>4. pc'[r] = "candidate"
  BY <1>0, GotoMoves
<1>5. Held[r] = None /\ Held' = [Held EXCEPT ![r] = Stored[trial]]
  BY <1>1, <1>3, <1>4 DEF Held
<1>6. UNCHANGED Stored
  BY DEF Stored, Valid
<1>7. Store!LookUp(r, trial)
  BY <1>1, <1>2, <1>5, <1>6 DEF Store!LookUp
<1>8. QED
  BY <1>0, <1>7 DEF Store!Next

\* The rename that publishes an entry records its evidence, in one step.
LEMMA RenameRecords ==
  ASSUME IInv, OwnManifests, Publishing, NEW r \in Runs, Rename(r)
  PROVE  Store!Next \/ UNCHANGED << want, Stored, Held >>
<1>0. /\ TypeOK /\ Control /\ trial \in Trials /\ pc[r] = "rename"
      /\ entries \in [Trials -> Directory]
  BY DEF IInv, TypeOK, Rename, At
<1>1. /\ entries'[trial] = pendings[trial]
      /\ \A u \in Trials : u # trial => entries'[u] = entries[u]
      /\ UNCHANGED << want, export >>
      /\ pc'[r] = "verify" /\ \A q \in Runs : q # r => pc'[q] = pc[q]
  BY <1>0, GotoMoves DEF Rename, work
<1>2. UNCHANGED Held
  BY <1>0, <1>1, HeldStays
<1>3. Stored' = [Stored EXCEPT ![trial] = Stored'[trial]]
  BY <1>0, <1>1, StoredElsewhere
<1>4. Stored[trial] = None
  <2>1. entries[trial].manifest = None
    BY <1>0 DEF Publishing, Present, Files
  <2>2. QED
    BY <1>0, <2>1, PrecisionAssumption DEF Stored
<1>5. CASE Stored'[trial] = None
  BY <1>1, <1>2, <1>3, <1>4, <1>5 DEF Stored
<1>6. CASE Stored'[trial] # None
  <2>1. /\ pendings[trial].manifest \in Manifest
        /\ Stored'[trial] \in Evidence /\ Stored'[trial].trial = trial
        /\ Stored'[trial].id = pendings[trial].manifest.identity
    BY <1>0, <1>1, <1>6 DEF Stored, Valid
  <2>2. Stored'[trial].id = want[r]
    BY <1>0, <2>1 DEF OwnManifests, Holding
  <2>3. ASSUME NEW t \in Trials, Stored[t] # None PROVE Stored[t].id = want[r]
    BY <1>0, <2>3, StoredIsOfManifest DEF OwnManifests, Holding
  <2>4. Store!Record(trial)
    BY <1>0, <1>1, <1>2, <1>3, <1>4, <2>1, <2>2, <2>3 DEF Store!Record, Store!Evidence, Evidence
  <2>5. QED
    BY <1>0, <2>4 DEF Store!Next
<1>7. QED
  BY <1>5, <1>6

\* The other steps that open the cache or publish show as nothing.
LEMMA UnseenSteps ==
  ASSUME TypeOK, Control, NEW r \in Runs, UNCHANGED << entries, want >>,
         pc[r] # "candidate", pc'[r] # "candidate",
         \A q \in Runs : q # r => pc'[q] = pc[q],
         UNCHANGED export \/ pc[r] \in Holding
  PROVE  UNCHANGED << want, Stored, Held >>
<1>1. UNCHANGED Stored
  BY DEF Stored, Valid
<1>2. UNCHANGED export \/ \A q \in Runs : pc[q] # "candidate"
  <2>1. ASSUME pc[r] \in Holding, NEW q \in Runs, q # r PROVE pc[q] # "candidate"
    BY <2>1, Alone DEF Holding
  <2>2. QED
    BY <2>1
<1>3. UNCHANGED Held
  BY <1>2, HeldStays
<1>4. QED
  BY <1>1, <1>3

\* Every step of the cache is a step of the store, or none.
LEMMA OpenKeepsPromise ==
  ASSUME IInv, Asking, NEW r \in Runs, Open(r)
  PROVE  Store!Next \/ UNCHANGED << want, Stored, Held >>
<1>0. TypeOK /\ Control
  BY DEF IInv
<1>1. CASE Probe(r)
  <2>1. /\ pc[r] = "ready" /\ want[r] = None /\ want' = [want EXCEPT ![r] = env]
        /\ env \in Ids /\ UNCHANGED << entries, export >>
        /\ pc'[r] = "probed" /\ \A q \in Runs : q # r => pc'[q] = pc[q]
    BY <1>0, <1>1, GotoMoves DEF Probe, At, Asking, TypeOK, disk, work
  <2>2. UNCHANGED << Stored, Held >>
    BY <2>1, HeldStays DEF Stored, Valid
  <2>3. Store!Ask(r)
    BY <2>1, <2>2 DEF Store!Ask
  <2>4. QED
    BY <2>3 DEF Store!Next
<1>2. CASE Lock(r) \/ Refused(r) \/ KeepEntries(r) \/ WriteIdentity(r)
  <2>1. /\ pc[r] \in {"probed", "opening"}
        /\ \E place \in {"opening", "failed", "sweep"} : Goto(r, place)
    BY <1>2 DEF Lock, Refused, KeepEntries, WriteIdentity, At
  <2>2. pc'[r] \in {"opening", "failed", "sweep"} /\ \A q \in Runs : q # r => pc'[q] = pc[q]
    BY <1>0, <2>1, GotoMoves
  <2>3. UNCHANGED << entries, want, export >>
    BY <1>2 DEF Lock, Refused, KeepEntries, WriteIdentity, disk, work
  <2>4. QED
    BY <1>0, <2>1, <2>2, <2>3, UnseenSteps
<1>3. CASE ResetEntries(r)
  <2>1. UNCHANGED << pc, export, want >>
    BY <1>3 DEF ResetEntries, work
  <2>2. UNCHANGED Held
    BY <2>1, HeldStays
  <2>3. QED
    BY <1>0, <1>3, <2>1, <2>2, RemovalForgets DEF ResetEntries
<1>4. CASE Sweep(r)
  <2>1. UNCHANGED << entries, want, export >> /\ pc[r] = "sweep"
    BY <1>4 DEF Sweep, RemoveFromPending, disk, work, At
  <2>2. UNCHANGED pc \/ Goto(r, "load")
    BY <1>4 DEF Sweep
  <2>3. pc'[r] \in {"sweep", "load"} /\ \A q \in Runs : q # r => pc'[q] = pc[q]
    BY <1>0, <2>1, <2>2, GotoMoves
  <2>4. QED
    BY <1>0, <2>1, <2>3, UnseenSteps
<1>5. QED
  BY <1>1, <1>2, <1>3, <1>4 DEF Open

\* Each step is one of the abstract store or a stutter: a publication.
LEMMA PublishKeepsPromise ==
  ASSUME IInv, OwnManifests, Publishing, NEW r \in Runs, Publish(r)
  PROVE  Store!Next \/ UNCHANGED << want, Stored, Held >>
<1>0. TypeOK /\ Control /\ trial \in Trials
  BY DEF IInv, TypeOK
<1>1. CASE Clear(r) \/ (Discard(r) /\ UNCHANGED << pc, work >>)
  <2>1. UNCHANGED << want, export >> /\ pc[r] \in {"clear", "discard"}
        /\ (UNCHANGED pc \/ Goto(r, "move"))
    BY <1>1 DEF Clear, Discard, work, At
  <2>2. pc'[r] \in {"clear", "discard", "move"} /\ \A q \in Runs : q # r => pc'[q] = pc[q]
    BY <1>0, <2>1, GotoMoves
  <2>3. UNCHANGED Held
    BY <2>1, <2>2, HeldStays
  <2>4. RemoveFromEntry(trial) \/ RemoveFromPending(trial) \/ UNCHANGED entries
    BY <1>1 DEF Clear, Discard, disk
  <2>5. CASE UNCHANGED entries
    BY <2>1, <2>3, <2>5 DEF Stored, Valid
  <2>6. QED
    BY <1>0, <2>1, <2>3, <2>4, <2>5, RemovalForgets
<1>2. CASE MoveScratch(r) \/ CopyExport(r) \/ CopyRepeat(r) \/ WriteManifest(r)
  <2>1. /\ pc[r] \in {"move", "copy export", "copy repeat", "manifest"}
        /\ \/ UNCHANGED pc
           \/ \E place \in {"copy export", "copy repeat", "manifest", "rename"} : Goto(r, place)
    BY <1>2 DEF MoveScratch, CopyExport, CopyRepeat, WriteManifest, Write, At
  <2>2. /\ pc'[r] \in {"move", "copy export", "copy repeat", "manifest", "rename"}
        /\ \A q \in Runs : q # r => pc'[q] = pc[q]
    BY <1>0, <2>1, GotoMoves
  <2>3. UNCHANGED << entries, want, export >>
    BY <1>2 DEF MoveScratch, CopyExport, CopyRepeat, WriteManifest, Write, work
  <2>4. QED
    BY <1>0, <2>1, <2>2, <2>3, UnseenSteps
<1>3. CASE Verify(r)
  <2>1. pc[r] = "verify" /\ UNCHANGED << entries, want, export >>
    BY <1>3 DEF Verify, At, disk, work
  <2>2. CASE Valid(entries[trial], want[r], trial)
    <3>1. Goto(r, "candidate")
      BY <1>3, <2>2 DEF Verify
    <3>2. entries[trial].baseline \in Evidence
      BY <2>2 DEF Valid
    <3>3. entries[trial].baseline = export
      BY <2>1, <3>2, PrecisionAssumption DEF Publishing
    <3>4. QED
      BY <2>1, <2>2, <3>1, <3>3, HitLooksUp DEF Holding
  <2>3. CASE ~ Valid(entries[trial], want[r], trial)
    <3>1. Goto(r, "discard")
      BY <1>3, <2>3 DEF Verify
    <3>2. pc'[r] = "discard" /\ \A q \in Runs : q # r => pc'[q] = pc[q]
      BY <1>0, <3>1, GotoMoves
    <3>3. QED
      BY <1>0, <2>1, <3>2, UnseenSteps
  <2>4. QED
    BY <2>2, <2>3
<1>4. CASE Discard(r) /\ Leave(r, "failed") /\ UNCHANGED disk
  BY <1>4, LeavingPutsDown DEF Discard, disk, Ended
<1>5. QED
  BY <1>1, <1>2, <1>3, <1>4, RenameRecords DEF Publish, Discard

\* A trial that reuses or measures.
LEMMA TrialKeepsPromise ==
  ASSUME IInv, NEW r \in Runs, Hit(r) \/ Miss(r) \/ Export(r) \/ Again(r) \/ Candidate(r)
  PROVE  Store!Next \/ UNCHANGED << want, Stored, Held >>
<1>0. TypeOK /\ Control
  BY DEF IInv
<1>1. CASE Hit(r)
  BY <1>1, HitLooksUp DEF Hit, At, disk, Holding
<1>2. CASE Miss(r) \/ Export(r) \/ Again(r)
  <2>1. /\ pc[r] \in {"load", "export", "repeat"}
        /\ \E place \in {"export", "repeat", "clear"} : Goto(r, place)
    BY <1>2 DEF Miss, Export, Again, At
  <2>2. /\ pc'[r] \in {"export", "repeat", "clear"}
        /\ \A q \in Runs : q # r => pc'[q] = pc[q]
    BY <1>0, <2>1, GotoMoves
  <2>3. UNCHANGED << entries, want >> /\ pc[r] \in Holding
    BY <1>2, <2>1 DEF Miss, Export, Again, disk, Holding
  <2>4. QED
    BY <1>0, <2>1, <2>2, <2>3, UnseenSteps
<1>3. CASE Candidate(r) /\ Leave(r, "passed")
  BY <1>3, LeavingPutsDown DEF Candidate, disk, Ended
<1>4. CASE Candidate(r) /\ Goto(r, "load")
  <2>1. /\ pc[r] = "candidate" /\ UNCHANGED << entries, want >>
        /\ pc'[r] = "load" /\ \A q \in Runs : q # r => pc'[q] = pc[q]
    BY <1>0, <1>4, GotoMoves DEF Candidate, At, disk
  <2>2. \A q \in Runs : q # r => pc[q] # "candidate"
    BY <1>0, <2>1, Alone DEF Holding
  <2>3. Held' = [Held EXCEPT ![r] = None] /\ UNCHANGED Stored
    BY <2>1, <2>2 DEF Held, Stored, Valid
  <2>4. Store!PutDown(r)
    BY <2>1, <2>3 DEF Store!PutDown
  <2>5. QED
    BY <2>4 DEF Store!Next
<1>5. QED
  BY <1>1, <1>2, <1>3, <1>4 DEF Candidate

\* And what happens to machine, sources and directories beside them.
LEMMA WorldKeepsPromise ==
  ASSUME TypeOK, Drift \/ Damage
  PROVE  Store!Next \/ UNCHANGED << want, Stored, Held >>
<1>1. UNCHANGED << want, pc, export >>
  BY DEF Drift, Damage, work
<1>2. UNCHANGED Held
  BY <1>1, HeldStays
<1>3. CASE DamageEntry
  <2>1. PICK t \in Trials, f \in Files, damage \in {None, Bad} :
          entries' = [entries EXCEPT ![t][f] = damage]
    BY <1>3 DEF DamageEntry, Present
  <2>2. QED
    BY <1>1, <1>2, <2>1, SpoilingForgets
<1>4. CASE UNCHANGED entries
  BY <1>1, <1>2, <1>4 DEF Stored, Valid
<1>5. QED
  BY <1>3, <1>4 DEF Drift, Damage, DamageIdentity, disk

\* The cache implements EvidenceStore: crashes, half-removed directories and
\* damaged files never show as anything but evidence that is not there, and no
\* run is given evidence of another identity than the one it asked for.
THEOREM EvidenceIsWhole == Spec => KeepsEvidenceWhole
<1> DEFINE CInv == IInv /\ Owned /\ OneIdentityStored /\ Asking /\ OwnManifests /\ Publishing
<1>1. Init => Store!Init
  <2> SUFFICES ASSUME Init PROVE Store!Init
    OBVIOUS
  <2>1. Stored = [t \in Trials |-> None]
    BY PrecisionAssumption DEF Init, Stored, NoDirectory, Files
  <2>2. Held = [r \in Runs |-> None]
    BY DEF Init, Held
  <2>3. QED
    BY <2>1, <2>2 DEF Init, Store!Init
<1>2. Init => CInv
  <2>1. Init => Owned /\ Asking /\ OwnManifests /\ Publishing
    BY DEF Init, Owned, Asking, OwnManifests, Publishing, Holding
  <2>2. Init => OneIdentityStored
    BY PrecisionAssumption DEF Init, OneIdentityStored
  <2>3. QED
    BY <2>1, <2>2, IInvInit
<1>3. CInv /\ [Next]_vars => CInv'
  BY IInvNext, OwnedNext, OneNext, AskingNext, OwnNext, PublishingNext DEF IInv
<1>4. CInv /\ [Next]_vars => [Store!Next]_(Store!vars)
  <2> SUFFICES ASSUME CInv, [Next]_vars
               PROVE  Store!Next \/ UNCHANGED << want, Stored, Held >>
    BY DEF Store!vars
  <2>1. CASE UNCHANGED vars
    <3>1. UNCHANGED << entries, want, pc, export >>
      BY <2>1 DEF vars, disk, work
    <3>2. UNCHANGED Held
      BY <3>1, HeldStays
    <3>3. QED
      BY <3>1, <3>2 DEF Stored, Valid
  <2>2. ASSUME NEW r \in Runs, Interrupted(r)
        PROVE  Store!Next \/ UNCHANGED << want, Stored, Held >>
    BY <2>2, LeavingPutsDown DEF Interrupted, disk, Ended
  <2>3. TypeOK
    BY DEF IInv
  <2>4. QED
    BY <2>1, <2>2, <2>3, OpenKeepsPromise, PublishKeepsPromise, TrialKeepsPromise,
       WorldKeepsPromise DEF Next, Trial
<1> HIDE DEF CInv
<1>5. QED
  BY <1>1, <1>2, <1>3, <1>4, PTL DEF Spec, KeepsEvidenceWhole, Store!Spec

===========================================================================
