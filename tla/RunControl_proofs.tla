-------------------------- MODULE RunControl_proofs --------------------------
(***************************************************************************)
(* Proofs about RunControl, for every set of readers and of workers: its   *)
(* type invariant, the three safety invariants that the run run_control    *)
(* checks, and that RunControl implements RunOutcome.  Below them, and     *)
(* apart from them, the proofs about Campaign.                             *)
(***************************************************************************)
EXTENDS RunControl, Campaign, TLAPS, FiniteSetTheorems

\* Program points at which the command has not been spawned yet.
PreSpawn == {"absent", "boot", "starting", "armed"}

\* A final status is what WriteFinal or SpawnFails put there.
FinalFileAgrees ==
  \/ rc # None /\ statusFile = FinalRecord
  \/ /\ statusFile.state = "failed-to-spawn"
     /\ statusFile.code = "nonzero"
     /\ ~statusFile.cancelled
     /\ ~statusFile.cleared

\* What the supervisor's program point says of its variables, the process
\* group and the status file.
SupInv ==
  /\ sup \in PreSpawn => group = {} /\ rc = None /\ ~cancelSent
  /\ rc # None => Child \notin group
  /\ sup \in {"drain", "draining", "closing"} => rc # None
  /\ cancelSent /\ sup \in {"draining", "closing", "done"} => group \subseteq doomed
  /\ cleared => sup \in {"closing", "done", "killed"} /\ group = {}
  /\ sup = "absent" => statusFile = None
  /\ HasFinalStatus <=> sup = "done"
  /\ sup = "done" => FinalFileAgrees

\* What `run start` has done by each of its program points.
StartInv ==
  /\ starter \in {"idle", "planned", "listed", "refused"} => sup = "absent"
  /\ starter \in {"launched", "captured", "registered", "recorded", "done"}
       => sup # "absent"
  /\ manifest # None /\ manifest.started
       => sup # "absent" /\ starter \in {"recorded", "done", "crashed"}
  /\ registered => statusFile # None

\* `run cancel` holds a started manifest while it works.
CancelInv ==
  /\ canceller # "idle" => heldManifest # None
  /\ heldManifest # None =>
       heldManifest.started /\ manifest # None /\ manifest.started

\* What a query has learned so far.
QueryInv(r) ==
  LET q == query[r] IN
  /\ q.at # "idle" => q.man # None
  /\ q.man # None /\ q.man.started => sup # "absent"
  /\ q.vouched => q.man # None /\ q.man.started /\ statusFile # None
  /\ q.vouched /\ q.at \in {"read", "probed", "decided"} => q.file # None
  /\ q.file # None => q.man # None /\ q.man.started
  /\ Terminal(q.file) => q.file = statusFile
  /\ q.vouched /\ q.at \in {"probed", "decided"} /\ q.man.started /\ ~q.alive
       => sup \in {"done", "killed"}
  /\ q.vouched /\ q.at = "decided" /\ ~Terminal(q.file) /\ ~q.alive
       => sup = "killed"
  /\ q.answer \in {"completed", "failed", "cancelled"}
       => HasFinalStatus /\ q.answer = AnswerFrom(statusFile, FALSE)

IInv ==
  /\ TypeOK
  /\ SupInv
  /\ StartInv
  /\ CancelInv
  /\ \A r \in Readers : QueryInv(r)

---------------------------------------------------------------------------
(* The supervisor, its process group and the signals it gets. *)

USE DEF LivePoints, ArmedPoints, SupPoints, InFlightStates, FinalStates, Codes

\* Before Launch there is no supervisor, no group and no status file.
LEMMA InitSup == Init => SupTypeOK /\ SupInv
  BY NoneAssumption
  DEF Init, SupInit, SupTypeOK, SupInv, PreSpawn, HasFinalStatus, Terminal

\* One step of supervise.py keeps the supervisor's types and invariant.
LEMMA SupStepSafe ==
  ASSUME SupTypeOK, SupInv, SupStep
  PROVE  SupTypeOK' /\ SupInv'
<1> USE NoneAssumption, ChildAssumption
    DEF SupTypeOK, SupInv, PreSpawn, HasFinalStatus, Terminal, FinalFileAgrees,
        FinalRecord, StatusRecord, OpenRecord
<1>1. CASE WriteStarting
  BY <1>1 DEF WriteStarting
<1>2. CASE InstallHandlers
  BY <1>2 DEF InstallHandlers
<1>3. CASE SpawnChild
  BY <1>3 DEF SpawnChild
<1>4. CASE SpawnFails
  BY <1>4 DEF SpawnFails
<1>5. CASE WriteRunning
  BY <1>5 DEF WriteRunning
<1>6. CASE PollReaps
  BY <1>6 DEF PollReaps
<1>7. CASE PollFindsRunning
  BY <1>7 DEF PollFindsRunning
<1>8. CASE Forward
  BY <1>8 DEF Forward
<1>9. CASE Escalate
  BY <1>9 DEF Escalate
<1>10. CASE NothingToDo
  BY <1>10 DEF NothingToDo
<1>11. CASE WriteCancelling
  BY <1>11 DEF WriteCancelling
<1>12. CASE DrainInspects
  BY <1>12 DEF DrainInspects
<1>13. CASE DrainKills
  BY <1>13 DEF DrainKills
<1>14. CASE DrainEnds
  BY <1>14 DEF DrainEnds
<1>15. CASE WriteFinal
  <2>1. rc \in Codes /\ rc' = rc /\ sup' = "done" /\ statusFile' = FinalRecord
    BY <1>15 DEF WriteFinal
  <2>2. FinalRecord' = FinalRecord
    BY <1>15 DEF WriteFinal
  <2>3. FinalRecord \in StatusRecord /\ FinalRecord.state \in FinalStates
    BY <2>1
  <2>4. FinalRecord # None
    BY <2>3
  <2>5. SupTypeOK'
    BY <1>15, <2>3 DEF WriteFinal
  <2>6. HasFinalStatus' /\ FinalFileAgrees'
    BY <2>1, <2>2, <2>3, <2>4
  <2>7. QED
    <3> HIDE DEF FinalFileAgrees, HasFinalStatus, FinalRecord
    <3> QED
      BY <1>15, <2>5, <2>6 DEF WriteFinal
<1>16. QED
  BY <1>1, <1>2, <1>3, <1>4, <1>5, <1>6, <1>7, <1>8, <1>9, <1>10, <1>11, <1>12,
     <1>13, <1>14, <1>15 DEF SupStep

\* So does a step of the process group, of the clock, or a signal.
LEMMA EnvironmentSafe ==
  ASSUME SupTypeOK, SupInv,
         GroupStep \/ EscalationDue \/ Terminate \/ KillSupervisor
  PROVE  SupTypeOK' /\ SupInv'
<1> USE NoneAssumption, ChildAssumption
    DEF SupTypeOK, SupInv, PreSpawn, HasFinalStatus, Terminal, FinalFileAgrees,
        FinalRecord, SupAlive
<1>1. CASE ChildExits
  BY <1>1 DEF ChildExits
<1>2. ASSUME NEW w \in Workers, Fork(w)
      PROVE  SupTypeOK' /\ SupInv'
  BY <1>2 DEF Fork
<1>3. ASSUME NEW w \in Workers, WorkerExits(w)
      PROVE  SupTypeOK' /\ SupInv'
  BY <1>3 DEF WorkerExits
<1>4. CASE EscalationDue
  BY <1>4 DEF EscalationDue
<1>5. CASE Terminate
  BY <1>5 DEF Terminate
<1>6. CASE KillSupervisor
  BY <1>6 DEF KillSupervisor
<1>7. QED
  BY <1>1, <1>2, <1>3, <1>4, <1>5, <1>6 DEF GroupStep

\* What no step on the supervisor's side undoes: a started supervisor stays
\* started, a status file stays, a final one stays as it is, the dead stay dead.
SupMonotone ==
  /\ sup # "absent" => sup' # "absent"
  /\ statusFile # None => statusFile' # None
  /\ HasFinalStatus => HasFinalStatus' /\ statusFile' = statusFile /\ sup' = sup
  /\ sup = "killed" => sup' = "killed" /\ statusFile' = statusFile

\* No step of supervise.py undoes a final status or the death of the supervisor.
LEMMA SupStepMonotone ==
  ASSUME SupTypeOK, SupInv, SupStep
  PROVE  SupMonotone /\ sup # "absent"
<1>1. sup \notin {"absent", "done", "killed"}
  BY DEF SupStep, WriteStarting, InstallHandlers, SpawnChild, SpawnFails,
         WriteRunning, PollReaps, PollFindsRunning, Forward, Escalate,
         NothingToDo, WriteCancelling, DrainInspects, DrainKills, DrainEnds,
         WriteFinal
<1>2. ~HasFinalStatus
  BY <1>1 DEF SupInv
<1>3. sup' # "absent"
  BY DEF SupStep, WriteStarting, InstallHandlers, SpawnChild, SpawnFails,
         WriteRunning, PollReaps, PollFindsRunning, Forward, Escalate,
         NothingToDo, WriteCancelling, DrainInspects, DrainKills, DrainEnds,
         WriteFinal
<1>4. SupTypeOK' /\ SupInv'
  BY SupStepSafe
<1>5. statusFile # None => statusFile' # None
  <2>1. \/ UNCHANGED statusFile
        \/ \E state \in InFlightStates : statusFile' = OpenRecord(state)
        \/ sup' = "done"
    BY DEF SupStep, WriteStarting, InstallHandlers, SpawnChild, SpawnFails,
           WriteRunning, PollReaps, PollFindsRunning, Forward, Escalate,
           NothingToDo, WriteCancelling, DrainInspects, DrainKills, DrainEnds,
           WriteFinal
  <2>2. ASSUME NEW state \in InFlightStates PROVE OpenRecord(state) # None
    <3>1. OpenRecord(state) \in StatusRecord
      BY DEF OpenRecord, StatusRecord, SupTypeOK
    <3>2. QED
      BY <3>1, NoneAssumption
  <2>3. sup' = "done" => statusFile' # None
    BY <1>4 DEF SupInv, HasFinalStatus, Terminal
  <2>4. QED
    BY <2>1, <2>2, <2>3
<1>6. QED
  BY <1>1, <1>2, <1>3, <1>5 DEF SupMonotone

\* Nor does a step of the process group, of the clock, or a signal.
LEMMA EnvironmentMonotone ==
  ASSUME SupTypeOK, SupInv,
         GroupStep \/ EscalationDue \/ Terminate \/ KillSupervisor
  PROVE  SupMonotone /\ sup # "absent"
<1>1. UNCHANGED statusFile
  BY DEF GroupStep, ChildExits, Fork, WorkerExits, EscalationDue, Terminate,
         KillSupervisor
<1>2. sup' = sup \/ (SupAlive /\ sup' = "killed")
  BY DEF GroupStep, ChildExits, Fork, WorkerExits, EscalationDue, Terminate,
         KillSupervisor
<1>3. group # {} \/ cancelSent \/ SupAlive
  BY DEF GroupStep, ChildExits, Fork, WorkerExits, EscalationDue, Terminate,
         KillSupervisor
<1>4. sup # "absent"
  BY <1>3 DEF SupInv, PreSpawn, SupAlive
<1>5. HasFinalStatus => sup = "done"
  BY DEF SupInv
<1>6. HasFinalStatus' <=> HasFinalStatus
  BY <1>1 DEF HasFinalStatus
<1>7. QED
  BY <1>1, <1>2, <1>4, <1>5, <1>6 DEF SupMonotone, SupAlive

---------------------------------------------------------------------------
(* The whole system. *)

\* A query's invariant outlives whatever leaves queries alone and undoes
\* nothing of the supervisor.
LEMMA QueryKept ==
  ASSUME NEW r \in Readers, QueryInv(r), UNCHANGED query, SupMonotone,
         sup' \in {"done", "killed"} \/ sup \notin {"done", "killed"}
  PROVE  QueryInv(r)'
BY DEF QueryInv, SupMonotone, HasFinalStatus, Terminal, AnswerFrom,
       RanToCompletion

\* Whatever the supervisor and its environment do keeps the whole invariant, the
\* open queries of `run status` included.
LEMMA SupervisorSideSafe ==
  ASSUME IInv, SupervisorSide
  PROVE  IInv'
<1>1. SupTypeOK /\ SupInv /\ UNCHANGED cliVars
  BY DEF IInv, TypeOK, SupervisorSide
<1>2. SupStep \/ (GroupStep \/ EscalationDue \/ Terminate \/ KillSupervisor)
  BY DEF SupervisorSide
<1>3. SupTypeOK' /\ SupInv'
  BY <1>1, <1>2, SupStepSafe, EnvironmentSafe
<1>4. SupMonotone /\ sup # "absent"
  BY <1>1, <1>2, SupStepMonotone, EnvironmentMonotone
<1>5. sup \in {"done", "killed"} => sup' = sup
  BY <1>1, <1>4 DEF SupMonotone, SupInv
<1>6. TypeOK'
  BY <1>1, <1>3 DEF IInv, TypeOK, cliVars
<1>7. StartInv' /\ CancelInv'
  BY <1>1, <1>4 DEF IInv, StartInv, CancelInv, cliVars, SupMonotone
<1>8. ASSUME NEW r \in Readers PROVE QueryInv(r)'
  BY <1>1, <1>4, <1>5, QueryKept DEF IInv, cliVars
<1>9. QED
  BY <1>3, <1>6, <1>7, <1>8 DEF IInv

\* A `run start` step leaves the supervisor alone, except that Launch starts it.
LEMMA StartStepSafe ==
  ASSUME IInv, StartStep \/ StarterCrashes
  PROVE  IInv'
<1>1. UNCHANGED << flag, cancelSent, due, escalated, cleared, group, doomed, rc,
                   statusFile, query, canceller, heldManifest, forwarded >>
  BY DEF StartStep, Plan, ListRun, Launch, CaptureIdentity, AwaitRegistration,
         RecordStart, PublishLatest, StarterCrashes, supVars, cancelVars
<1>2. UNCHANGED sup \/ (sup = "absent" /\ sup' = "boot")
  BY DEF IInv, StartInv, StartStep, Plan, ListRun, Launch, CaptureIdentity,
         AwaitRegistration, RecordStart, PublishLatest, StarterCrashes, supVars
<1>3. SupTypeOK' /\ SupInv'
  <2> USE <1>1, <1>2 DEF IInv, SupInv
  <2>1. SupTypeOK'
    BY DEF TypeOK, SupTypeOK
  <2>2. HasFinalStatus' <=> HasFinalStatus
    BY DEF HasFinalStatus
  <2>3. sup' = "done" => sup = "done" /\ FinalFileAgrees'
    BY DEF FinalFileAgrees, FinalRecord
  <2>4. QED
    BY <2>1, <2>2, <2>3 DEF PreSpawn
<1>4. SupMonotone /\ (sup \in {"done", "killed"} => sup' = sup)
  BY <1>1, <1>2, <1>3 DEF SupMonotone, HasFinalStatus, IInv, SupInv
<1>5. ASSUME NEW r \in Readers PROVE QueryInv(r)'
  BY <1>1, <1>4, QueryKept DEF IInv
<1>6. /\ starter' \in StarterPoints
      /\ identity' \in BOOLEAN
      /\ registered' \in BOOLEAN
      /\ manifest' \in ManifestRecord \cup {None}
      /\ latest' \in BOOLEAN
      /\ StartInv'
  <2> USE NoManifestAssumption
      DEF IInv, TypeOK, StartInv, StarterPoints, ManifestRecord, supVars
  <2>1. CASE Plan
    BY <2>1 DEF Plan
  <2>2. CASE ListRun
    BY <2>2 DEF ListRun
  <2>3. CASE Launch
    BY <2>3 DEF Launch
  <2>4. CASE CaptureIdentity
    BY <2>4 DEF CaptureIdentity
  <2>5. CASE AwaitRegistration
    BY <2>5 DEF AwaitRegistration
  <2>6. CASE RecordStart
    BY <2>6 DEF RecordStart
  <2>7. CASE PublishLatest
    BY <2>7 DEF PublishLatest
  <2>8. CASE StarterCrashes
    BY <2>8 DEF StarterCrashes
  <2>9. QED
    BY <2>1, <2>2, <2>3, <2>4, <2>5, <2>6, <2>7, <2>8 DEF StartStep
<1>7. TypeOK'
  BY <1>1, <1>3, <1>6 DEF IInv, TypeOK
<1>8. manifest # None /\ manifest.started => manifest' # None /\ manifest'.started
  <2> USE NoManifestAssumption DEF IInv, StartInv, ManifestRecord
  <2>1. CASE starter \in {"recorded", "done", "crashed"}
    BY <2>1 DEF StartStep, Plan, ListRun, Launch, CaptureIdentity,
       AwaitRegistration, RecordStart, PublishLatest, StarterCrashes
  <2>2. QED
    BY <2>1
<1>9. CancelInv'
  BY <1>1, <1>8 DEF IInv, CancelInv
<1>10. QED
  BY <1>3, <1>5, <1>6, <1>7, <1>9 DEF IInv

\* `run cancel` touches the supervisor only by SIGTERM.
LEMMA CancelStepSafe ==
  ASSUME IInv, CancelStep
  PROVE  IInv'
<1> USE DEF IInv, CancelStep, LoadForCancel, MatchSupervisor, SignalSupervisor,
            RecordCancel, CancelReturns
<1>1. UNCHANGED supVars \/ Terminate
  OBVIOUS
<1>2. UNCHANGED << starter, identity, registered, latest, query >>
  BY DEF startVars
<1>3. SupTypeOK' /\ SupInv'
  <2>1. CASE UNCHANGED supVars
    BY <2>1 DEF SupInv, TypeOK, SupTypeOK, supVars, PreSpawn, HasFinalStatus,
                Terminal, FinalFileAgrees, FinalRecord
  <2>2. CASE Terminate
    BY <2>2, EnvironmentSafe DEF TypeOK
  <2>3. QED
    BY <1>1, <2>1, <2>2
<1>4. SupMonotone /\ (sup \in {"done", "killed"} => sup' = sup)
  <2>1. CASE UNCHANGED supVars
    BY <2>1 DEF SupMonotone, supVars, HasFinalStatus
  <2>2. CASE Terminate
    BY <2>2, EnvironmentMonotone DEF TypeOK, SupMonotone, SupInv
  <2>3. QED
    BY <1>1, <2>1, <2>2
<1>5. manifest' \in ManifestRecord \cup {None}
      /\ heldManifest' \in ManifestRecord \cup {None}
  BY DEF TypeOK, ManifestRecord, CancelInv, startVars
<1>6. TypeOK'
  BY <1>2, <1>3, <1>5 DEF TypeOK, CancellerPoints
<1>7. CancelInv'
  BY <1>5, NoManifestAssumption DEF CancelInv, TypeOK, ManifestRecord, startVars
<1>8. manifest' # None /\ manifest'.started => manifest # None /\ manifest.started
  BY DEF CancelInv, startVars
<1>9. manifest # None => manifest' # None
  BY NoManifestAssumption DEF CancelInv, startVars, TypeOK, ManifestRecord
<1>10. sup' = sup \/ (sup # "absent" /\ sup' = "killed")
  BY <1>1 DEF Terminate, SupAlive, supVars
<1>11. StartInv'
  BY <1>2, <1>4, <1>8, <1>9, <1>10 DEF StartInv, SupMonotone
<1>12. ASSUME NEW r \in Readers PROVE QueryInv(r)'
  BY <1>2, <1>4, QueryKept
<1>13. QED
  BY <1>3, <1>6, <1>7, <1>11, <1>12

---------------------------------------------------------------------------
(* `run status`. *)

\* What a query step changes is one query's record; this states the new one.
LEMMA StatusStepSafe ==
  ASSUME IInv, NEW r \in Readers, StatusStep(r)
  PROVE  IInv'
<1> DEFINE q == query[r]
<1> USE NoneAssumption, NoManifestAssumption DEF IInv
<1>1. UNCHANGED << supVars, startVars, cancelVars >>
  BY DEF StatusStep, LoadForStatus, ReadStatusFile, ProbeSupervisor,
         ProbeMisled, RecheckStatusFile, Answer
<1>2. q \in QueryRecord /\ QueryInv(r)
  BY DEF TypeOK
<1>3. IdleQuery \in QueryRecord
  BY DEF IdleQuery, QueryRecord, QueryPoints, Answers
<1>4. \E new \in QueryRecord :
        /\ query' = [query EXCEPT ![r] = new]
        /\ query'[r] = new
        /\ QueryInv(r)'
  <2>1. CASE LoadForStatus(r)
    <3> DEFINE new == [IdleQuery EXCEPT !.at = "loaded", !.man = manifest,
                        !.vouched = manifest.started /\ registered]
    <3>1. new \in QueryRecord
      BY <2>1, <1>3 DEF LoadForStatus, TypeOK, QueryRecord, QueryPoints, ManifestRecord
    <3>2. query' = [query EXCEPT ![r] = new] /\ query'[r] = new
      BY <2>1 DEF LoadForStatus, TypeOK
    <3>3. QueryInv(r)'
      BY <1>1, <2>1, <3>2
      DEF LoadForStatus, QueryInv, IdleQuery, StartInv, supVars, Terminal, QueryAt
    <3>4. QED
      BY <3>1, <3>2, <3>3
  <2>2. CASE ReadStatusFile(r)
    <3> DEFINE new == [q EXCEPT !.at = "read",
                        !.file = IF q.man.started THEN statusFile ELSE None]
    <3>1. new \in QueryRecord
      BY <2>2, <1>2 DEF ReadStatusFile, TypeOK, SupTypeOK, QueryRecord, QueryPoints
    <3>2. query' = [query EXCEPT ![r] = new] /\ query'[r] = new
      BY <2>2, <1>2 DEF ReadStatusFile, TypeOK, QueryRecord
    <3>3. QueryInv(r)'
      BY <1>1, <1>2, <2>2, <3>2
      DEF ReadStatusFile, QueryInv, supVars, Terminal, QueryAt, HasFinalStatus,
          QueryRecord
    <3>4. QED
      BY <3>1, <3>2, <3>3
  <2>3. CASE ProbeSupervisor(r)
    <3> PICK alive \in BOOLEAN :
          /\ q.man.started /\ SupAlive => alive
          /\ query' = [query EXCEPT ![r].at = "probed", ![r].alive = alive]
      BY <2>3 DEF ProbeSupervisor
    <3> DEFINE new == [q EXCEPT !.at = "probed", !.alive = alive]
    <3>1. new \in QueryRecord
      BY <1>2 DEF QueryRecord, QueryPoints
    <3>2. query' = [query EXCEPT ![r] = new] /\ query'[r] = new
      BY <1>2 DEF TypeOK, QueryRecord
    <3>3. q.man # None /\ q.man.started /\ ~SupAlive => sup \in {"done", "killed"}
      BY <1>2 DEF QueryInv, TypeOK, SupTypeOK, SupAlive
    <3>4. QueryInv(r)'
      BY <1>1, <1>2, <2>3, <3>2, <3>3
      DEF ProbeSupervisor, QueryInv, supVars, Terminal, QueryAt, HasFinalStatus,
          QueryRecord, AnswerFrom, RanToCompletion
    <3>5. QED
      BY <3>1, <3>2, <3>4
  <2>4. CASE RecheckStatusFile(r)
    <3> DEFINE late == q.file # None /\ ~Terminal(q.file) /\ ~q.alive
               file == IF late THEN Recheck(q.file, statusFile) ELSE q.file
               new == [q EXCEPT !.at = "decided", !.file = file]
    <3>1. file \in StatusRecord \cup {None}
      BY <1>2 DEF Recheck, QueryRecord, TypeOK, SupTypeOK
    <3>2. new \in QueryRecord
      BY <1>2, <3>1 DEF QueryRecord, QueryPoints
    <3>3. query' = [query EXCEPT ![r] = new] /\ query'[r] = new
      BY <1>2, <2>4 DEF RecheckStatusFile, TypeOK, QueryRecord
    <3>4. late /\ q.vouched => sup \in {"done", "killed"}
      BY <1>2, <2>4 DEF RecheckStatusFile, QueryAt, QueryInv
    <3>5. sup = "done" => Terminal(statusFile)
      BY DEF SupInv, HasFinalStatus
    <3>6. QueryInv(r)'
      BY <1>1, <1>2, <2>4, <3>3, <3>4, <3>5
      DEF RecheckStatusFile, QueryInv, supVars, Terminal, QueryAt, HasFinalStatus,
          QueryRecord, Recheck, AnswerFrom, RanToCompletion
    <3>7. QED
      BY <3>2, <3>3, <3>6
  <2>5. CASE Answer(r)
    <3> DEFINE answer == AnswerFrom(q.file, q.alive)
               new == [IdleQuery EXCEPT !.answer = answer]
    <3>1. new \in QueryRecord
      BY <1>2, <1>3 DEF QueryRecord, Answers, AnswerFrom
    <3>2. query' = [query EXCEPT ![r] = new] /\ query'[r] = new
      BY <1>2, <2>5 DEF Answer, TypeOK, QueryRecord
    <3>3. answer \in {"completed", "failed", "cancelled"} =>
            Terminal(q.file) /\ q.file = statusFile
                             /\ answer = AnswerFrom(statusFile, FALSE)
      BY <1>2 DEF QueryInv, AnswerFrom, Terminal
    <3>4. QueryInv(r)'
      <4> HIDE DEF answer
      <4> QED
        BY <1>1, <3>2, <3>3
        DEF QueryInv, IdleQuery, supVars, Terminal, HasFinalStatus, AnswerFrom,
            RanToCompletion
    <3>5. QED
      BY <3>1, <3>2, <3>4
  <2>6. CASE ProbeMisled(r)
    <3> DEFINE new == [q EXCEPT !.at = "probed", !.alive = FALSE, !.vouched = FALSE]
    <3>1. new \in QueryRecord
      BY <1>2 DEF QueryRecord, QueryPoints
    <3>2. query' = [query EXCEPT ![r] = new] /\ query'[r] = new
      BY <1>2, <2>6 DEF ProbeMisled, TypeOK, QueryRecord
    <3>3. QueryInv(r)'
      BY <1>1, <1>2, <2>6, <3>2
      DEF ProbeMisled, QueryInv, supVars, Terminal, QueryAt, HasFinalStatus,
          QueryRecord, AnswerFrom, RanToCompletion
    <3>4. QED
      BY <3>1, <3>2, <3>3
  <2>7. QED
    BY <2>1, <2>2, <2>3, <2>4, <2>5, <2>6 DEF StatusStep
<1>5. ASSUME NEW s \in Readers PROVE QueryInv(s)'
  <2>1. CASE s = r
    BY <1>4, <2>1
  <2>2. CASE s # r
    <3>1. query'[s] = query[s]
      BY <1>4, <2>2 DEF TypeOK
    <3>2. QED
      BY <1>1, <3>1 DEF QueryInv, supVars, startVars, HasFinalStatus, Terminal,
                        AnswerFrom, RanToCompletion
  <2>3. QED
    BY <2>1, <2>2
<1>6. SupTypeOK' /\ SupInv'
  BY <1>1 DEF TypeOK, SupTypeOK, SupInv, supVars, PreSpawn, HasFinalStatus,
              Terminal, FinalFileAgrees, FinalRecord
<1>7. query' \in [Readers -> QueryRecord]
  BY <1>4 DEF TypeOK
<1>8. TypeOK' /\ StartInv' /\ CancelInv'
  BY <1>1, <1>6, <1>7 DEF TypeOK, StartInv, CancelInv, startVars, cancelVars,
                          supVars
<1>9. QED
  BY <1>5, <1>6, <1>8

---------------------------------------------------------------------------
(* The theorems. *)

\* The invariant holds before anything has run.
LEMMA InitSafe == Init => IInv
<1> SUFFICES ASSUME Init PROVE IInv
  OBVIOUS
<1>1. SupTypeOK /\ SupInv
  BY InitSup
<1>2. query \in [Readers -> QueryRecord] /\ \A r \in Readers : QueryInv(r)
  BY DEF Init, IdleQuery, QueryRecord, QueryPoints, Answers, QueryInv, Terminal
<1>3. QED
  BY <1>1, <1>2
  DEF Init, IInv, TypeOK, StartInv, CancelInv, StarterPoints, CancellerPoints,
      SupInit

\* A stuttering step keeps the invariant.
LEMMA StutterSafe ==
  ASSUME IInv, UNCHANGED vars
  PROVE  IInv'
BY DEF IInv, TypeOK, SupTypeOK, SupInv, StartInv, CancelInv, QueryInv, vars,
       supVars, cliVars, PreSpawn, HasFinalStatus, Terminal, FinalFileAgrees,
       FinalRecord, AnswerFrom, RanToCompletion

\* IInv is inductive, hence holds in every reachable state.
THEOREM Invariance == Spec => []IInv
<1>1. Init => IInv
  BY InitSafe
<1>2. IInv /\ [Next]_vars => IInv'
  BY SupervisorSideSafe, StartStepSafe, CancelStepSafe, StatusStepSafe,
     StutterSafe DEF Next
<1>3. QED
  BY <1>1, <1>2, PTL DEF Spec

\* The variables keep the values supervise.py and runner.py can give them.
THEOREM TypeCorrect == Spec => []TypeOK
<1>1. IInv => TypeOK
  BY DEF IInv
<1>2. QED
  BY <1>1, Invariance, PTL

\* Whoever is told of a completion is told the truth: the command ended with
\* status 0 and no termination request was forwarded to it.
THEOREM CompletionTruth == Spec => []CompletionIsTruthful
<1>1. IInv => CompletionIsTruthful
  <2> SUFFICES ASSUME IInv, NEW r \in Readers, query[r].answer = "completed"
               PROVE  rc = "zero" /\ ~cancelSent
    BY DEF CompletionIsTruthful
  <2>1. HasFinalStatus /\ AnswerFrom(statusFile, FALSE) = "completed"
    BY DEF IInv, QueryInv
  <2>2. RanToCompletion(statusFile)
    BY <2>1 DEF HasFinalStatus, Terminal, AnswerFrom
  <2>3. FinalFileAgrees
    BY <2>1 DEF IInv, SupInv
  <2>4. statusFile.code = "zero"
    BY <2>2 DEF RanToCompletion
  <2>5. statusFile = FinalRecord
    BY <2>3, <2>4 DEF FinalFileAgrees
  <2>6. QED
    BY <2>2, <2>4, <2>5 DEF FinalRecord, RanToCompletion
<1>2. QED
  BY <1>1, Invariance, PTL

\* A run on record as cancelled has nothing left that is not being killed.
THEOREM CancelledIsDead == Spec => []CancelledRunIsDead
<1>1. IInv => CancelledRunIsDead
  <2> SUFFICES ASSUME IInv, HasFinalStatus, statusFile.cancelled
               PROVE  Child \notin group /\ group \subseteq doomed
    BY DEF CancelledRunIsDead
  <2>1. sup = "done" /\ FinalFileAgrees
    BY DEF IInv, SupInv
  <2>2. rc # None /\ cancelSent
    BY <2>1 DEF FinalFileAgrees, FinalRecord
  <2>3. QED
    BY <2>1, <2>2 DEF IInv, SupInv
<1>2. QED
  BY <1>1, Invariance, PTL

\* What descendants_cleared says on disk is true when it is written and stays so.
THEOREM ClearedTruth == Spec => []ClearedMeansEmpty
<1>1. IInv => ClearedMeansEmpty
  <2> SUFFICES ASSUME IInv, HasFinalStatus, statusFile.cleared
               PROVE  group = {}
    BY DEF ClearedMeansEmpty
  <2>1. FinalFileAgrees
    BY DEF IInv, SupInv
  <2>2. cleared
    BY <2>1 DEF FinalFileAgrees, FinalRecord
  <2>3. QED
    BY <2>2 DEF IInv, SupInv
<1>2. QED
  BY <1>1, Invariance, PTL

---------------------------------------------------------------------------
(* RunControl implements RunOutcome. *)

\* Whatever undoes nothing of the supervisor settles the run, once, or not.
LEMMA OutcomeSettles ==
  ASSUME IInv, IInv', SupMonotone, UNCHANGED << Known, Asked, Told >>
  PROVE  Promise!Settle \/ UNCHANGED << Outcome, Known, Asked, Told >>
<1>1. Outcome # "pending" => Outcome' = Outcome
  BY DEF Outcome, SupMonotone, HasFinalStatus, AnswerFrom, RanToCompletion,
         Terminal, IInv, SupInv
<1>2. Outcome' \in Promise!Ends \cup {"lost", "pending"}
  BY DEF Outcome, HasFinalStatus, AnswerFrom, Promise!Ends, RanToCompletion,
         Terminal
<1>3. QED
  BY <1>1, <1>2 DEF Promise!Settle

\* A step of the supervisor or of its environment settles the abstract run or
\* leaves it as it is.
LEMMA SupervisorSideSettles ==
  ASSUME IInv, SupervisorSide
  PROVE  Promise!Settle \/ UNCHANGED << Outcome, Known, Asked, Told >>
<1>1. UNCHANGED << Known, Asked, Told >>
  BY DEF SupervisorSide, cliVars, Known, Asked, Told
<1>2. SupMonotone /\ IInv'
  BY SupStepMonotone, EnvironmentMonotone, SupervisorSideSafe
  DEF SupervisorSide, IInv, TypeOK
<1>3. QED
  BY <1>1, <1>2, OutcomeSettles

\* `run start` makes the run known by its last manifest write.
LEMMA StartStepRegisters ==
  ASSUME IInv, StartStep \/ StarterCrashes
  PROVE  Promise!Register \/ UNCHANGED << Outcome, Known, Asked, Told >>
<1>1. UNCHANGED << statusFile, rc, query >>
  BY DEF StartStep, Plan, ListRun, Launch, CaptureIdentity, AwaitRegistration,
         RecordStart, PublishLatest, StarterCrashes, supVars
<1>2. sup' = sup \/ (sup = "absent" /\ sup' = "boot")
  BY DEF IInv, StartInv, StartStep, Plan, ListRun, Launch, CaptureIdentity,
         AwaitRegistration, RecordStart, PublishLatest, StarterCrashes, supVars
<1>3. UNCHANGED << Outcome, Asked, Told >>
  BY <1>1, <1>2 DEF Outcome, Asked, Told, HasFinalStatus, AnswerFrom,
                    RanToCompletion
<1>4. Known => Known'
  BY NoManifestAssumption
  DEF IInv, TypeOK, StartInv, Known, StartStep, Plan, ListRun, Launch,
      CaptureIdentity, AwaitRegistration, RecordStart, PublishLatest,
      StarterCrashes
<1>5. Known \in BOOLEAN /\ Known' \in BOOLEAN
  BY StartStepSafe DEF Known, IInv, TypeOK
<1>6. QED
  BY <1>3, <1>4, <1>5 DEF Promise!Register

\* `run cancel` may settle the run too: its SIGTERM kills a supervisor that has
\* not installed its handlers.
LEMMA CancelStepSettles ==
  ASSUME IInv, CancelStep
  PROVE  Promise!Settle \/ UNCHANGED << Outcome, Known, Asked, Told >>
<1>1. UNCHANGED << query, registered >>
  BY DEF CancelStep, LoadForCancel, MatchSupervisor, SignalSupervisor,
         RecordCancel, startVars
<1>2. UNCHANGED Known
  BY <1>1, NoManifestAssumption
  DEF Known, IInv, TypeOK, ManifestRecord, CancelInv, CancelStep, LoadForCancel,
      MatchSupervisor, SignalSupervisor, RecordCancel, startVars
<1>3. UNCHANGED << Known, Asked, Told >>
  BY <1>1, <1>2 DEF Asked, Told
<1>4. UNCHANGED supVars \/ Terminate
  BY DEF CancelStep, LoadForCancel, MatchSupervisor, SignalSupervisor, RecordCancel
<1>5. CASE UNCHANGED supVars
  BY <1>3, <1>5 DEF Outcome, supVars, HasFinalStatus, AnswerFrom, RanToCompletion
<1>6. CASE Terminate
  BY <1>3, <1>6, EnvironmentMonotone, CancelStepSafe, OutcomeSettles
  DEF IInv, TypeOK
<1>7. QED
  BY <1>4, <1>5, <1>6

\* `run status` asks when it loads the manifest, doubts when its `ps` fails and is
\* told when it prints; what it prints is an answer the promise allows.
LEMMA StatusStepAsks ==
  ASSUME IInv, NEW r \in Readers, StatusStep(r)
  PROVE  Promise!Ask(r) \/ Promise!Doubt(r) \/ Promise!Tell(r)
           \/ UNCHANGED << Outcome, Known, Asked, Told >>
<1> DEFINE q == query[r]
<1>1. UNCHANGED << Outcome, Known >>
  BY DEF StatusStep, LoadForStatus, ReadStatusFile, ProbeSupervisor, ProbeMisled,
         RecheckStatusFile, Answer, supVars, startVars, Outcome, Known,
         HasFinalStatus, AnswerFrom, RanToCompletion
<1>2. q \in QueryRecord /\ QueryInv(r) /\ query \in [Readers -> QueryRecord]
  BY DEF IInv, TypeOK
<1>3. CASE LoadForStatus(r)
  <2>1. q.at = "idle" /\ manifest # None
    BY <1>3 DEF LoadForStatus, QueryAt
  <2>2. Asked[r] = "no"
    BY <2>1 DEF Asked
  <2>3. Asked' = [Asked EXCEPT ![r] = IF Known THEN "vouched" ELSE "unsure"]
    BY <1>2, <1>3, <2>1 DEF LoadForStatus, Asked, IdleQuery, Known
  <2>4. Told' = [Told EXCEPT ![r] = "none"]
    BY <1>2, <1>3 DEF LoadForStatus, Told, IdleQuery
  <2>5. QED
    BY <1>1, <2>2, <2>3, <2>4 DEF Promise!Ask
<1>4. CASE ReadStatusFile(r) \/ ProbeSupervisor(r) \/ RecheckStatusFile(r)
  <2>1. \A s \in Readers :
          /\ query'[s].answer = query[s].answer
          /\ query'[s].vouched = query[s].vouched
          /\ query'[s].at = "idle" <=> query[s].at = "idle"
    BY <1>2, <1>4 DEF ReadStatusFile, ProbeSupervisor, RecheckStatusFile, QueryAt,
                      QueryRecord
  <2>2. UNCHANGED << Asked, Told >>
    BY <2>1 DEF Asked, Told
  <2>3. QED
    BY <1>1, <2>2
<1>5. CASE Answer(r)
  <2> DEFINE answer == AnswerFrom(q.file, q.alive)
  <2>1. q.at = "decided"
    BY <1>5 DEF Answer, QueryAt
  <2>2. Asked[r] # "no" /\ (Asked[r] = "unsure" <=> ~q.vouched)
    BY <2>1 DEF Asked
  <2>3. Asked' = [Asked EXCEPT ![r] = "no"] /\ Told' = [Told EXCEPT ![r] = answer]
    BY <1>2, <1>5 DEF Answer, Asked, Told, IdleQuery
  <2>4. answer \in Promise!Ends \cup {"live", "unknown"}
    BY DEF AnswerFrom, Promise!Ends
  <2>5. ASSUME answer \in Promise!Ends PROVE Promise!MayTell(r, answer)
    <3>1. Terminal(q.file)
      BY <2>5 DEF AnswerFrom, Promise!Ends, Terminal
    <3>2. HasFinalStatus /\ answer = Outcome
      BY <1>2, <3>1 DEF QueryInv, HasFinalStatus, Outcome, AnswerFrom, Terminal
    <3>3. QED
      BY <2>5, <3>2 DEF Promise!MayTell
  <2>6. ASSUME answer = "unknown" PROVE Promise!MayTell(r, answer)
    <3>1. ~q.alive /\ ~Terminal(q.file)
      BY <2>6 DEF AnswerFrom, Terminal
    <3>2. q.vouched => sup = "killed" /\ ~HasFinalStatus
      BY <1>2, <2>1, <3>1 DEF QueryInv, IInv, SupInv
    <3>3. q.vouched => Outcome = "lost"
      BY <3>2 DEF Outcome
    <3>4. QED
      BY <2>2, <2>6, <3>3 DEF Promise!MayTell
  <2>7. Promise!MayTell(r, answer)
    BY <2>4, <2>5, <2>6 DEF Promise!MayTell
  <2>8. QED
    <3> HIDE DEF answer
    <3> QED
      BY <1>1, <2>2, <2>3, <2>4, <2>7 DEF Promise!Tell
<1>6. CASE ProbeMisled(r)
  <2>1. q.at = "read" /\ query' = [query EXCEPT ![r] = [q EXCEPT
          !.at = "probed", !.alive = FALSE, !.vouched = FALSE]]
    BY <1>2, <1>6 DEF ProbeMisled, QueryAt, QueryRecord
  <2>2. Told' = Told
    BY <1>2, <2>1 DEF Told, QueryRecord
  <2>3. Asked[r] = IF q.vouched THEN "vouched" ELSE "unsure"
    BY <2>1 DEF Asked
  <2>4. Asked' = [Asked EXCEPT ![r] = "unsure"]
    BY <1>2, <2>1 DEF Asked, QueryRecord
  <2>5. Asked' = Asked \/ Asked[r] = "vouched"
    BY <2>3, <2>4 DEF Asked
  <2>6. QED
    BY <1>1, <2>2, <2>4, <2>5 DEF Promise!Doubt
<1>7. QED
  BY <1>3, <1>4, <1>5, <1>6 DEF StatusStep

\* The run's users can rely on RunOutcome alone: every behaviour of the commands,
\* the supervisor and the process group is one of the abstract run.
THEOREM Implements == Spec => KeepsPromise
<1>1. Init => Promise!Init
  BY DEF Init, SupInit, Promise!Init, Outcome, HasFinalStatus, Terminal, Known,
         Asked, Told, IdleQuery
<1>2. IInv /\ [Next]_vars => [Promise!Next]_(Promise!vars)
  <2> SUFFICES ASSUME IInv, [Next]_vars
               PROVE  Promise!Next \/ UNCHANGED << Outcome, Known, Asked, Told >>
    BY DEF Promise!vars
  <2>1. CASE UNCHANGED vars
    BY <2>1 DEF vars, supVars, cliVars, Outcome, HasFinalStatus, Terminal, Known,
                Asked, Told, AnswerFrom, RanToCompletion
  <2>2. CASE Next
    BY <2>2, SupervisorSideSettles, StartStepRegisters, CancelStepSettles,
       StatusStepAsks DEF Next, Promise!Next
  <2>3. QED
    BY <2>1, <2>2
<1>3. QED
  BY <1>1, <1>2, Invariance, PTL DEF Spec, KeepsPromise, Promise!Spec

-----------------------------------------------------------------------------
(* Campaign, for any number of editors, identities, candidates and budget: *)
(* what a campaign file says of its own past stays true even when editors  *)
(* overwrite each other's records.                                         *)

\* A record that load() accepts and the editors can produce.
Sound(record) ==
  LET n == Len(record.history) IN
  /\ record \in Record
  /\ n > 0 /\ record.history[n] = record.status
  /\ record.status \in {"verified", "promoted", "rejected"}
       => record.candidates = record.passed
  /\ record.status = "promoted" => n > 1 /\ record.history[n - 1] = "verified"
  /\ IsFiniteSet(record.candidates)
  /\ Cardinality(record.candidates) <= MaxCandidates

CInv ==
  /\ disk # Nothing => Sound(disk)
  /\ mine \in [Editors -> Record \cup {Nothing}]
  /\ \A e \in Editors : mine[e] # Nothing => Sound(mine[e])

\* A new record is sound.
LEMMA NewSound ==
  ASSUME NEW id \in Identities
  PROVE  Sound(New(id))
<1>1. Cardinality({}) = 0 /\ IsFiniteSet({})
  BY FS_EmptySet
<1>2. New(id) \in Record
  BY DEF New, Record, KNOWN
<1>3. QED
  BY <1>1, <1>2, CampaignAssumption DEF Sound, New

\* campaign.transition keeps a record sound.
LEMMA TransitionSound ==
  ASSUME NEW record, Sound(record), NEW target \in TRANSITIONS[record.status]
  PROVE  Sound(Transition(record, target))
<1> DEFINE n == Len(record.history)
           next == Transition(record, target)
<1>1. record \in Record /\ record.history \in Seq(KNOWN) /\ n \in Nat /\ n > 0
  BY DEF Sound, Record
<1>2. target \in KNOWN
      /\ (target \in {"promoted", "rejected"} => record.status = "verified")
  BY <1>1 DEF TRANSITIONS, KNOWN, Record
<1>3. /\ next.history = Append(record.history, target)
      /\ next.status = target
      /\ next.candidates = record.candidates
      /\ next.passed = IF target = "verified" THEN record.candidates
                       ELSE record.passed
      /\ next.identity = record.identity
  BY <1>1 DEF Transition, Record
<1>4. /\ next.history \in Seq(KNOWN) /\ Len(next.history) = n + 1
      /\ next.history[n + 1] = target
      /\ next.history[n] = record.history[n]
  BY <1>1, <1>2, <1>3
<1>5. next \in Record
  BY <1>1, <1>2, <1>4 DEF Transition, Record
<1>6. next.status \in {"verified", "promoted", "rejected"}
        => next.candidates = next.passed
  BY <1>2, <1>3 DEF Sound
<1>7. next.status = "promoted" =>
        Len(next.history) > 1 /\ next.history[Len(next.history) - 1] = "verified"
  BY <1>1, <1>2, <1>3, <1>4 DEF Sound
<1>8. IsFiniteSet(next.candidates) /\ Cardinality(next.candidates) <= MaxCandidates
  BY <1>3 DEF Sound
<1>9. Len(next.history) > 0 /\ next.history[Len(next.history)] = next.status
  BY <1>1, <1>3, <1>4
<1>10. Sound(next)
  <2> HIDE DEF next
  <2> QED
    BY <1>5, <1>6, <1>7, <1>8, <1>9 DEF Sound
<1>11. QED
  BY <1>10

\* campaign.add_candidate keeps a record sound and within its budget.
LEMMA AddSound ==
  ASSUME NEW record, Sound(record), NEW candidate \in Candidates,
         record.status \in {"running", "candidate_ready"},
         Cardinality(record.candidates) < MaxCandidates
  PROVE  Sound([record EXCEPT !.candidates = @ \cup {candidate}])
<1> DEFINE next == [record EXCEPT !.candidates = @ \cup {candidate}]
<1>1. record \in Record
  BY DEF Sound
<1>2. /\ next \in Record
      /\ next.candidates = record.candidates \cup {candidate}
      /\ next.status = record.status /\ next.history = record.history
  BY <1>1 DEF Record
<1>3. IsFiniteSet(next.candidates)
      /\ Cardinality(next.candidates) <= Cardinality(record.candidates) + 1
  BY <1>2, FS_AddElement, FS_CardinalityType DEF Sound
<1>4. Cardinality(next.candidates) <= MaxCandidates
  BY <1>3, FS_CardinalityType, CampaignAssumption DEF Sound
<1>5. next.status \notin {"verified", "promoted", "rejected"}
  BY <1>2
<1>6. Len(next.history) > 0 /\ next.history[Len(next.history)] = next.status
  BY <1>2 DEF Sound
<1>7. Sound(next)
  <2> HIDE DEF next
  <2> QED
    BY <1>2, <1>3, <1>4, <1>5, <1>6 DEF Sound
<1>8. QED
  BY <1>7

\* Every step leaves sound records, on disk and with the editors.
LEMMA NextSound ==
  ASSUME CInv, [CampaignNext]_campaignVars
  PROVE  CInv'
<1>1. ASSUME NEW e \in Editors, NEW record, Sound(record), Save(e, record)
      PROVE  CInv'
  BY <1>1 DEF Save, CInv, Sound
<1>2. ASSUME NEW e \in Editors, NEW id \in Identities, Create(e, id)
      PROVE  CInv'
  BY <1>2, NewSound DEF Create, CInv
<1>3. ASSUME NEW e \in Editors, Load(e) PROVE CInv'
  BY <1>3 DEF Load, CInv, Sound
<1>4. ASSUME NEW e \in Editors, GiveUp(e) PROVE CInv'
  BY <1>4 DEF GiveUp, CInv
<1>5. ASSUME NEW e \in Editors, NEW target \in KNOWN, Move(e, target) PROVE CInv'
  BY <1>1, <1>5, TransitionSound DEF Move, CInv
<1>6. ASSUME NEW e \in Editors, NEW candidate \in Candidates,
             AddCandidate(e, candidate)
      PROVE  CInv'
  BY <1>1, <1>6, AddSound DEF AddCandidate, CInv
<1>7. CASE UNCHANGED campaignVars
  BY <1>7 DEF campaignVars, CInv
<1>8. QED
  BY <1>2, <1>3, <1>4, <1>5, <1>6, <1>7 DEF CampaignNext

\* Every record is sound, whatever the interleaving of the editors.
THEOREM Soundness == CampaignSpec => []CInv
<1>1. CampaignInit => CInv
  BY DEF CampaignInit, CInv
<1>2. QED
  BY <1>1, NextSound, PTL DEF CampaignSpec

\* A promoted campaign came from "verified", with no candidate that was attached
\* after the verification.
THEOREM PromotionEarned == CampaignSpec => []PromotedIsVerified
<1>1. CInv => PromotedIsVerified
  BY DEF CInv, Sound, PromotedIsVerified
<1>2. QED
  BY <1>1, Soundness, PTL

\* No interleaving of editors puts more candidates on disk than the budget.
THEOREM BudgetBound == CampaignSpec => []BudgetKept
<1>1. CInv => BudgetKept
  BY DEF CInv, Sound, BudgetKept
<1>2. QED
  BY <1>1, Soundness, PTL

\* The type invariant, for any number of editors and any length of a history.
THEOREM CampaignTypeCorrect == CampaignSpec => []CampaignTypeOK
<1>1. CInv => CampaignTypeOK
  BY DEF CInv, Sound, CampaignTypeOK
<1>2. QED
  BY <1>1, Soundness, PTL
=============================================================================
