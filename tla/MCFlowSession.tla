---------------------------- MODULE MCFlowSession ----------------------------
(***************************************************************************)
(* FlowSession and CleaningEpoch for TLC.  In one kind of behaviour the    *)
(* commands race and fail in every way and flows have no inside; in the    *)
(* other, two commands come one after another and the flows clean.         *)
(***************************************************************************)
EXTENDS CleaningEpoch

VARIABLE kind

CONSTANTS c1, c2, c3, r1, r2   \* named in the bounds

allVars == << vars, epochVars, kind >>

MCInit == Init /\ EpochInit /\ kind \in {"race", "clean"} /\ (kind = "race" => control = None)

\* Bound: c1 comes first and c2 second, c3 stays away, and the machine is well.
\* Commands and records are interchangeable; nothing is promised of flows that
\* overlap.
OneAfterAnother ==
  /\ ~overlapped
  /\ Cardinality(Active') <= 1
  /\ at'[c3] = "idle"
  /\ at'[c2] # "idle" => at'[c1] # "idle"
  /\ faults' = 0 /\ ~rival'
  /\ r2 \in recorded' => r1 \in recorded'

MCNext ==
  /\ \/ kind = "race" /\ Next /\ UNCHANGED epochVars
     \/ kind = "clean" /\ EpochNext /\ OneAfterAnother
  /\ UNCHANGED kind

MCSpec == MCInit /\ [][MCNext]_allVars /\ Fairness
===========================================================================
