------------------------------ MODULE Campaign ------------------------------
(***************************************************************************)
(* tools/k3/campaign.py and the `k3ctl campaign` commands: the campaign    *)
(* record, its transitions, its candidate budget, and the editors that     *)
(* each load the file, edit the record and save it, with no lock.          *)
(***************************************************************************)
EXTENDS Naturals, Sequences, FiniteSets

CONSTANTS
  Editors,        \* commands and runners that edit the file
  Identities,     \* campaign identities (id, task, base, workload, gate)
  Candidates,     \* candidate ids
  MaxCandidates,  \* max_candidates
  MaxHistory,     \* bound on the length of a history
  Nothing            \* no file, nothing loaded

ASSUME CampaignAssumption == /\ MaxCandidates \in Nat \ {0}
                             /\ MaxHistory \in Nat \ {0}

VARIABLES
  disk,   \* the campaign file
  mine    \* mine[e]: the record editor e has loaded

campaignVars == << disk, mine >>

KNOWN == { "prepared", "running", "candidate_ready", "verified", "promoted",
           "rejected", "blocked" }
TERMINAL == {"promoted", "rejected"}

TRANSITIONS ==
  [ prepared        |-> {"running", "blocked"},
    running         |-> {"candidate_ready", "blocked"},
    candidate_ready |-> {"running", "verified", "blocked"},
    verified        |-> {"promoted", "rejected", "blocked"},
    blocked         |-> {"prepared", "running"},
    promoted        |-> {},
    rejected        |-> {} ]

\* `passed` is not in the file: the candidates that were attached when the
\* record last entered "verified".
Record ==
  [ identity   : Identities,
    status     : KNOWN,
    candidates : SUBSET Candidates,
    history    : Seq(KNOWN),
    passed     : SUBSET Candidates ]

ASSUME NoRecordAssumption == Nothing \notin Record

CampaignInit ==
  /\ disk = Nothing
  /\ mine = [e \in Editors |-> Nothing]

---------------------------------------------------------------------------
\* campaign.new and the save of `campaign init`, over whatever is there, a
\* campaign of the same identity included.
New(id) ==
  [ identity |-> id, status |-> "prepared", candidates |-> {},
    history |-> << "prepared" >>, passed |-> {} ]

Create(e, id) ==
  /\ mine[e] = Nothing
  /\ disk' = New(id)
  /\ UNCHANGED mine

Load(e) ==
  /\ disk # Nothing
  /\ mine[e] = Nothing
  /\ mine' = [mine EXCEPT ![e] = disk]
  /\ UNCHANGED disk

\* An edit refused by transition or add_candidate ends the command.
GiveUp(e) ==
  /\ mine[e] # Nothing
  /\ mine' = [mine EXCEPT ![e] = Nothing]
  /\ UNCHANGED disk

\* campaign.transition
Transition(record, target) ==
  [ record EXCEPT !.status = target,
                  !.history = Append(record.history, target),
                  !.passed = IF target = "verified" THEN record.candidates
                             ELSE record.passed ]

\* campaign.save of an edited record.
Save(e, record) ==
  /\ disk' = record
  /\ mine' = [mine EXCEPT ![e] = Nothing]

Move(e, target) ==
  /\ mine[e] # Nothing
  /\ target \in TRANSITIONS[mine[e].status]
  /\ Len(mine[e].history) < MaxHistory
  /\ Save(e, Transition(mine[e], target))

\* Mutation: a candidate may be attached at any time before the end.
MutantAddCandidate(e, candidate) ==
  /\ mine[e] # Nothing
  /\ mine[e].status \notin TERMINAL
  /\ Cardinality(mine[e].candidates) < MaxCandidates
  /\ candidate \notin mine[e].candidates
  /\ Save(e, [mine[e] EXCEPT !.candidates = @ \cup {candidate}])

\* campaign.add_candidate
AddCandidate(e, candidate) ==
  /\ mine[e] # Nothing
  /\ mine[e].status \in {"running", "candidate_ready"}
  /\ Cardinality(mine[e].candidates) < MaxCandidates
  /\ candidate \notin mine[e].candidates
  /\ Save(e, [mine[e] EXCEPT !.candidates = @ \cup {candidate}])

CampaignNext ==
  \E e \in Editors :
    \/ \E id \in Identities : Create(e, id)
    \/ Load(e)
    \/ GiveUp(e)
    \/ \E target \in KNOWN : Move(e, target)
    \/ \E candidate \in Candidates : AddCandidate(e, candidate)

CampaignSpec == CampaignInit /\ [][CampaignNext]_campaignVars

---------------------------------------------------------------------------
CampaignTypeOK ==
  /\ disk \in Record \cup {Nothing}
  /\ mine \in [Editors -> Record \cup {Nothing}]

\* "A benchmark or an agent must not skip verified", however editors interleave:
\* a promoted campaign was verified in the step before, with every candidate
\* that it holds already attached.
PromotedIsVerified ==
  disk # Nothing /\ disk.status = "promoted" =>
    LET n == Len(disk.history) IN
    /\ n > 1 /\ disk.history[n - 1] = "verified"
    /\ disk.candidates = disk.passed

\* The budget holds on disk even when editors overwrite each other.
BudgetKept ==
  disk # Nothing => Cardinality(disk.candidates) <= MaxCandidates
===========================================================================
