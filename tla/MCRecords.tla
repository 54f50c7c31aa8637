------------------------------ MODULE MCRecords ------------------------------
(***************************************************************************)
(* The two records that several commands write without a lock, for TLC:    *)
(* the campaign file and the record of a prepared workspace.  They share   *)
(* no file, so a behaviour is of the one or of the other kind.             *)
(***************************************************************************)
EXTENDS Campaign, Workspace, TLC

VARIABLE kind

\* Editors, identities and candidates are interchangeable.
Alike ==
  Permutations(Editors) \cup Permutations(Identities) \cup Permutations(Candidates)

\* Of the other kind nothing is there: which base commit it would have had makes
\* no difference.
MCInit == /\ CampaignInit /\ WsInit
          /\ \/ kind = "campaign" /\ base = CHOOSE c \in Commits : TRUE
             \/ kind = "workspace"

MCNext ==
  \/ kind = "campaign" /\ CampaignNext /\ UNCHANGED <<wsVars, kind>>
  \/ kind = "workspace" /\ WsNext /\ UNCHANGED <<campaignVars, kind>>

MCSpec == MCInit /\ [][MCNext]_<<campaignVars, wsVars, kind>>
=============================================================================
