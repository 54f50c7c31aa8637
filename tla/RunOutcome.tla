----------------------------- MODULE RunOutcome -----------------------------
(***************************************************************************)
(* What docs/runner-interface.md promises of one detached run, with no     *)
(* supervisor, files or processes in sight: the run ends in at most one    *)
(* outcome, the outcome never changes, and nobody who asks is told of an   *)
(* end other than that one.  "unknown" is an answer too: it is given when  *)
(* the run was lost, to somebody who asked before the run was known, or to *)
(* somebody who could not look at its process.                             *)
(***************************************************************************)

CONSTANT Readers

VARIABLES
  outcome,  \* how the run ended
  known,    \* the start has returned and the run is registered
  asked,    \* asked[r]: r has an open question, and can vouch for the run
  told      \* told[r]: the last answer r got

vars == << outcome, known, asked, told >>

Ends == {"completed", "failed", "cancelled"}

Init ==
  /\ outcome = "pending"
  /\ known = FALSE
  /\ asked = [r \in Readers |-> "no"]
  /\ told = [r \in Readers |-> "none"]

Register ==
  /\ ~known
  /\ known' = TRUE
  /\ UNCHANGED << outcome, asked, told >>

Settle ==
  /\ outcome = "pending"
  /\ outcome' \in Ends \cup {"lost"}
  /\ UNCHANGED << known, asked, told >>

Ask(r) ==
  /\ asked[r] = "no"
  /\ asked' = [asked EXCEPT ![r] = IF known THEN "vouched" ELSE "unsure"]
  /\ told' = [told EXCEPT ![r] = "none"]
  /\ UNCHANGED << outcome, known >>

Doubt(r) ==
  /\ asked[r] = "vouched"
  /\ asked' = [asked EXCEPT ![r] = "unsure"]
  /\ UNCHANGED << outcome, known, told >>

MayTell(r, answer) ==
  \/ answer = "live"
  \/ answer \in Ends /\ answer = outcome
  \/ answer = "unknown" /\ (outcome = "lost" \/ asked[r] = "unsure")

Tell(r) ==
  /\ asked[r] # "no"
  /\ \E answer \in Ends \cup {"live", "unknown"} :
       /\ MayTell(r, answer)
       /\ told' = [told EXCEPT ![r] = answer]
  /\ asked' = [asked EXCEPT ![r] = "no"]
  /\ UNCHANGED << outcome, known >>

Next == Register \/ Settle \/ \E r \in Readers : Ask(r) \/ Doubt(r) \/ Tell(r)

Spec == Init /\ [][Next]_vars
===========================================================================
