----------------------------- MODULE Lifecycle -----------------------------
(***************************************************************************)
(* tools/k3/lifecycle.py: what a task.json says about starting a loop.     *)
(*                                                                         *)
(* A task is the record of the fields the gates read: its status, the      *)
(* status of its workload and of its optimization, the base commit, what   *)
(* it declares of a patch and an evidence manifest (patch_file,            *)
(* evidence_manifest), and the hash it records for the patch, or None.     *)
(***************************************************************************)
CONSTANT None   \* no file, no commit, no command, nothing recorded

STARTABLE == {"prepared", "ready", "candidate_running", "in_progress"}
TERMINAL == {"accepted", "delivered", "rejected", "closed"}
HELD == {"paused", "blocked"}
VERIFIED == {"candidate_verified"}
KNOWN == {"scaffolded"} \cup STARTABLE \cup TERMINAL \cup HELD \cup VERIFIED

\* An allow-list: a status nobody knows blocks like one that is known to.
start_blockers(task) ==
  {reason \in {"status", "workload", "optimization"} :
     \/ reason = "status" /\ task.status \notin STARTABLE
     \/ reason = "workload" /\ task.workload # "resolved"
     \/ reason = "optimization" /\ task.optimization = "accepted"}

\* What the reports say of a task besides.
describe(task) == [status |-> task.status,
                   terminal |-> task.status \in TERMINAL,
                   blockers |-> start_blockers(task)]
=============================================================================
