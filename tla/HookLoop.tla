----------------------------- MODULE HookLoop ------------------------------
(***************************************************************************)
(* One agent session under the hooks of the plugin it was given.           *)
(*                                                                         *)
(* `agent start` resolves the plugin directory and freezes the policy and  *)
(* the digests of the plan into the session's environment; `agent resume`  *)
(* takes both from the session record.  The writer edits and stops; every  *)
(* stop runs the stop hook: the plan freeze guard of the overlay, the      *)
(* commit gate, the summary review, the code review.  Meanwhile anybody    *)
(* may change the plan or its snapshot, and the store of builds goes on.   *)
(*                                                                         *)
(* The stop hook itself belongs to the pinned plugin, which is not in this *)
(* repository: its order is taken from the anchors of the overlay's edits  *)
(* and from tests/test_hook_chain.py.  The guards are the overlay's own.   *)
(***************************************************************************)
EXTENDS Overlay

CONSTANTS Plans,     \* contents of the plan
          MaxEdits   \* bound: changes of the plan or its snapshot

ASSUME PlansAssumption == None \notin Plans /\ Plans # {}

VARIABLES plan,      \* plan.md and plan-snapshot.md of the control directory
          dirty,     \* uncommitted work in the candidate
          session,   \* the recorded session and its loop
          review,    \* the last code review of the loop
          edits      \* how often the plan or its snapshot were changed

loopVars == <<plan, dirty, session, review, edits>>
vars == <<upstream, adapter, enabled, builds, pointer, builder, moves, faults,
          plan, dirty, session, review, edits>>

Copies == [live: Plans \cup {None}, snapshot: Plans \cup {None}]
Verdicts == {"clean", "findings", "interrupted"}

\* `began`, `sound` and `saw` are no state of the program: the plan the loop was
\* started with, whether every hook ran from an undamaged plugin, and the plan
\* the running hook's guard has read.
Session == [running: BOOLEAN, dir: Fingerprints \cup {Pinned}, noCommit: BOOLEAN,
            env: Copies, phase: {"round", "review", "finalize", "complete"},
            hook: {"none", "guarded", "gated", "reviewing"},
            began: Plans \cup {None}, sound: BOOLEAN, saw: Copies]

Review == [verdict: Verdicts, target: {"uncommitted", "base"}, read: Copies]

ASSUME NoRecordAssumption == None \notin Session /\ None \notin Review

Init ==
  /\ StoreInit
  /\ \E p \in Plans : plan = [live |-> p, snapshot |-> p]
  /\ dirty = FALSE
  /\ session = None
  /\ review = None
  /\ edits = 0

-----------------------------------------------------------------------------
(* k3-no-commit.sh, as the session's environment drives it *)

\* The hooks the session runs are those of an undamaged overlay.
Overlaid == /\ session.dir # Pinned
            /\ builds[session.dir] # None
            /\ \A f \in Files : builds[session.dir].plugin[f] # Damaged

\* A frozen plan is mandatory under the policy: both digests, and equal.
k3_no_commit_config_violation ==
  session.noCommit /\ (\/ session.env.live = None
                       \/ session.env.snapshot = None
                       \/ session.env.live # session.env.snapshot)

k3_plan_freeze_violation ==
  \/ k3_no_commit_config_violation
  \/ session.env.live # None /\ plan.live # session.env.live
  \/ session.env.snapshot # None /\ plan.snapshot # session.env.snapshot

\* k3_filter_git_status returns nothing: the commit gate is waived.
Waived == Overlaid /\ session.noCommit /\ ~k3_no_commit_config_violation

\* What `codex review` is pointed at.
ReviewTarget == IF Overlaid /\ session.noCommit THEN "uncommitted" ELSE "base"

\* No finding is a pass; under the overlay, only if the review ended.
Passes(verdict) ==
  /\ verdict # "findings"
  /\ Overlaid => verdict # "interrupted"

-----------------------------------------------------------------------------
(* agent start, stop, resume *)

\* plan resolves the plugin and freezes the environment; the tree is clean.
AgentStart ==
  /\ session # None => ~session.running
  /\ plan.live # None
  /\ ~dirty
  /\ \E dir \in Resolved :
       session' = [running |-> TRUE, dir |-> dir, noCommit |-> dir # Pinned, env |-> plan,
                   phase |-> "round", hook |-> "none", began |-> plan.live,
                   sound |-> TRUE, saw |-> plan]
  /\ review' = None
  /\ UNCHANGED <<storeVars, plan, dirty, edits>>

\* Stopped or dead, in the middle of a hook or not.
AgentEnds ==
  /\ session # None /\ session.running
  /\ session' = [session EXCEPT !.running = FALSE, !.hook = "none"]
  /\ UNCHANGED <<storeVars, plan, dirty, review, edits>>

Resumable == /\ session # None /\ ~session.running
             /\ session.phase # "complete"
             /\ session.dir # Pinned => builds[session.dir] # None

\* Mutant: the environment is computed again instead of read from the record.
MutantResume ==
  /\ Resumable
  /\ session' = [session EXCEPT !.running = TRUE, !.env = plan]
  /\ UNCHANGED <<storeVars, plan, dirty, review, edits>>

\* The plugin directory must be there; that it no longer verifies or is not the
\* configured one is reported as drift and does not stop it.
AgentResume ==
  /\ Resumable
  /\ session' = [session EXCEPT !.running = TRUE]
  /\ UNCHANGED <<storeVars, plan, dirty, review, edits>>

-----------------------------------------------------------------------------
(* The writer and its stop hook *)

AtWork == session # None /\ session.running /\ session.hook = "none"
InHook(pc) == session # None /\ session.running /\ session.hook = pc

\* The writer edits the candidate, or commits in spite of its instructions.
Work ==
  /\ AtWork
  /\ dirty' = ~dirty
  /\ UNCHANGED <<storeVars, plan, session, review, edits>>

\* The writer tries to stop.  A violation blocks it, whatever the phase.
HookGuard ==
  /\ AtWork
  /\ session.phase # "complete"
  /\ Overlaid => ~k3_plan_freeze_violation
  /\ session' = [session EXCEPT !.hook = "guarded", !.saw = plan,
                                !.sound = @ /\ (Overlaid \/ session.dir = Pinned)]
  /\ UNCHANGED <<storeVars, plan, dirty, review, edits>>

\* The commit gate; the hook skips it in the later phases in some of its paths.
HookCommitGate ==
  /\ InHook("guarded")
  /\ \/ /\ dirty /\ ~Waived
        /\ session' = [session EXCEPT !.hook = "none"]
     \/ /\ ~dirty \/ Waived \/ session.phase # "round"
        /\ session' = [session EXCEPT !.hook = "gated"]
  /\ UNCHANGED <<storeVars, plan, dirty, review, edits>>

\* The summary review is not complete, or the code review follows at once.
HookSummary ==
  /\ InHook("gated")
  /\ session.phase = "round"
  /\ \/ session' = [session EXCEPT !.hook = "none"]
     \/ session' = [session EXCEPT !.hook = "reviewing", !.phase = "review"]
  /\ UNCHANGED <<storeVars, plan, dirty, review, edits>>

HookReviewAgain ==
  /\ InHook("gated")
  /\ session.phase = "review"
  /\ session' = [session EXCEPT !.hook = "reviewing"]
  /\ UNCHANGED <<storeVars, plan, dirty, review, edits>>

HookReview ==
  /\ InHook("reviewing")
  /\ \E verdict \in Verdicts :
       /\ review' = [verdict |-> verdict, target |-> ReviewTarget, read |-> session.saw]
       /\ session' = [session EXCEPT !.hook = "none",
                        !.phase = IF Passes(verdict) THEN "finalize" ELSE "review",
                        !.sound = @ /\ (Overlaid \/ session.dir = Pinned)]
  /\ UNCHANGED <<storeVars, plan, dirty, edits>>

HookComplete ==
  /\ InHook("gated")
  /\ session.phase = "finalize"
  /\ session' = [session EXCEPT !.hook = "none", !.phase = "complete"]
  /\ UNCHANGED <<storeVars, plan, dirty, review, edits>>

HookStep == \/ HookGuard \/ HookCommitGate \/ HookSummary \/ HookReviewAgain
            \/ HookReview \/ HookComplete

\* Anybody writes or removes the plan or its snapshot, the writer's shell
\* included: the validators stop its Write and Edit tools only.
EditPlan(file) ==
  /\ edits < MaxEdits
  /\ edits' = edits + 1
  /\ \E content \in (Plans \cup {None}) \ {plan[file]} :
       plan' = [plan EXCEPT ![file] = content]
  /\ UNCHANGED <<storeVars, dirty, session, review>>

Next ==
  \/ StoreNext /\ UNCHANGED loopVars
  \/ AgentStart \/ AgentEnds \/ AgentResume \/ Work \/ HookStep
  \/ \E file \in {"live", "snapshot"} : EditPlan(file)

Spec == Init /\ [][Next]_vars

-----------------------------------------------------------------------------
TypeOK ==
  /\ StoreTypeOK
  /\ plan \in Copies
  /\ dirty \in BOOLEAN
  /\ session \in Session \cup {None}
  /\ review \in Review \cup {None}
  /\ edits \in Nat

\* A loop under the policy that is past its review passed a review that ended
\* without findings, of the uncommitted work, in a hook that had found the plan
\* and its snapshot as they were when the loop was started: not a drifted plan
\* frozen again by a resume, not an unanchored review, not an interrupted one
\* ("An unanchored review is never allowed to proceed").  Hooks of a plugin
\* somebody damaged after it was verified are excepted.
PassedReviewIsAnchored ==
  session # None /\ session.noCommit /\ session.sound
    /\ session.phase \in {"finalize", "complete"} =>
      /\ review # None
      /\ review.verdict = "clean"
      /\ review.target = "uncommitted"
      /\ review.read = [live |-> session.began, snapshot |-> session.began]
=============================================================================
