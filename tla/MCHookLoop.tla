---------------------------- MODULE MCHookLoop -----------------------------
(* A small instance of HookLoop: two upstreams, two edit sets, one of which *)
(* finds no anchor in the second upstream, two builds.                      *)
EXTENDS HookLoop, TLC

CONSTANTS u1, u2, e1, e2

MCAnchored == {<<u1, e1>>, <<u1, e2>>, <<u2, e2>>}

\* Bound: of the changes from outside, at most three in one behaviour.
FewDisturbances == moves + faults + edits <= 3

\* Bound: once a session is recorded, one build at a time runs beside it.
OneBuildBeside == session # None => \A a, b \in Builders :
                    builder[a].pc # "idle" /\ builder[b].pc # "idle" => a = b

Symmetry == Permutations(Builders) \cup Permutations(Plans)
=============================================================================
