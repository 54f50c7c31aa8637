---------------------------- MODULE EvidenceStore ----------------------------
(***************************************************************************)
(* What the baseline cache owes the precision diagnosis, with no files,    *)
(* locks or crashes in sight: a store that holds, for one identity at a    *)
(* time, the evidence of each trial whole or not at all.  Evidence enters  *)
(* in one step and may be lost at any moment; a run that looks a trial up  *)
(* is given what is stored for it, and only under the identity it asked    *)
(* for.                                                                    *)
(***************************************************************************)

CONSTANTS
  Runs,      \* diagnoses
  Trials,    \* trial numbers
  Ids,       \* identities of source, workload, harness and runtime
  None       \* nothing asked, stored or held

VARIABLES
  asked,     \* asked[r]: the identity run r works under
  store,     \* store[t]: the evidence stored for trial t
  held       \* held[r]: the evidence run r was given and is working with

vars == << asked, store, held >>

Evidence == [run : Runs, trial : Trials, id : Ids]

Init ==
  /\ asked = [r \in Runs |-> None]
  /\ store = [t \in Trials |-> None]
  /\ held = [r \in Runs |-> None]

Ask(r) ==
  /\ asked[r] = None
  /\ \E id \in Ids : asked' = [asked EXCEPT ![r] = id]
  /\ UNCHANGED << store, held >>

Record(t) ==
  /\ UNCHANGED << asked, held >>
  /\ store[t] = None
  /\ store'[t] \in Evidence
  /\ store'[t].trial = t
  /\ \A other \in Trials : store[other] # None => store[other].id = store'[t].id
  /\ store' = [store EXCEPT ![t] = store'[t]]

Forget(t) ==
  /\ UNCHANGED << asked, held >>
  /\ store' = [store EXCEPT ![t] = None]

LookUp(r, t) ==
  /\ held[r] = None
  /\ store[t] # None
  /\ store[t].id = asked[r]
  /\ held' = [held EXCEPT ![r] = store[t]]
  /\ UNCHANGED << asked, store >>

PutDown(r) ==
  /\ held' = [held EXCEPT ![r] = None]
  /\ UNCHANGED << asked, store >>

Next ==
  \/ \E t \in Trials : Record(t) \/ Forget(t)
  \/ \E r \in Runs : Ask(r) \/ PutDown(r) \/ \E t \in Trials : LookUp(r, t)

Spec == Init /\ [][Next]_vars
===========================================================================
