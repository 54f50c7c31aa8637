------------------------- MODULE FlowSession_proofs --------------------------
(***************************************************************************)
(* FlowSession: a flow recorded as stopped is dead, and a settled flow is  *)
(* alone; CleaningEpoch: evidence survives the cleaner.  For any number of *)
(* commands at a time, of faults and of records.                           *)
(***************************************************************************)
EXTENDS CleaningEpoch, TLAPS

\* A start that has not spawned anything, and a stop that has a session in hand.
BeforeSpawn == {"idle", "opening", "judging", "gating", "ready"}
AfterMatch == {"seen", "matched", "waiting", "expired", "killing", "ended"}
InHand == AfterMatch \cup {"loaded"}

\* What the program points imply.  A flow never comes back, so a stop may rely
\* on the session it loaded long ago.
Control ==
  \A c \in Cli :
    /\ at[c] \in BeforeSpawn => flow[c] = "none"
    /\ at[c] \in InHand => held[c] \in SessionRecord
    /\ at[c] \in AfterMatch => flow[held[c].by] # "none"
    /\ at[c] = "ended" => flow[held[c].by] = "gone"

IInv == TypeOK /\ Control /\ StoppedFlowIsDead

\* The invariant at the start.
LEMMA IInvInit == Init => IInv
<1> SUFFICES ASSUME Init PROVE IInv
  OBVIOUS
<1>1. TypeOK
  <2>1. MaxFaults \in Nat
    BY FlowAssumption
  <2>2. at \in [Cli -> Points] /\ faults \in 0..MaxFaults
    BY <2>1 DEF Init, Points
  <2>3. QED
    BY <2>2 DEF Init, TypeOK
<1>2. Control
  BY DEF Init, Control, BeforeSpawn, InHand, AfterMatch
<1>3. StoppedFlowIsDead
  BY DEF Init, StoppedFlowIsDead
<1>4. QED
  BY <1>1, <1>2, <1>3 DEF IInv

\* A step that leaves flows, sessions and what commands hold alone.
LEMMA MoveKeeps ==
  ASSUME IInv, NEW c \in Cli, NEW from, NEW to \in Points, Step(c, from, to),
         UNCHANGED << locals, world, session, settled >>,
         to \in BeforeSpawn => from \in BeforeSpawn,
         to \in InHand => from \in InHand,
         to \in AfterMatch => from \in AfterMatch \/ flow[held[c].by] # "none",
         to = "ended" => flow[held[c].by] = "gone",
         rival' \in BOOLEAN
  PROVE  IInv'
<1>1. at' = [at EXCEPT ![c] = to] /\ at \in [Cli -> Points] /\ at[c] = from
  BY DEF Step, IInv, TypeOK
<1>2. TypeOK'
  BY <1>1 DEF IInv, TypeOK, Step, locals, world, troubles
<1>3. Control'
  <2> SUFFICES ASSUME NEW d \in Cli
               PROVE  /\ at'[d] \in BeforeSpawn => flow[d] = "none"
                      /\ at'[d] \in InHand => held[d] \in SessionRecord
                      /\ at'[d] \in AfterMatch => flow[held[d].by] # "none"
                      /\ at'[d] = "ended" => flow[held[d].by] = "gone"
    BY DEF Control, locals, world
  <2>1. CASE d = c
    BY <1>1, <2>1 DEF IInv, Control
  <2>2. CASE d # c
    BY <1>1, <2>2 DEF IInv, Control
  <2>3. QED
    BY <2>1, <2>2
<1>4. StoppedFlowIsDead'
  BY DEF IInv, StoppedFlowIsDead, world
<1>5. QED
  BY <1>2, <1>3, <1>4 DEF IInv

\* And in each step: a command begins.
LEMMA BeginKeeps ==
  ASSUME IInv, NEW c \in Cli, Begin(c), UNCHANGED rival
  PROVE  IInv'
<1>1. PICK o \in {"start", "stop"}, p \in {"opening", "loading"} :
        op' = [op EXCEPT ![c] = o] /\ at' = [at EXCEPT ![c] = p]
  BY DEF Begin
<1>2. TypeOK'
  BY <1>1 DEF Begin, IInv, TypeOK, world, troubles, Points
<1>3. Control'
  <2> SUFFICES ASSUME NEW d \in Cli
               PROVE  /\ at'[d] \in BeforeSpawn => flow[d] = "none"
                      /\ at'[d] \in InHand => held[d] \in SessionRecord
                      /\ at'[d] \in AfterMatch => flow[held[d].by] # "none"
                      /\ at'[d] = "ended" => flow[held[d].by] = "gone"
    BY DEF Control, Begin, world
  <2>1. CASE d = c
    BY <1>1, <2>1 DEF Begin, IInv, TypeOK, Control, BeforeSpawn, InHand, AfterMatch
  <2>2. CASE d # c
    BY <1>1, <2>2 DEF IInv, TypeOK, Control
  <2>3. QED
    BY <2>1, <2>2
<1>4. StoppedFlowIsDead'
  BY DEF Begin, IInv, StoppedFlowIsDead, world
<1>5. QED
  BY <1>2, <1>3, <1>4 DEF IInv

---------------------------------------------------------------------------
\* One lemma per group of actions.

\* Reads the session.
LEMMA LoadKeeps ==
  ASSUME IInv, NEW c \in Cli, StartLoads(c) \/ StopLoads(c), UNCHANGED rival
  PROVE  IInv'
<1>1. PICK p \in {"judging", "loaded", "done"} :
        /\ at' = [at EXCEPT ![c] = p]
        /\ held' = [held EXCEPT ![c] = session]
        /\ p = "loaded" => session \in SessionRecord
  BY DEF StartLoads, StopLoads, Step, IInv, TypeOK
<1>2. /\ UNCHANGED << op, ident, world, session, settled, troubles >>
  BY DEF StartLoads, StopLoads, Step
<1>3. TypeOK'
  BY <1>1, <1>2 DEF IInv, TypeOK, world, troubles, Points
<1>4. Control'
  <2> SUFFICES ASSUME NEW d \in Cli
               PROVE  /\ at'[d] \in BeforeSpawn => flow[d] = "none"
                      /\ at'[d] \in InHand => held'[d] \in SessionRecord
                      /\ at'[d] \in AfterMatch => flow[held'[d].by] # "none"
                      /\ at'[d] = "ended" => flow[held'[d].by] = "gone"
    BY <1>2 DEF Control, world
  <2>0. at \in [Cli -> Points] /\ held \in [Cli -> SessionRecord \cup {None}]
    BY DEF IInv, TypeOK
  <2>1. CASE d = c
    <3>1. at'[d] = p /\ held'[d] = session
      BY <1>1, <2>0, <2>1
    <3>2. p = "judging" => flow[d] = "none"
      BY <1>1, <2>0, <2>1 DEF IInv, Control, StartLoads, StopLoads, Step, BeforeSpawn
    <3>3. QED
      BY <1>1, <3>1, <3>2 DEF BeforeSpawn, InHand, AfterMatch
  <2>2. CASE d # c
    BY <1>1, <2>0, <2>2 DEF IInv, Control
  <2>3. QED
    BY <2>1, <2>2
<1>5. StoppedFlowIsDead'
  BY <1>2 DEF IInv, StoppedFlowIsDead, world
<1>6. QED
  BY <1>3, <1>4, <1>5 DEF IInv

\* Goes on.
LEMMA MovesKeep ==
  ASSUME IInv, NEW c \in Cli, UNCHANGED rival,
         \/ StartJudges(c) \/ Gate(c) \/ SpawnFails(c)
         \/ StopJudges(c) \/ StopMatches(c) \/ Terminate(c) \/ PollEnds(c)
         \/ LooksAgain(c) \/ KillFindsNobody(c)
  PROVE  IInv'
<1>0. /\ rival' \in BOOLEAN
      /\ UNCHANGED << locals, world, session, settled >>
  BY DEF IInv, TypeOK, StartJudges, Gate, SpawnFails, StopJudges, StopMatches, Terminate,
         PollEnds, LooksAgain, KillFindsNobody
<1>1. CASE StartJudges(c) \/ Gate(c) \/ SpawnFails(c)
  <2>1. PICK p \in {"judging", "gating", "ready"}, q \in {"gating", "ready", "done"} :
          Step(c, p, q)
    BY <1>1 DEF StartJudges, Gate, SpawnFails
  <2>2. QED
    BY <1>0, <2>1, MoveKeeps DEF BeforeSpawn, InHand, AfterMatch, Points, PastCheck
<1>2. CASE StopJudges(c)
  <2>1. CASE SessionRunning(held[c]) /\ Step(c, "loaded", "seen")
    <3>1. flow[held[c].by] # "none"
      BY <2>1 DEF SessionRunning, Matches
    <3>2. QED
      BY <1>0, <2>1, <3>1, MoveKeeps DEF BeforeSpawn, InHand, AfterMatch, Points
  <2>2. CASE Step(c, "loaded", "done")
    BY <1>0, <2>2, MoveKeeps DEF BeforeSpawn, InHand, AfterMatch, Points
  <2>3. QED
    BY <1>2, <2>1, <2>2 DEF StopJudges
<1>3. CASE StopMatches(c) \/ Terminate(c) \/ PollEnds(c) \/ KillFindsNobody(c)
  <2>1. PICK p \in {"seen", "matched", "waiting", "killing"},
             q \in {"matched", "waiting", "expired", "done"} :
          Step(c, p, q)
    BY <1>3 DEF StopMatches, Terminate, PollEnds, KillFindsNobody
  <2>2. QED
    BY <1>0, <2>1, MoveKeeps DEF BeforeSpawn, InHand, AfterMatch, Points
<1>4. CASE LooksAgain(c)
  <2>1. CASE Step(c, "expired", "killing")
    BY <1>0, <2>1, MoveKeeps DEF BeforeSpawn, InHand, AfterMatch, Points
  <2>2. CASE Step(c, "expired", "ended") /\ flow[held[c].by] # "alive"
    <3>1. at[c] \in AfterMatch /\ at[c] \in InHand
      BY <2>2 DEF Step, AfterMatch, InHand
    <3>2. flow[held[c].by] # "none" /\ held[c].by \in Cli
      BY <3>1 DEF IInv, Control, SessionRecord
    <3>3. flow[held[c].by] = "gone"
      BY <2>2, <3>2 DEF IInv, TypeOK
    <3>4. QED
      BY <1>0, <2>2, <3>3, MoveKeeps DEF BeforeSpawn, InHand, AfterMatch, Points
  <2>3. QED
    BY <1>4, <2>1, <2>2 DEF LooksAgain
<1>5. QED
  BY <1>1, <1>2, <1>3, <1>4

\* A flow that has started only ever goes.
LEMMA FlowChangeKeeps ==
  ASSUME IInv, NEW h \in Cli, flow[h] # "none",
         flow' = [flow EXCEPT ![h] = "gone"], UNCHANGED << op, ident, held, session >>,
         NEW c \in Cli, NEW q \in {"ended"} \cup {at[c]},
         at' = [at EXCEPT ![c] = q],
         q # at[c] => at[c] = "killing" /\ h = held[c].by,
         TypeOK'
  PROVE  IInv'
<1>0. /\ at \in [Cli -> Points]
      /\ flow \in [Cli -> {"none", "alive", "gone"}]
      /\ session \in SessionRecord \cup {None}
  BY DEF IInv, TypeOK
<1>1. \A u \in Cli : flow'[u] = IF u = h THEN "gone" ELSE flow[u]
  BY <1>0
<1>2. Control'
  <2> SUFFICES ASSUME NEW d \in Cli
               PROVE  /\ at'[d] \in BeforeSpawn => flow'[d] = "none"
                      /\ at'[d] \in InHand => held[d] \in SessionRecord
                      /\ at'[d] \in AfterMatch => flow'[held[d].by] # "none"
                      /\ at'[d] = "ended" => flow'[held[d].by] = "gone"
    BY DEF Control
  <2>1. held[d] \in SessionRecord => held[d].by \in Cli
    BY DEF SessionRecord
  <2>2. /\ at[d] \in BeforeSpawn => flow[d] = "none"
        /\ at[d] \in InHand => held[d] \in SessionRecord
        /\ at[d] \in AfterMatch => flow[held[d].by] # "none"
        /\ at[d] = "ended" => flow[held[d].by] = "gone"
    BY DEF IInv, Control
  <2>3. CASE at'[d] = at[d]
    BY <1>1, <2>1, <2>2, <2>3 DEF InHand, AfterMatch
  <2>4. CASE at'[d] # at[d]
    <3>1. d = c /\ at[d] = "killing" /\ at'[d] = "ended" /\ h = held[d].by
      BY <1>0, <2>4
    <3>2. QED
      BY <1>1, <2>1, <2>2, <3>1 DEF BeforeSpawn, InHand, AfterMatch
  <2>5. QED
    BY <2>3, <2>4
<1>3. StoppedFlowIsDead'
  BY <1>0, <1>1 DEF IInv, StoppedFlowIsDead, SessionRecord
<1>4. QED
  BY <1>2, <1>3 DEF IInv

\* Kills.
LEMMA KillKeeps ==
  ASSUME IInv, NEW c \in Cli, Kill(c), UNCHANGED rival
  PROVE  IInv'
<1>1. /\ at[c] = "killing"
      /\ at' = [at EXCEPT ![c] = "ended"]
      /\ flow' = [flow EXCEPT ![held[c].by] = "gone"]
      /\ UNCHANGED << op, ident, held, session >>
  BY DEF Kill, Step, locals
<1>2. held[c].by \in Cli /\ flow[held[c].by] # "none"
  BY <1>1 DEF IInv, Control, InHand, AfterMatch, SessionRecord
<1>3. TypeOK'
  BY <1>1, <1>2 DEF Kill, Step, IInv, TypeOK, troubles, Points
<1>4. QED
  BY <1>1, <1>2, <1>3, FlowChangeKeeps

\* A flow ends.
LEMMA FlowExitsKeeps ==
  ASSUME IInv, NEW c \in Cli, FlowExits(c), UNCHANGED rival
  PROVE  IInv'
<1>1. /\ flow[c] # "none"
      /\ flow' = [flow EXCEPT ![c] = "gone"]
      /\ UNCHANGED << op, ident, held, session >>
  BY DEF FlowExits, locals
<1>2. at' = [at EXCEPT ![c] = at[c]]
  BY DEF FlowExits, IInv, TypeOK
<1>3. TypeOK'
  BY <1>1 DEF FlowExits, IInv, TypeOK, troubles
<1>4. QED
  BY <1>1, <1>2, <1>3, FlowChangeKeeps

\* A flow is spawned.
LEMMA SpawnKeeps ==
  ASSUME IInv, NEW c \in Cli, Spawn(c), UNCHANGED rival
  PROVE  IInv'
<1>0. /\ at \in [Cli -> Points]
      /\ flow \in [Cli -> {"none", "alive", "gone"}]
      /\ session \in SessionRecord \cup {None}
  BY DEF IInv, TypeOK
<1>1. /\ at[c] = "ready" /\ at' = [at EXCEPT ![c] = "spawned"]
      /\ flow' = [flow EXCEPT ![c] = "alive"]
      /\ UNCHANGED << held, session >>
  BY DEF Spawn, Step, locals
<1>2. flow[c] = "none"
  BY <1>1 DEF IInv, Control, BeforeSpawn
<1>3. TypeOK'
  BY <1>0, <1>1 DEF Spawn, Step, IInv, TypeOK, locals, troubles, Points, PastCheck
<1>4. Control'
  <2> SUFFICES ASSUME NEW d \in Cli
               PROVE  /\ at'[d] \in BeforeSpawn => flow'[d] = "none"
                      /\ at'[d] \in InHand => held[d] \in SessionRecord
                      /\ at'[d] \in AfterMatch => flow'[held[d].by] # "none"
                      /\ at'[d] = "ended" => flow'[held[d].by] = "gone"
    BY <1>1 DEF Control
  <2>1. CASE d = c
    BY <1>0, <1>1, <2>1 DEF BeforeSpawn, InHand, AfterMatch
  <2>2. CASE d # c
    BY <1>0, <1>1, <1>2, <2>2 DEF IInv, Control, InHand, AfterMatch, SessionRecord
  <2>3. QED
    BY <2>1, <2>2
<1>5. StoppedFlowIsDead'
  BY <1>0, <1>1, <1>2 DEF IInv, StoppedFlowIsDead, SessionRecord
<1>6. QED
  BY <1>3, <1>4, <1>5 DEF IInv

\* And recorded.
LEMMA RecordKeeps ==
  ASSUME IInv, NEW c \in Cli, UNCHANGED rival,
         CaptureIdentity(c) \/ WriteSession(c) \/ WriteStopped(c)
  PROVE  IInv'
<1>0. /\ at \in [Cli -> Points]
      /\ ident \in [Cli -> BOOLEAN]
      /\ session \in SessionRecord \cup {None}
      /\ settled \subseteq Cli
  BY DEF IInv, TypeOK
<1>1. PICK p \in {"spawned", "captured", "ended"}, q \in {"captured", "done"} :
        at[c] = p /\ at' = [at EXCEPT ![c] = q]
  BY DEF CaptureIdentity, WriteSession, WriteStopped, Step
<1>2. UNCHANGED << op, held, world, troubles >>
  BY DEF CaptureIdentity, WriteSession, WriteStopped, Step, locals, world
<1>3. /\ ident' \in [Cli -> BOOLEAN]
      /\ settled' \subseteq Cli
      /\ session' # session =>
           /\ session' \in SessionRecord
           /\ session'.state = "stopped" => flow[session'.by] = "gone"
  <2>1. CASE CaptureIdentity(c)
    BY <1>0, <2>1 DEF CaptureIdentity
  <2>2. CASE WriteSession(c)
    BY <1>0, <2>2 DEF WriteSession, SessionRecord, locals
  <2>3. CASE WriteStopped(c)
    <3>1. held[c] \in SessionRecord /\ flow[held[c].by] = "gone"
      BY <2>3 DEF WriteStopped, Step, IInv, Control, InHand, AfterMatch
    <3>2. session' = [held[c] EXCEPT !.state = "stopped"]
      BY <2>3 DEF WriteStopped
    <3>3. session' \in SessionRecord /\ session'.by = held[c].by
      BY <3>1, <3>2 DEF SessionRecord
    <3>4. QED
      BY <1>0, <2>3, <3>1, <3>3 DEF WriteStopped, locals
  <2>4. QED
    BY <2>1, <2>2, <2>3
<1>4. TypeOK'
  BY <1>0, <1>1, <1>2, <1>3 DEF IInv, TypeOK, world, troubles, Points, PastCheck
<1>5. Control'
  BY <1>0, <1>1, <1>2 DEF IInv, Control, world, BeforeSpawn, InHand, AfterMatch
<1>6. StoppedFlowIsDead'
  BY <1>2, <1>3 DEF IInv, StoppedFlowIsDead, world
<1>7. QED
  BY <1>4, <1>5, <1>6 DEF IInv

\* And the rest.
LEMMA RestKeeps ==
  ASSUME IInv,
         \/ vars' = vars
         \/ PsFails \/ PsRecovers \/ RivalMoves
         \/ \E c \in Cli : (Crash(c) \/ AgentsMove(c)) /\ UNCHANGED rival
  PROVE  IInv'
<1>1. UNCHANGED << at, flow, op, ident, held, session >>
  BY DEF vars, PsFails, PsRecovers, RivalMoves, Crash, AgentsMove, locals, world
<1>2. TypeOK'
  <2>1. faults' \in 0..MaxFaults
    <3>1. MaxFaults \in Nat
      BY FlowAssumption
    <3>2. QED
      BY <3>1 DEF vars, PsFails, PsRecovers, RivalMoves, Crash, AgentsMove, troubles,
                  IInv, TypeOK
  <2>2. ps' \in {"up", "down", "back"} /\ crashed' \subseteq Cli /\ settled' \subseteq Cli
    BY DEF vars, PsFails, PsRecovers, RivalMoves, Crash, AgentsMove, troubles, IInv, TypeOK
  <2>3. agents' \in [Cli -> BOOLEAN] /\ rival' \in BOOLEAN
    BY DEF vars, PsFails, PsRecovers, RivalMoves, Crash, AgentsMove, world, IInv, TypeOK
  <2>4. QED
    BY <1>1, <2>1, <2>2, <2>3 DEF IInv, TypeOK
<1>3. Control' /\ StoppedFlowIsDead'
  BY <1>1 DEF IInv, Control, StoppedFlowIsDead
<1>4. QED
  BY <1>2, <1>3 DEF IInv

\* Together: it is inductive.
LEMMA IInvNext == IInv /\ [Next]_vars => IInv'
<1> SUFFICES ASSUME IInv, [Next]_vars PROVE IInv'
  OBVIOUS
<1>1. ASSUME NEW c \in Cli, CliStep(c), UNCHANGED rival
      PROVE  IInv'
  <2>1. CASE Begin(c)
    BY <1>1, <2>1, BeginKeeps
  <2>2. CASE StartStep(c)
    BY <1>1, <2>2, LoadKeeps, MovesKeep, SpawnKeeps, RecordKeeps DEF StartStep
  <2>3. CASE StopStep(c)
    BY <1>1, <2>3, LoadKeeps, MovesKeep, KillKeeps, RecordKeeps DEF StopStep
  <2>4. CASE FlowExits(c)
    BY <1>1, <2>4, FlowExitsKeeps
  <2>5. CASE Crash(c) \/ AgentsMove(c)
    BY <1>1, <2>5, RestKeeps
  <2>6. QED
    BY <1>1, <2>1, <2>2, <2>3, <2>4, <2>5 DEF CliStep
<1>2. QED
  BY <1>1, RestKeeps DEF Next

\* Hence it always holds.
LEMMA Invariance == Spec => []IInv
BY IInvInit, IInvNext, PTL DEF Spec

\* The type invariant, for any number of commands and of faults.
THEOREM TypeCorrect == Spec => []TypeOK
<1>1. IInv => TypeOK
  BY DEF IInv
<1>2. QED
  BY <1>1, Invariance, PTL

\* humanize2.stop: a session on record as stopped has no flow, although the
\* record that is written back was loaded up to a deadline earlier.
THEOREM StoppedIsDead == Spec => []StoppedFlowIsDead
<1>1. IInv => StoppedFlowIsDead
  BY DEF IInv
<1>2. QED
  BY <1>1, Invariance, PTL

---------------------------------------------------------------------------
\* Settled flows.

\* While a settled flow lives, its session is the one on record, `ps` answers,
\* no other start is past its check, and whatever a command has in hand is that
\* session.
Alone(d) ==
  /\ at[d] = "done"
  /\ flow[d] = "alive" =>
       /\ session = [by |-> d, state |-> "running", ident |-> TRUE]
       /\ ps # "down"
       /\ \A c \in Cli : Running(c) =>
            /\ at[c] \notin PastCheck
            /\ at[c] \in InHand \cup {"judging"} => held[c] = session

SettledInv == \A d \in settled : Alone(d)

\* Steps after which no command that runs is past its check or holds another
\* session keep what was settled.
LEMMA AloneKept ==
  ASSUME NEW d \in Cli, Alone(d), at'[d] = "done",
         flow'[d] = "alive" =>
           /\ flow[d] = "alive"
           /\ session' = session
           /\ ps' # "down"
           /\ \A c \in Cli : Running(c)' =>
                /\ at'[c] \notin PastCheck
                /\ at'[c] \in InHand \cup {"judging"} => held'[c] = session
  PROVE  Alone(d)'
  BY DEF Alone

\* A step of one command.
LEMMA StepKeepsAlone ==
  ASSUME IInv, NEW d \in Cli, Alone(d), NEW c \in Cli, NEW q,
         at[c] # "done", at' = [at EXCEPT ![c] = q], crashed' = crashed, ps' = ps,
         flow'[d] = "alive" =>
           /\ flow[d] = "alive"
           /\ session' = session
           /\ q \notin PastCheck \/ at[c] \in PastCheck
           /\ \A u \in Cli \ {c} : held'[u] = held[u]
           /\ q \in InHand \cup {"judging"} => held'[c] = session
  PROVE  Alone(d)'
<1>1. at \in [Cli -> Points]
  BY DEF IInv, TypeOK
<1>2. c # d /\ at'[d] = "done"
  BY <1>1 DEF Alone
<1>3. ASSUME flow'[d] = "alive", NEW u \in Cli, Running(u)'
      PROVE  /\ at'[u] \notin PastCheck
             /\ at'[u] \in InHand \cup {"judging"} => held'[u] = session
  <2>1. flow[d] = "alive"
    BY <1>3
  <2>2. CASE u = c
    <3>1. at'[u] = q
      BY <1>1, <2>2
    <3>2. at[c] \in PastCheck => Running(c)
      BY <1>3, <2>2 DEF Running, PastCheck
    <3>3. at[c] \notin PastCheck
      BY <2>1, <3>2 DEF Alone
    <3>4. QED
      BY <1>3, <2>2, <3>1, <3>3
  <2>3. CASE u # c
    <3>1. at'[u] = at[u] /\ Running(u)
      BY <1>1, <1>3, <2>3 DEF Running
    <3>2. held'[u] = held[u]
      BY <1>3, <2>3
    <3>3. QED
      BY <2>1, <3>1, <3>2 DEF Alone
  <2>4. QED
    BY <2>2, <2>3
<1>4. flow'[d] = "alive" => ps' # "down"
  BY DEF Alone
<1>5. QED
  BY <1>2, <1>3, <1>4, AloneKept

\* A flow recorded in peace stays alone: a start.
LEMMA StartKeepsAlone ==
  ASSUME IInv, NEW d \in Cli, Alone(d), NEW c \in Cli, StartStep(c)
  PROVE  Alone(d)'
<1>0. /\ at \in [Cli -> Points]
      /\ held \in [Cli -> SessionRecord \cup {None}]
      /\ flow \in [Cli -> {"none", "alive", "gone"}]
  BY DEF IInv, TypeOK
<1>1. CASE StartLoads(c)
  <2>1. /\ at[c] = "opening" /\ at' = [at EXCEPT ![c] = "judging"]
        /\ crashed' = crashed /\ ps' = ps
        /\ flow' = flow /\ session' = session
        /\ held' = [held EXCEPT ![c] = session]
    BY <1>1 DEF StartLoads, Step, troubles, world
  <2>2. QED
    BY <1>0, <2>1, StepKeepsAlone DEF PastCheck
<1>2. CASE StartJudges(c)
  <2>1. /\ at[c] = "judging" /\ Running(c)
        /\ crashed' = crashed /\ ps' = ps
        /\ flow' = flow /\ session' = session /\ held' = held
    BY <1>2 DEF StartJudges, Step, Running, troubles, world, locals
  <2>2. flow[d] = "alive" => SessionRunning(held[c])
    <3>1. ASSUME flow[d] = "alive"
          PROVE  /\ held[c] = [by |-> d, state |-> "running", ident |-> TRUE]
                 /\ ps # "down"
      BY <2>1, <3>1 DEF Alone
    <3>2. None # [by |-> d, state |-> "running", ident |-> TRUE]
      <4>1. [by |-> d, state |-> "running", ident |-> TRUE] \in SessionRecord
        BY DEF SessionRecord
      <4>2. QED
        BY <4>1, NoSessionAssumption
    <3>3. QED
      BY <3>1, <3>2 DEF SessionRunning, Matches
  <2>3. PICK q \in {"gating", "done"} :
          at' = [at EXCEPT ![c] = q] /\ (flow[d] = "alive" => q = "done")
    BY <1>2, <2>1, <2>2 DEF StartJudges, Step
  <2>4. QED
    BY <2>1, <2>3, StepKeepsAlone DEF PastCheck, InHand, AfterMatch
<1>3. CASE Gate(c) \/ SpawnFails(c) \/ CaptureIdentity(c) \/ Spawn(c)
  <2>1. PICK q \in {"ready", "spawned", "captured", "done"} :
          /\ at[c] \in PastCheck /\ at' = [at EXCEPT ![c] = q]
          /\ crashed' = crashed /\ ps' = ps
          /\ session' = session /\ held' = held
    BY <1>3 DEF Gate, SpawnFails, CaptureIdentity, Spawn, Step, PastCheck, troubles, locals
  <2>2. flow'[d] = flow[d]
    <3>1. c # d
      BY <2>1 DEF Alone, PastCheck
    <3>2. QED
      BY <1>0, <1>3, <3>1 DEF Gate, SpawnFails, CaptureIdentity, Spawn, world
  <2>3. QED
    BY <2>1, <2>2, StepKeepsAlone DEF PastCheck, InHand, AfterMatch
<1>4. CASE WriteSession(c)
  <2>1. /\ at[c] = "captured" /\ Running(c)
        /\ at' = [at EXCEPT ![c] = "done"]
        /\ crashed' = crashed /\ ps' = ps /\ flow' = flow
    BY <1>4 DEF WriteSession, Step, Running, troubles, world
  <2>2. flow[d] # "alive"
    BY <2>1 DEF Alone, PastCheck
  <2>3. QED
    BY <2>1, <2>2, StepKeepsAlone
<1>5. QED
  BY <1>1, <1>2, <1>3, <1>4 DEF StartStep

\* A stop.
LEMMA StopKeepsAlone ==
  ASSUME IInv, NEW d \in Cli, Alone(d), NEW c \in Cli, StopStep(c)
  PROVE  Alone(d)'
<1>0. /\ at \in [Cli -> Points]
      /\ held \in [Cli -> SessionRecord \cup {None}]
      /\ flow \in [Cli -> {"none", "alive", "gone"}]
  BY DEF IInv, TypeOK
<1>1. CASE StopLoads(c)
  <2>1. PICK q \in {"loaded", "done"} :
          /\ at[c] = "loading" /\ at' = [at EXCEPT ![c] = q]
          /\ crashed' = crashed /\ ps' = ps
          /\ flow' = flow /\ session' = session
          /\ held' = [held EXCEPT ![c] = session]
    BY <1>1 DEF StopLoads, Step, troubles, world
  <2>2. QED
    BY <1>0, <2>1, StepKeepsAlone DEF PastCheck
<1>2. CASE WriteStopped(c)
  <2>1. /\ at[c] = "ended" /\ Running(c)
        /\ at' = [at EXCEPT ![c] = "done"]
        /\ crashed' = crashed /\ ps' = ps /\ flow' = flow
    BY <1>2 DEF WriteStopped, Step, Running, troubles, world
  <2>2. flow[held[c].by] = "gone"
    BY <2>1 DEF IInv, Control
  <2>3. flow[d] # "alive"
    BY <2>1, <2>2 DEF Alone, InHand, AfterMatch
  <2>4. QED
    BY <2>1, <2>3, StepKeepsAlone
<1>3. CASE \/ StopJudges(c) \/ StopMatches(c) \/ Terminate(c) \/ PollEnds(c)
           \/ LooksAgain(c) \/ KillFindsNobody(c) \/ Kill(c)
  <2>1. PICK q \in {"seen", "matched", "waiting", "expired", "killing", "ended", "done"} :
          /\ at[c] \in InHand /\ c \notin crashed
          /\ at' = [at EXCEPT ![c] = q]
          /\ crashed' = crashed /\ ps' = ps
    BY <1>3 DEF StopJudges, StopMatches, Terminate, PollEnds, LooksAgain,
                KillFindsNobody, Kill, Step, InHand, AfterMatch, troubles
  <2>2. session' = session /\ held' = held
    BY <1>3 DEF StopJudges, StopMatches, Terminate, PollEnds, LooksAgain,
                KillFindsNobody, Kill, locals
  <2>3. flow'[d] = "alive" => flow[d] = "alive"
    BY <1>0, <1>3 DEF StopJudges, StopMatches, Terminate, PollEnds,
                      LooksAgain, KillFindsNobody, Kill, world
  <2>4. Running(c)
    BY <2>1 DEF Running, InHand, AfterMatch
  <2>5. flow[d] = "alive" => held[c] = session
    BY <2>1, <2>4 DEF Alone
  <2>6. QED
    BY <2>1, <2>2, <2>3, <2>5, StepKeepsAlone DEF PastCheck, InHand, AfterMatch
<1>4. QED
  BY <1>1, <1>2, <1>3 DEF StopStep

\* And all else leave it so.
LEMMA RestKeepsAlone ==
  ASSUME IInv, NEW d \in Cli, Alone(d),
         \/ vars' = vars \/ PsRecovers \/ RivalMoves
         \/ \E c \in Cli : Begin(c) \/ Crash(c) \/ FlowExits(c) \/ AgentsMove(c)
  PROVE  Alone(d)'
<1>0. /\ at \in [Cli -> Points]
      /\ flow \in [Cli -> {"none", "alive", "gone"}]
  BY DEF IInv, TypeOK
<1>1. ASSUME NEW c \in Cli, Begin(c)
      PROVE  Alone(d)'
  <2>1. PICK q \in {"opening", "loading"} :
          /\ at[c] = "idle" /\ at' = [at EXCEPT ![c] = q]
          /\ crashed' = crashed /\ ps' = ps
          /\ flow' = flow /\ session' = session /\ held' = held
    BY <1>1 DEF Begin, troubles, world
  <2>2. QED
    BY <2>1, StepKeepsAlone DEF PastCheck, InHand, AfterMatch
<1>2. CASE ~ \E c \in Cli : Begin(c)
  <2>1. UNCHANGED << at, session, held >> /\ crashed \subseteq crashed'
    BY <1>2 DEF vars, PsRecovers, RivalMoves, Crash, FlowExits, AgentsMove, troubles, locals
  <2>2. ps # "down" => ps' # "down"
    BY <1>2 DEF vars, PsRecovers, RivalMoves, Crash, FlowExits, AgentsMove, troubles
  <2>3. flow'[d] = "alive" => flow[d] = "alive"
    BY <1>0, <1>2 DEF vars, PsRecovers, RivalMoves, Crash, FlowExits, AgentsMove, world
  <2>4. \A c \in Cli : Running(c)' => Running(c)
    BY <2>1 DEF Running
  <2>5. QED
    BY <2>1, <2>2, <2>3, <2>4, AloneKept DEF Alone
<1>3. QED
  BY <1>1, <1>2

\* And it is alone when it is recorded.
LEMMA NewlySettledIsAlone ==
  ASSUME IInv, NEW c \in Cli, WriteSession(c), ident[c], ps # "down", Active = {c}
  PROVE  Alone(c)'
<1>1. /\ at' = [at EXCEPT ![c] = "done"] /\ at \in [Cli -> Points]
      /\ session' = [by |-> c, state |-> "running", ident |-> TRUE]
      /\ crashed' = crashed /\ ps' = ps
  BY DEF WriteSession, Step, troubles, IInv, TypeOK
<1>2. ASSUME NEW u \in Cli, Running(u)' PROVE FALSE
  <2>1. u # c /\ Running(u)
    BY <1>1, <1>2 DEF Running
  <2>2. QED
    BY <2>1 DEF Active
<1>3. QED
  BY <1>1, <1>2 DEF Alone

\* Both in every step.
LEMMA SettledNext == IInv /\ SettledInv /\ [Next]_vars => SettledInv'
<1> SUFFICES ASSUME IInv, SettledInv, [Next]_vars, NEW d \in settled' PROVE Alone(d)'
  BY DEF SettledInv
<1>0. settled' \subseteq Cli
  BY IInvNext DEF IInv, TypeOK
<1>1. CASE d \in settled
  <2>1. d \in Cli /\ Alone(d)
    BY <1>0, <1>1 DEF SettledInv
  <2>2. CASE \E c \in Cli : CliStep(c)
    BY <2>1, <2>2, StartKeepsAlone, StopKeepsAlone, RestKeepsAlone DEF CliStep
  <2>3. ~PsFails
    BY DEF PsFails
  <2>4. CASE PsRecovers \/ RivalMoves \/ vars' = vars
    BY <2>1, <2>4, RestKeepsAlone
  <2>5. QED
    BY <2>2, <2>3, <2>4 DEF Next
<1>2. CASE d \notin settled
  <2>1. WriteSession(d) /\ ident[d] /\ ps # "down" /\ Active = {d} /\ d \in Cli
    BY <1>0, <1>2 DEF Next, CliStep, StartStep, StopStep, Begin, StartLoads, StartJudges, Gate, Spawn,
       SpawnFails, CaptureIdentity, WriteSession, StopLoads, StopJudges, StopMatches,
       Terminate, PollEnds, LooksAgain, Kill, KillFindsNobody,
       WriteStopped, Crash, FlowExits, AgentsMove, PsFails, PsRecovers, RivalMoves, vars
  <2>2. QED
    BY <2>1, NewlySettledIsAlone
<1>3. QED
  BY <1>1, <1>2

\* humanize2.start: nothing is spawned beside a settled flow, however many
\* starts and stops race and however many of them are killed.
THEOREM SettledFlowIsAlone == Spec => NothingSpawnsBesideSettledFlow
<1>1. Init => SettledInv
  BY DEF Init, SettledInv
<1>2. Spec => []SettledInv
  BY <1>1, SettledNext, Invariance, PTL DEF Spec
<1>3. ASSUME IInv, SettledInv, [Next]_vars, NEW c \in Cli, NEW d \in Cli,
             flow[c] = "none", flow'[c] = "alive", d \in settled, flow[d] = "alive"
      PROVE  FALSE
  <2>0. flow \in [Cli -> {"none", "alive", "gone"}]
    BY <1>3 DEF IInv, TypeOK
  <2>1. PICK u \in Cli : CliStep(u)
    BY <1>3 DEF Next, vars, PsFails, PsRecovers, RivalMoves, world
  <2>2. Spawn(u)
    BY <1>3, <2>0, <2>1 DEF CliStep, StartStep, StopStep, Begin, StartLoads, StartJudges,
       Gate, SpawnFails, CaptureIdentity, WriteSession, StopLoads, StopJudges, StopMatches,
       Terminate, PollEnds, LooksAgain, Kill, KillFindsNobody,
       WriteStopped, Crash, FlowExits, AgentsMove, world
  <2>3. Running(u) /\ at[u] \in PastCheck
    BY <2>2 DEF Spawn, Step, Running, PastCheck
  <2>4. QED
    BY <1>3, <2>3 DEF SettledInv, Alone
<1>4. IInv /\ SettledInv /\ [Next]_vars =>
        [\A c, d \in Cli :
           flow[c] = "none" /\ flow'[c] = "alive" /\ d \in settled
             => flow[d] # "alive"]_vars
  BY <1>3
<1>5. QED
  BY <1>2, <1>4, Invariance, PTL DEF Spec, NothingSpawnsBesideSettledFlow

---------------------------------------------------------------------------
\* Cleaning epochs.

Phases == {"coding", "copying", "restored"} \cup Covered

EpochType ==
  /\ phase \in [Cli -> Phases]
  /\ backup \in [Cli -> (SUBSET Records) \cup {None}]
  /\ control \in (SUBSET Records) \cup {None}
  /\ abandoned \subseteq Records
  /\ recorded \subseteq Records

\* A flow that has not started has cleaned nothing and has no agents; `mv`
\* runs only where there was something to copy.
Fresh ==
  \A c \in Cli :
    /\ flow[c] = "none" => phase[c] = "coding" /\ ~agents[c]
    /\ phase[c] \in {"copied", "removed"} => backup[c] # None

Elsewhere(c, r) ==
  \/ r \in abandoned
  \/ \E d \in Cli \ {c} : phase[d] \in Covered /\ r \in Held(backup[d])

\* Where the evidence is, as the flow that edits the tree sees it: in its own
\* snapshot while that is whole, in the directory otherwise, or else where an
\* earlier flow was cut short.
InPlace(c) ==
  \A r \in recorded :
    \/ r \in IF phase[c] \in Covered THEN Held(backup[c]) ELSE Held(control)
    \/ Elsewhere(c, r)

EpochInv ==
  /\ EpochType
  /\ Fresh
  /\ ~overlapped =>
       /\ \A c, d \in Editing : c = d
       /\ \A c \in Editing : InPlace(c)
       /\ EvidenceSurvivesCleaning

\* What a directory holds, be it there or not.
LEMMA HeldType ==
  ASSUME NEW directory \in (SUBSET Records) \cup {None}
  PROVE  /\ Held(directory) \in SUBSET Records
         /\ directory # None => directory \in SUBSET Records /\ Held(directory) = directory
         /\ directory \in SUBSET Records => directory # None
  BY NoDirectoryAssumption DEF Held

\* A group comes to life only with a flow that had not started.
LEMMA GroupsBegin ==
  ASSUME IInv, [Next]_vars, NEW u \in Cli
  PROVE  /\ flow'[u] \in {flow[u], "gone"} \/ flow[u] = "none"
         /\ flow[u] # "none" => flow'[u] # "none"
         /\ agents'[u] => agents[u] \/ flow[u] = "alive"
<1>0. /\ flow \in [Cli -> {"none", "alive", "gone"}]
      /\ agents \in [Cli -> BOOLEAN]
  BY DEF IInv, TypeOK
<1>1. CASE UNCHANGED << flow, agents >>
  BY <1>1
<1>2. ASSUME NEW c \in Cli, Spawn(c)
      PROVE  /\ flow'[u] \in {flow[u], "gone"} \/ flow[u] = "none"
             /\ flow[u] # "none" => flow'[u] # "none"
             /\ agents'[u] => agents[u] \/ flow[u] = "alive"
  <2>1. flow[c] = "none"
    BY <1>2 DEF Spawn, Step, IInv, Control, BeforeSpawn
  <2>2. flow' = [flow EXCEPT ![c] = "alive"] /\ agents' = agents
    BY <1>2 DEF Spawn
  <2>3. QED
    BY <1>0, <2>1, <2>2
<1>3. ASSUME NEW c \in Cli, Kill(c)
      PROVE  /\ flow'[u] \in {flow[u], "gone"} \/ flow[u] = "none"
             /\ flow[u] # "none" => flow'[u] # "none"
             /\ agents'[u] => agents[u] \/ flow[u] = "alive"
  BY <1>0, <1>3 DEF Kill
<1>4. ASSUME NEW c \in Cli, FlowExits(c) \/ AgentsMove(c)
      PROVE  /\ flow'[u] \in {flow[u], "gone"} \/ flow[u] = "none"
             /\ flow[u] # "none" => flow'[u] # "none"
             /\ agents'[u] => agents[u] \/ flow[u] = "alive"
  BY <1>0, <1>4 DEF FlowExits, AgentsMove
<1>5. \/ UNCHANGED << flow, agents >>
      \/ \E c \in Cli : Spawn(c) \/ Kill(c) \/ FlowExits(c) \/ AgentsMove(c)
  BY DEF Next, CliStep, StartStep, StopStep, Begin, StartLoads, StartJudges, Gate,
     SpawnFails, CaptureIdentity, WriteSession, StopLoads, StopJudges, StopMatches,
     Terminate, PollEnds, LooksAgain, KillFindsNobody, WriteStopped, Crash,
     PsFails, PsRecovers, RivalMoves, vars, world
<1>6. QED
  BY <1>1, <1>2, <1>3, <1>4, <1>5

\* A step of the commands moves no evidence.
LEMMA CommandsKeepEvidence ==
  ASSUME IInv, EpochInv, [Next]_vars,
         overlapped' = (overlapped \/ \E c, d \in Editing' : c # d),
         UNCHANGED << control, phase, backup, abandoned, recorded >>
  PROVE  EpochInv'
<1>1. EpochType'
  BY DEF EpochInv, EpochType
<1>2. Fresh'
  <2>1. flow \in [Cli -> {"none", "alive", "gone"}]
    BY DEF IInv, TypeOK
  <2>2. QED
    BY <2>1, GroupsBegin DEF EpochInv, Fresh
<1>3. ASSUME ~overlapped'
      PROVE  /\ \A c, d \in Editing' : c = d
             /\ \A c \in Editing' : InPlace(c)'
             /\ EvidenceSurvivesCleaning'
  <2>1. /\ ~overlapped
        /\ \A c, d \in Editing' : c = d
        /\ EvidenceSurvivesCleaning
    BY <1>3 DEF EpochInv
  <2>2. EvidenceSurvivesCleaning'
    BY <2>1 DEF EvidenceSurvivesCleaning
  <2>3. ASSUME NEW c \in Editing'
        PROVE  InPlace(c)
    <3>1. c \in Cli
      BY DEF Editing
    <3>2. CASE c \in Editing
      BY <2>1, <3>2 DEF EpochInv
    <3>3. CASE c \notin Editing
      <4>1. flow[c] = "none"
        BY <3>1, <3>3, GroupsBegin DEF Editing
      <4>2. phase[c] = "coding"
        BY <3>1, <4>1 DEF EpochInv, Fresh
      <4>3. QED
        BY <2>1, <4>2 DEF EvidenceSurvivesCleaning, InPlace, Elsewhere, Covered
    <3>4. QED
      BY <3>2, <3>3
  <2>4. \A c \in Editing' : InPlace(c)'
    BY <2>3 DEF InPlace, Elsewhere
  <2>5. QED
    BY <2>1, <2>2, <2>4
<1>4. QED
  BY <1>1, <1>2, <1>3 DEF EpochInv

\* A step of a flow or of its agents keeps the evidence in place.
LEMMA EpochStepType ==
  ASSUME EpochInv, NEW c \in Cli, EpochStep(c), UNCHANGED vars
  PROVE  /\ EpochType' /\ Fresh' /\ c \in Editing
         /\ \E p \in Phases : phase' = [phase EXCEPT ![c] = p]
         /\ \A d \in Cli \ {c} : backup'[d] = backup[d]
<1>0. /\ phase \in [Cli -> Phases]
      /\ backup \in [Cli -> (SUBSET Records) \cup {None}]
      /\ control \in (SUBSET Records) \cup {None}
      /\ abandoned \subseteq Records /\ recorded \subseteq Records
  BY DEF EpochInv, EpochType
<1>1. c \in Editing /\ flow[c] # "none"
  <2>1. c \in Editing
    BY DEF EpochStep, ByGroup, ByFlow, Editing, Record, SnapshotStarts, SnapshotTaken,
       SnapshotFails, CleanerStarts, Clean, CleanerEnds, RestoreMissing, RestoreCopies,
       RestoreRemoves, RestoreMoves, RestoreFails, RestoreEnds
  <2>2. QED
    BY <2>1 DEF EpochInv, Fresh, Editing
<1>2. phase[c] \in Phases /\ phase = [phase EXCEPT ![c] = phase[c]]
  BY <1>0
<1>3. /\ Held(control) \subseteq Records /\ Held(backup[c]) \subseteq Records
      /\ backup[c] # None => backup[c] \subseteq Records
      /\ phase[c] \in {"copied", "removed"} => backup[c] # None
  BY <1>0, HeldType DEF EpochInv, Fresh
<1>4. PICK p \in Phases :
        /\ phase' = [phase EXCEPT ![c] = p]
        /\ p \in {"copied", "removed"} => backup'[c] # None
  <2>1. CASE \/ \E r \in Records : Record(c, r)
             \/ SnapshotStarts(c) \/ SnapshotTaken(c) \/ SnapshotFails(c)
             \/ CleanerStarts(c)  \/ Clean(c)         \/ CleanerEnds(c)
    BY <1>0, <1>2, <2>1 DEF Record, SnapshotStarts, SnapshotTaken, SnapshotFails,
       CleanerStarts, Clean, CleanerEnds, Goto, Phases, Covered
  <2>2. CASE \/ RestoreMissing(c) \/ RestoreCopies(c) \/ RestoreRemoves(c)
             \/ RestoreMoves(c)
    BY <1>0, <1>2, <1>3, <2>2 DEF RestoreMissing, RestoreCopies, RestoreRemoves,
       RestoreMoves, Goto, Phases, Covered
  <2>3. CASE RestoreFails(c) \/ RestoreEnds(c)
    BY <1>0, <1>2, <2>3 DEF RestoreFails, RestoreEnds, Goto, Phases, Covered
  <2>4. QED
    BY <2>1, <2>2, <2>3 DEF EpochStep
<1>5. /\ backup' \in [Cli -> (SUBSET Records) \cup {None}]
      /\ \A d \in Cli \ {c} : backup'[d] = backup[d]
  BY <1>0 DEF EpochStep, Record, SnapshotStarts, SnapshotTaken,
     SnapshotFails, CleanerStarts, Clean, CleanerEnds, RestoreMissing, RestoreCopies,
     RestoreRemoves, RestoreMoves, RestoreFails, RestoreEnds
<1>6. /\ control' \in (SUBSET Records) \cup {None}
      /\ abandoned' \subseteq Records /\ recorded' \subseteq Records
  BY <1>0, <1>3 DEF EpochStep, Goto, Record, SnapshotStarts, SnapshotTaken,
     SnapshotFails, CleanerStarts, Clean, CleanerEnds, RestoreMissing, RestoreCopies,
     RestoreRemoves, RestoreMoves, RestoreFails, RestoreEnds
<1>7. EpochType'
  BY <1>0, <1>4, <1>5, <1>6 DEF EpochType
<1>8. Fresh'
  <2> SUFFICES ASSUME NEW d \in Cli
               PROVE  /\ flow'[d] = "none" => phase'[d] = "coding" /\ ~agents'[d]
                      /\ phase'[d] \in {"copied", "removed"} => backup'[d] # None
    BY DEF Fresh
  <2>1. flow' = flow /\ agents' = agents
    BY DEF vars
  <2>2. QED
    BY <1>0, <1>1, <1>4, <1>5, <2>1 DEF EpochInv, Fresh
<1>9. QED
  BY <1>1, <1>4, <1>5, <1>7, <1>8

\* An epoch's step leaves each record in the directory, in the snapshot or elsewhere.
LEMMA EpochStepInPlace ==
  ASSUME EpochInv, NEW c \in Cli, EpochStep(c), UNCHANGED vars, InPlace(c)
  PROVE  InPlace(c)'
<1>0. /\ phase \in [Cli -> Phases]
      /\ backup \in [Cli -> (SUBSET Records) \cup {None}]
  BY DEF EpochInv, EpochType
<1>1. abandoned \subseteq abandoned'
  BY DEF EpochStep, Record, SnapshotStarts, SnapshotTaken,
     SnapshotFails, CleanerStarts, Clean, CleanerEnds, RestoreMissing, RestoreCopies,
     RestoreRemoves, RestoreMoves, RestoreFails, RestoreEnds
<1>2. ASSUME NEW r, Elsewhere(c, r) PROVE Elsewhere(c, r)'
  <2>1. \A d \in Cli \ {c} : phase'[d] = phase[d] /\ backup'[d] = backup[d]
    BY <1>0, EpochStepType
  <2>2. QED
    BY <1>1, <1>2, <2>1 DEF Elsewhere, Held
<1>3. ASSUME NEW r \in recorded', ~Elsewhere(c, r)'
      PROVE  r \in IF phase'[c] \in Covered THEN Held(backup[c])' ELSE Held(control)'
  <2>1. r \in recorded =>
          r \in IF phase[c] \in Covered THEN Held(backup[c]) ELSE Held(control)
    BY <1>2, <1>3 DEF InPlace
  <2>2. CASE \E s \in Records : Record(c, s)
    <3>1. PICK s \in Records : Record(c, s)
      BY <2>2
    <3>2. /\ phase' = phase /\ phase[c] = "coding"
          /\ control' = Held(control) \cup {s} /\ recorded' = recorded \cup {s}
      BY <3>1 DEF Record
    <3>3. r \in control'
      BY <2>1, <3>2 DEF Covered
    <3>4. control' # None
      <4>1. control' \in SUBSET Records
        BY <3>2, HeldType DEF EpochInv, EpochType
      <4>2. QED
        BY <4>1, NoDirectoryAssumption
    <3>5. r \in Held(control)'
      BY <3>3, <3>4 DEF Held
    <3>6. QED
      BY <3>2, <3>5 DEF Covered
  <2>3. CASE SnapshotTaken(c)
    <3>1. phase'[c] = "taken" /\ backup'[c] = control /\ recorded' = recorded
      BY <1>0, <2>3 DEF SnapshotTaken, Goto
    <3>2. r \in Held(control)
      BY <2>1, <2>3, <3>1 DEF SnapshotTaken, Goto, Covered
    <3>3. r \in Held(backup[c])'
      BY <3>1, <3>2 DEF Held
    <3>4. QED
      BY <3>1, <3>3 DEF Covered
  <2>4. CASE SnapshotStarts(c) \/ SnapshotFails(c) \/ CleanerStarts(c) \/ CleanerEnds(c)
             \/ RestoreCopies(c) \/ Clean(c)
    BY <1>0, <2>1, <2>4 DEF SnapshotStarts, SnapshotFails, CleanerStarts, CleanerEnds,
       RestoreCopies, Clean, Goto, Covered
  <2>5. CASE RestoreMissing(c)
    BY <1>0, <2>1, <2>5 DEF RestoreMissing, Goto, Covered, Held
  <2>6. CASE RestoreRemoves(c) \/ RestoreMoves(c)
    BY <1>0, <2>1, <2>6 DEF RestoreRemoves, RestoreMoves, Goto, Covered
  <2>7. CASE RestoreFails(c)
    <3>1. phase[c] \in Covered => Held(backup[c]) \subseteq abandoned'
      BY <2>7 DEF RestoreFails
    <3>2. r \notin abandoned'
      BY <1>3 DEF Elsewhere
    <3>3. UNCHANGED << control, recorded >> /\ phase'[c] = "coding"
      BY <1>0, <2>7 DEF RestoreFails
    <3>4. QED
      BY <2>1, <3>1, <3>2, <3>3 DEF Covered
  <2>8. CASE RestoreEnds(c)
    BY <1>0, <2>1, <2>8 DEF RestoreEnds, Goto, Covered
  <2>9. QED
    BY <2>2, <2>3, <2>4, <2>5, <2>6, <2>7, <2>8 DEF EpochStep
<1>4. QED
  BY <1>3 DEF InPlace

\* The evidence stays somewhere in every step.
LEMMA EpochNextKeeps == IInv /\ EpochInv /\ [EpochNext]_<< vars, epochVars >> => IInv' /\ EpochInv'
<1> SUFFICES ASSUME IInv, EpochInv, [EpochNext]_<< vars, epochVars >>
             PROVE  IInv' /\ EpochInv'
  OBVIOUS
<1>1. [Next]_vars
  BY DEF EpochNext
<1>2. IInv'
  BY <1>1, IInvNext
<1>3. CASE /\ Next
           /\ overlapped' = (overlapped \/ \E c, d \in Editing' : c # d)
           /\ UNCHANGED << control, phase, backup, abandoned, recorded >>
  BY <1>2, <1>3, CommandsKeepEvidence
<1>4. ASSUME NEW c \in Cli, EpochStep(c), UNCHANGED << vars, overlapped >>
      PROVE  EpochInv'
  <2>1. UNCHANGED vars
    BY <1>4
  <2>2. EpochType' /\ Fresh' /\ c \in Editing
    BY <1>4, <2>1, EpochStepType
  <2>3. Editing' = Editing
    BY <2>1 DEF vars, Editing
  <2>4. ASSUME ~overlapped'
        PROVE  /\ \A d, e \in Editing' : d = e
               /\ \A d \in Editing' : InPlace(d)'
               /\ EvidenceSurvivesCleaning'
    <3>1. (\A d, e \in Editing : d = e) /\ InPlace(c)
      BY <1>4, <2>2, <2>4 DEF EpochInv
    <3>2. InPlace(c)'
      BY <1>4, <2>1, <3>1, EpochStepInPlace
    <3>3. EvidenceSurvivesCleaning'
      BY <3>2 DEF InPlace, Elsewhere, EvidenceSurvivesCleaning
    <3>4. QED
      BY <2>2, <2>3, <3>1, <3>2, <3>3
  <2>5. QED
    BY <2>2, <2>4 DEF EpochInv
<1>5. CASE UNCHANGED << vars, epochVars >>
  <2>1. UNCHANGED << control, phase, backup, abandoned, recorded, overlapped >>
    BY <1>5 DEF epochVars
  <2>2. UNCHANGED << flow, agents >>
    BY <1>5 DEF vars
  <2>3. EpochType' /\ Fresh' /\ Editing' = Editing
    BY <2>1, <2>2 DEF EpochInv, EpochType, Fresh, Editing
  <2>4. EvidenceSurvivesCleaning' = EvidenceSurvivesCleaning
    BY <2>1 DEF EvidenceSurvivesCleaning, Held
  <2>5. \A c \in Editing : InPlace(c) => InPlace(c)'
    BY <2>1 DEF InPlace, Elsewhere, Held
  <2>6. QED
    BY <1>2, <2>1, <2>3, <2>4, <2>5 DEF EpochInv
<1>6. QED
  BY <1>2, <1>3, <1>4, <1>5 DEF EpochNext

\* flame_chase._restore_protected: while flows do not overlap no record of a
\* coding agent is lost, whatever the cleaner does, wherever a flow is killed
\* and whichever command of the shell fails.
THEOREM EvidenceSurvives == EpochSpec => []EvidenceSurvivesCleaning
<1>1. Init /\ EpochInit => IInv /\ EpochInv
  <2> SUFFICES ASSUME Init, EpochInit PROVE EpochInv
    BY IInvInit
  <2>1. Editing = {}
    BY DEF Init, Editing
  <2>2. EpochType /\ Fresh
    BY DEF Init, EpochInit, EpochType, Fresh, Phases, Covered
  <2>3. EvidenceSurvivesCleaning
    BY DEF EpochInit, EvidenceSurvivesCleaning
  <2>4. QED
    BY <2>1, <2>2, <2>3 DEF EpochInv
<1>2. EpochInv => EvidenceSurvivesCleaning
  BY DEF EpochInv, EvidenceSurvivesCleaning
<1>3. QED
  BY <1>1, <1>2, EpochNextKeeps, PTL DEF EpochSpec
============================================================================
