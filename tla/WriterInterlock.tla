--------------------------- MODULE WriterInterlock ---------------------------
(***************************************************************************)
(* The two Humanize blocks on one task: tools/k3/agent.py, with its lock   *)
(* and its session (AgentSession), and tools/k3/humanize2.py, with its own *)
(* session (FlowSession).  They share the candidate tree and the process   *)
(* table.  Humanize2's plan() looks at Humanize1's session; agent.py never *)
(* looks at Humanize2's.                                                   *)
(***************************************************************************)
EXTENDS AgentSession

CONSTANT FlowCli   \* the humanize2 commands

VARIABLES flowOp, flowAt, flowCrashed, flow, agents, flowIdent, flowSession, flowHeld, settled

flowVars == << flowOp, flowAt, flowCrashed, flow, agents, flowIdent, flowSession,
               flowHeld, settled >>

\* humanize2._workspace_inputs: a pid in Humanize1's session and, whatever
\* state the session is in, a process that matches its identity.
AgentOnRecord == session # None /\ Matches(session)

\* `ps` and the budget of faults are the machine's, hence shared.
Flow ==
  INSTANCE FlowSession WITH
    Cli <- FlowCli, op <- flowOp, at <- flowAt, crashed <- flowCrashed,
    ident <- flowIdent, session <- flowSession, held <- flowHeld,
    rival <- AgentOnRecord

InterlockInit ==
  /\ Init
  /\ flowOp = [c \in FlowCli |-> None]
  /\ flowAt = [c \in FlowCli |-> "idle"]
  /\ flowCrashed = {}
  /\ flow = [c \in FlowCli |-> "none"]
  /\ agents = [c \in FlowCli |-> FALSE]
  /\ flowIdent = [c \in FlowCli |-> FALSE]
  /\ flowSession = None
  /\ flowHeld = [c \in FlowCli |-> None]
  /\ settled = {}

AgentStep == Next /\ UNCHANGED flowVars

FlowStep ==
  /\ \E c \in FlowCli : Flow!CliStep(c)
  /\ UNCHANGED << op, at, crashed, writer, ident, lock, session, holder, peek,
                  held, loop, noted, stolen >>

InterlockNext == AgentStep \/ FlowStep

\* The commands come one after another: no race between the two is to blame.
OneCommand == Active = {} \/ Flow!Active = {}
InterlockSpec == InterlockInit /\ [][InterlockNext /\ OneCommand']_<< vars, flowVars >>

\* "Humanize1 and Humanize2 must never edit the same candidate tree at the same
\* time" (humanize2.py): no writer of agent.py lives beside a process of a flow.
OneHumanizeAtATime == Writers = {} \/ Flow!Editing = {}
===========================================================================
