--------------------------- MODULE RunSupervisor ---------------------------
(***************************************************************************)
(* tools/k3/supervise.py: the detached process that runs one measurement   *)
(* command, forwards a termination request to the command's process group  *)
(* and leaves a durable status file behind.                                *)
(*                                                                         *)
(* Three parties act: the supervisor itself (main() and the helpers it     *)
(* calls), the process group of the command it spawned, and the signals    *)
(* that reach the supervisor.  Time is abstracted: the escalation deadline *)
(* and the drain deadline may pass at any moment after they are armed.     *)
(***************************************************************************)
EXTENDS Naturals

CONSTANTS
  Child,     \* the command itself, the leader of its process group
  Workers,   \* processes the command may fork into that group
  None       \* absence of a value (JSON null, no file)

ASSUME ChildAssumption == Child \notin Workers

VARIABLES
  sup,         \* program point of supervise.py
  flag,        \* _CANCEL["signum"] is set
  cancelSent,  \* local variable cancel_sent
  due,         \* time.monotonic() >= escalate_at
  escalated,   \* local variable escalated
  cleared,     \* record["descendants_cleared"]
  group,       \* live members of the command's process group
  doomed,      \* members with a SIGKILL delivered and not yet acted on
  rc,          \* how the command ended, None while it has not
  statusFile   \* contents of status.json, None while there is no file

supVars == << sup, flag, cancelSent, due, escalated, cleared,
              group, doomed, rc, statusFile >>

\* The return codes main() tells apart: 0, positive, negative (a signal).
Codes == {"zero", "nonzero", "signal"}

InFlightStates == {"starting", "running", "cancelling"}
FinalStates == {"exited", "cancelled", "signalled", "failed-to-spawn"}

\* The fields of run-status/3 that a later reader's answer depends on.
StatusRecord ==
  [ state     : InFlightStates \cup FinalStates,
    code      : Codes \cup {None},
    normal    : BOOLEAN,
    cancelled : BOOLEAN,
    cleared   : BOOLEAN ]

ASSUME NoneAssumption == None \notin StatusRecord \cup Codes

\* Points at which the supervisor process exists.
LivePoints == { "boot", "starting", "armed", "spawned", "polling", "polled",
                "report", "drain", "draining", "closing" }
\* Of these, the ones after signal.signal() has replaced the default action.
ArmedPoints == LivePoints \ {"boot", "starting"}
SupPoints == LivePoints \cup {"absent", "done", "killed"}

SupAlive == sup \in LivePoints
Terminal(file) == file # None /\ file.state \in FinalStates
HasFinalStatus == Terminal(statusFile)

\* A record as main() holds it before the command has ended.
OpenRecord(state) ==
  [ state |-> state, code |-> None, normal |-> FALSE,
    cancelled |-> cancelSent, cleared |-> FALSE ]

SupInit ==
  /\ sup = "absent"
  /\ flag = FALSE
  /\ cancelSent = FALSE
  /\ due = FALSE
  /\ escalated = FALSE
  /\ cleared = FALSE
  /\ group = {}
  /\ doomed = {}
  /\ rc = None
  /\ statusFile = None

---------------------------------------------------------------------------
\* The supervisor, in the order of main().

WriteStarting ==
  /\ sup = "boot"
  /\ sup' = "starting"
  /\ statusFile' = OpenRecord("starting")
  /\ UNCHANGED << flag, cancelSent, due, escalated, cleared, group, doomed, rc >>

InstallHandlers ==
  /\ sup = "starting"
  /\ sup' = "armed"
  /\ UNCHANGED << flag, cancelSent, due, escalated, cleared, group, doomed, rc,
                  statusFile >>

SpawnChild ==
  /\ sup = "armed"
  /\ sup' = "spawned"
  /\ group' = {Child}
  /\ UNCHANGED << flag, cancelSent, due, escalated, cleared, doomed, rc,
                  statusFile >>

\* FileNotFoundError or OSError from Popen: a final status, then return.
SpawnFails ==
  /\ sup = "armed"
  /\ sup' = "done"
  /\ statusFile' = [ OpenRecord("failed-to-spawn") EXCEPT !.code = "nonzero" ]
  /\ UNCHANGED << flag, cancelSent, due, escalated, cleared, group, doomed, rc >>

WriteRunning ==
  /\ sup = "spawned"
  /\ sup' = "polling"
  /\ statusFile' = OpenRecord("running")
  /\ UNCHANGED << flag, cancelSent, due, escalated, cleared, group, doomed, rc >>

\* child.poll() reaps an ended command and leaves the loop ...
PollReaps ==
  /\ sup = "polling"
  /\ rc # None
  /\ sup' = "drain"
  /\ UNCHANGED << flag, cancelSent, due, escalated, cleared, group, doomed, rc,
                  statusFile >>

\* ... or finds it running, and the rest of the iteration goes by that answer
\* whatever the command does meanwhile.
PollFindsRunning ==
  /\ sup = "polling"
  /\ rc = None
  /\ sup' = "polled"
  /\ UNCHANGED << flag, cancelSent, due, escalated, cleared, group, doomed, rc,
                  statusFile >>

\* killpg(pgid, signum).  A member may exit on the signal or ignore it; both
\* are steps every member can take anyway, so nothing else changes here.
Forward ==
  /\ sup = "polled"
  /\ flag
  /\ ~cancelSent
  /\ cancelSent' = TRUE
  /\ sup' = "report"
  /\ UNCHANGED << flag, due, escalated, cleared, group, doomed, rc, statusFile >>

\* Mutation: the escalation repeats SIGTERM, which a member may ignore.
MutantEscalate ==
  /\ sup = "polled"
  /\ cancelSent
  /\ ~escalated
  /\ due
  /\ escalated' = TRUE
  /\ sup' = "report"
  /\ UNCHANGED << flag, cancelSent, due, cleared, group, doomed, rc, statusFile >>

\* ESCALATE_AFTER has passed: killpg(pgid, SIGKILL), once.
Escalate ==
  /\ sup = "polled"
  /\ cancelSent
  /\ ~escalated
  /\ due
  /\ escalated' = TRUE
  /\ doomed' = group
  /\ sup' = "report"
  /\ UNCHANGED << flag, cancelSent, due, cleared, group, rc, statusFile >>

NothingToDo ==
  /\ sup = "polled"
  /\ ~(flag /\ ~cancelSent)
  /\ ~(cancelSent /\ ~escalated /\ due)
  /\ sup' = "polling"
  /\ UNCHANGED << flag, cancelSent, due, escalated, cleared, group, doomed, rc,
                  statusFile >>

\* The _write that follows a killpg in the loop.
WriteCancelling ==
  /\ sup = "report"
  /\ sup' = "polling"
  /\ statusFile' = OpenRecord("cancelling")
  /\ UNCHANGED << flag, cancelSent, due, escalated, cleared, group, doomed, rc >>

\* Mutation: the group is only inspected, whether or not it was cancelled.
MutantDrainInspects ==
  /\ sup = "drain"
  /\ cleared' = (group = {})
  /\ sup' = "closing"
  /\ UNCHANGED << flag, cancelSent, due, escalated, group, doomed, rc, statusFile >>

\* _drain_group: an empty group, or one that is only inspected because no
\* cancellation was forwarded.
DrainInspects ==
  /\ sup = "drain"
  /\ group = {} \/ ~cancelSent
  /\ cleared' = (group = {})
  /\ sup' = "closing"
  /\ UNCHANGED << flag, cancelSent, due, escalated, group, doomed, rc, statusFile >>

\* Mutation: the SIGKILL goes to the leader's pid, which has ended, and not to
\* the group.
MutantDrainKills ==
  /\ sup = "drain"
  /\ group # {}
  /\ cancelSent
  /\ sup' = "draining"
  /\ UNCHANGED << flag, cancelSent, due, escalated, cleared, group, doomed, rc,
                  statusFile >>

\* _drain_group(kill=True): SIGKILL to whatever is left of the group.
DrainKills ==
  /\ sup = "drain"
  /\ group # {}
  /\ cancelSent
  /\ doomed' = group
  /\ sup' = "draining"
  /\ UNCHANGED << flag, cancelSent, due, escalated, cleared, group, rc, statusFile >>

\* Mutation: a drain that timed out counts as cleared.
MutantDrainEnds ==
  /\ sup = "draining"
  /\ cleared' = TRUE
  /\ sup' = "closing"
  /\ UNCHANGED << flag, cancelSent, due, escalated, group, doomed, rc, statusFile >>

\* The wait ends with the group empty, or with GROUP_DRAIN_TIMEOUT gone by.
DrainEnds ==
  /\ sup = "draining"
  /\ \E empty \in BOOLEAN :
       /\ empty => group = {}
       /\ cleared' = empty
  /\ sup' = "closing"
  /\ UNCHANGED << flag, cancelSent, due, escalated, group, doomed, rc, statusFile >>

\* Mutation: the final record goes by the return code alone.
MutantFinalRecord ==
  [ state     |-> IF rc = "signal" THEN "signalled" ELSE "exited",
    code      |-> rc,
    normal    |-> rc # "signal",
    cancelled |-> FALSE,
    cleared   |-> cleared ]

FinalRecord ==
  [ state     |-> IF cancelSent THEN "cancelled"
                  ELSE IF rc = "signal" THEN "signalled" ELSE "exited",
    code      |-> rc,
    normal    |-> rc # "signal" /\ ~cancelSent,
    cancelled |-> cancelSent,
    cleared   |-> cleared ]

WriteFinal ==
  /\ sup = "closing"
  /\ sup' = "done"
  /\ statusFile' = FinalRecord
  /\ UNCHANGED << flag, cancelSent, due, escalated, cleared, group, doomed, rc >>

SupStep ==
  \/ WriteStarting    \/ InstallHandlers \/ SpawnChild   \/ SpawnFails
  \/ WriteRunning     \/ PollReaps       \/ PollFindsRunning
  \/ Forward          \/ Escalate        \/ NothingToDo  \/ WriteCancelling
  \/ DrainInspects    \/ DrainKills      \/ DrainEnds    \/ WriteFinal

---------------------------------------------------------------------------
\* The command's process group and the clock.

\* The command ends by itself or by a signal; one killed by SIGKILL ends so.
ChildExits ==
  /\ Child \in group
  /\ \E code \in Codes :
       /\ Child \in doomed => code = "signal"
       /\ rc' = code
  /\ group' = group \ {Child}
  /\ doomed' = doomed \ {Child}
  /\ UNCHANGED << sup, flag, cancelSent, due, escalated, cleared, statusFile >>

Fork(w) ==
  /\ w \notin group
  /\ group \ doomed # {}
  /\ group' = group \cup {w}
  /\ UNCHANGED << sup, flag, cancelSent, due, escalated, cleared, doomed, rc,
                  statusFile >>

WorkerExits(w) ==
  /\ w \in group
  /\ group' = group \ {w}
  /\ doomed' = doomed \ {w}
  /\ UNCHANGED << sup, flag, cancelSent, due, escalated, cleared, rc, statusFile >>

GroupStep ==
  \/ ChildExits
  \/ \E w \in Workers : Fork(w) \/ WorkerExits(w)

\* A member with a SIGKILL pending dies.
DoomedDies ==
  \/ Child \in doomed /\ ChildExits
  \/ \E w \in doomed \cap Workers : WorkerExits(w)

EscalationDue ==
  /\ cancelSent
  /\ ~due
  /\ due' = TRUE
  /\ UNCHANGED << sup, flag, cancelSent, escalated, cleared, group, doomed, rc,
                  statusFile >>

---------------------------------------------------------------------------
\* Signals that reach the supervisor.

\* SIGTERM, SIGINT or SIGHUP: kills a supervisor that has not installed its
\* handlers, and only sets the flag in one that has.
Terminate ==
  /\ SupAlive
  /\ IF sup \in ArmedPoints
       THEN flag' = TRUE /\ sup' = sup
       ELSE flag' = flag /\ sup' = "killed"
  /\ UNCHANGED << cancelSent, due, escalated, cleared, group, doomed, rc,
                  statusFile >>

\* SIGKILL, an out-of-memory kill, a reboot of the supervisor alone.
KillSupervisor ==
  /\ SupAlive
  /\ sup' = "killed"
  /\ UNCHANGED << flag, cancelSent, due, escalated, cleared, group, doomed, rc,
                  statusFile >>

---------------------------------------------------------------------------
SupTypeOK ==
  /\ sup \in SupPoints
  /\ flag \in BOOLEAN
  /\ cancelSent \in BOOLEAN
  /\ due \in BOOLEAN
  /\ escalated \in BOOLEAN
  /\ cleared \in BOOLEAN
  /\ group \subseteq Workers \cup {Child}
  /\ doomed \subseteq group
  /\ rc \in Codes \cup {None}
  /\ statusFile \in StatusRecord \cup {None}
===========================================================================
