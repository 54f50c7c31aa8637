\* One agent start and one humanize2 start, no fault.
SPECIFICATION InterlockSpec
CONSTANTS
  Cli = {c1}
  Ops = {"start"}
  FlowCli = {f1}
  MaxActive = 1
  MaxFaults = 0
  None = None
CHECK_DEADLOCK FALSE
INVARIANT OneHumanizeAtATime
