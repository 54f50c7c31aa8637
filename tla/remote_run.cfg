SPECIFICATION Spec
CONSTANTS
  Runs = {r1, r2}
  Cmds = {c1, c2}
  None = None
  Requests <- MCRequests
  MaxOps = 3
  MaxFaults = 1
INVARIANTS GpuIsExclusive FinishedIsQuiet VerifiedFetchIsFinal
PROPERTIES OutcomeIsFinal RunSettles
CHECK_DEADLOCK FALSE
