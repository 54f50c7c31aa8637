\* Two invocations at a time, one fault.
SPECIFICATION Spec
CONSTANTS
  Cli = {c1, c2, c3}
  Ops = {"start", "resume", "stop"}
  MaxActive = 2
  MaxFaults = 1
  None = None
SYMMETRY CliSymmetry
CHECK_DEADLOCK FALSE
INVARIANTS
  StoppedIsDead
PROPERTY NoSecondWriterUntilStolen
