\* One invocation after another, one fault.
SPECIFICATION Spec
CONSTANTS
  Cli = {c1, c2, c3, c4}
  Ops = {"start", "resume", "stop"}
  MaxActive = 1
  MaxFaults = 1
  None = None
SYMMETRY CliSymmetry
CHECK_DEADLOCK FALSE
INVARIANTS
  LockTracksSession
  ResumesLiveLoopUnlessFault
PROPERTY NothingSpawnsBesideWriter
