\* Three commands two at a time with one fault; two in turn whose flows clean.
SPECIFICATION MCSpec
CONSTANTS
  Cli = {c1, c2, c3}
  Records = {r1, r2}
  c1 = c1
  c2 = c2
  c3 = c3
  r1 = r1
  r2 = r2
  MaxActive = 2
  MaxFaults = 1
  None = None
CHECK_DEADLOCK FALSE
INVARIANTS
  StoppedFlowIsDead
  EvidenceSurvivesCleaning
PROPERTIES
  NothingSpawnsBesideSettledFlow
  SignalledFlowEnds
