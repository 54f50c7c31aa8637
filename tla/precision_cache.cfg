\* Two trials and three diagnoses of one cache directory.
SPECIFICATION Spec
CONSTANTS
  Runs = {r1, r2, r3}
  Sources = {s1, s2}
  Runtimes = {d1, d2}
  NTrials = 2
  MaxDrifts = 1
  MaxCorruptions = 1
  None = None
  Bad = Bad
SYMMETRY Symmetry
CHECK_DEADLOCK FALSE
INVARIANTS
  ComparedLikeWithLike
PROPERTIES
  PassLeavesWarmCache
  KeepsEvidenceWhole
