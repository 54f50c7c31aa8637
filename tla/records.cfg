\* Two editors of a campaign file; two prepares of a workspace.
SPECIFICATION MCSpec
CONSTANTS
  Editors = {e1, e2}
  Identities = {k1, k2}
  Candidates = {x1, x2, x3}
  MaxCandidates = 2
  MaxHistory = 6
  Nothing = Nothing
  Commits = {c1, c2}
  Files = {f, g}
  Preparers = {p1, p2}
  None = None
  MaxEdits = 2
  MaxFaults = 2
SYMMETRY Alike
CHECK_DEADLOCK FALSE
INVARIANTS
  PromotedIsVerified
  LoneRecordIsItsCommit
 
