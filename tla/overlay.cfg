SPECIFICATION Spec
CONSTANTS
  u1 = u1
  u2 = u2
  e1 = e1
  e2 = e2
  Upstreams = {u1, u2}
  Adapters = {e1, e2}
  Anchored <- MCAnchored
  Files = {f}
  Builders = {b1, b2}
  Plans = {p, q}
  None = None
  Damaged = Damaged
  Pinned = Pinned
  MaxMoves = 2
  MaxFaults = 1
  MaxEdits = 2
CONSTRAINT FewDisturbances
CONSTRAINT OneBuildBeside
SYMMETRY Symmetry
INVARIANTS ResolvesToCurrent PassedReviewIsAnchored
PROPERTIES BuildsStayAsLoaded
CHECK_DEADLOCK FALSE
