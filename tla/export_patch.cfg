CONSTANTS
  None = None
  c1 = c1
  c2 = c2
  d1 = d1
  p1 = p1
  p2 = p2
  a1 = a1
  x1 = x1
  Tasks = {t1}
  Commits = {c1, c2}
  Patches = {a1, a2}
  Statuses <- MCStatuses
  Breakable = {"workflow"}
  Creators = {k1}
  MaxMoves = 1
  Dependencies = {d1}
  Pins <- MCPins
  Places = {p1, p2}
  OldBash <- MCOldBash
  Movable <- MCMovable
  Launchers = {l1}
  Exporters = {e1}
  Labels = {b1}
  WorkFiles = {w1}
  Contents = {x1, x2}
SPECIFICATION MCSpec
CONSTRAINT OneBase
INVARIANTS
  VerifiedPatchIsCopied
