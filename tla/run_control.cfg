\* The promises of one detached run, under every interleaving.
SPECIFICATION FairSpec
CONSTANTS
  Child = child
  Workers = {w1}
  None = None
  Readers = {r1}
CHECK_DEADLOCK FALSE
INVARIANTS
  CompletionIsTruthful
  CancelledRunIsDead
  ClearedMeansEmpty
PROPERTIES
  KeepsPromise
  RequestSettles
  RequestEmptiesGroup
