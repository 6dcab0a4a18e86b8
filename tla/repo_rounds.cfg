\* Two requests, the pre-fetch and a background round meet in a queue of one slot, with
\* git gc and a push by force.
SPECIFICATION Spec
CONSTANTS
  c1 = c1
  c2 = c2
  c3 = c3
  trunk = trunk
  tag = tag
  Commits = {c1, c2, c3}
  NoCommit = NoCommit
  Reach <- MCReach
  Heads = {trunk}
  Others = {}
  Upstream <- MCTrunk2
  Requests = {r1, r2}
  Selections <- TipOnly
  QueueCap = 1
  ServeWorkers = 1
  MaxTime = 1
  MaxPushes = 1
  MaxCalls = 2
  MaxCrashes = 0
SYMMETRY Symmetry
INVARIANTS TypeOK Freshness
PROPERTIES NoNeedlessMiss RoundsSpaced
CHECK_DEADLOCK FALSE
