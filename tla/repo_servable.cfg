\* One request while the objects of a push arrive.
SPECIFICATION Spec
CONSTANTS
  c1 = c1
  c2 = c2
  c3 = c3
  trunk = trunk
  tag = tag
  Commits = {c1, c2, c3}
  NoCommit = NoCommit
  Reach <- MCChain
  Heads = {trunk}
  Others = {}
  Upstream <- MCTrunk
  Requests = {r1, r2}
  Selections <- TipOnly
  QueueCap = 1
  ServeWorkers = 1
  MaxTime = 0
  MaxPushes = 1
  MaxCalls = 1
  MaxCrashes = 0
PROPERTIES ToldServable
CHECK_DEADLOCK FALSE
