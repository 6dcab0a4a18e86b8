\* One request whose upstream fetch fails.
SPECIFICATION Spec
CONSTANTS
  c1 = c1
  c2 = c2
  c3 = c3
  trunk = trunk
  tag = tag
  Commits = {c1, c2, c3}
  NoCommit = NoCommit
  Reach <- MCReach
  Heads = {trunk}
  Others = {tag}
  Upstream <- MCUpstream
  Requests = {r1}
  Selections <- TipOnly
  QueueCap = 1
  ServeWorkers = 1
  MaxTime = 0
  MaxPushes = 1
  MaxCalls = 1
  MaxCrashes = 0
INVARIANTS ErrorIsSent
CHECK_DEADLOCK FALSE
