\* A request with a want-ref line, the pre-fetch and a background round that
\* runs into git gc, and a crash at any point followed by a new start on the disk it left.
SPECIFICATION FairSpec
CONSTANTS
  c1 = c1
  c2 = c2
  c3 = c3
  trunk = trunk
  tag = tag
  Commits = {c1, c2}
  NoCommit = NoCommit
  Reach <- MCPair
  Heads = {trunk}
  Others = {}
  Upstream <- MCTrunk
  Requests = {r1}
  Selections <- NameOnly
  QueueCap = 1
  ServeWorkers = 1
  MaxTime = 1
  MaxPushes = 1
  MaxCalls = 2
  MaxCrashes = 1
INVARIANTS PrefetchFirst
PROPERTIES EveryRequestAnswered EveryRoundEnds
CHECK_DEADLOCK FALSE
