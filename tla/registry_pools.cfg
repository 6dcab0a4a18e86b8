\* Two callers open a repository for the first time.
SPECIFICATION Spec
CONSTANTS
  Lower <- Capitals
  Callers = {t1, t2}
  Urls <- OneUrl
  NoUrl = NoUrl
  MaxFailures = 0
  MaxRestarts = 0
SYMMETRY Symmetry
INVARIANTS PoolsReady
CHECK_DEADLOCK FALSE
