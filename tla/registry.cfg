\* Two callers with several URLs, on a server of either kind, a failing git command and a
\* death of the program.
SPECIFICATION FairSpec
CONSTANTS
  Lower <- Capitals
  Callers = {t1, t2}
  Urls <- SomeUrls
  NoUrl = NoUrl
  MaxFailures = 1
  MaxRestarts = 1
INVARIANTS TypeOK ConfiguredBeforeUse OneInitializer RightMirror OneMirror
PROPERTIES EveryOpenReturns
CHECK_DEADLOCK FALSE
