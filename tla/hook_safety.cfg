\* Three processes, killed at any point, one failing os.Open: two of them can purge and
\* generate while the third serves.
SPECIFICATION FairSpec
CONSTANTS
  Procs = {p1, p2, p3}
  NoFile = NoFile
  StdinSizes = {1500, 1501}
  StdinMax = 1500
  MaxOpenFailures = 1
INVARIANTS TypeOK LockExclusive PublishedComplete ServedComplete
PROPERTIES PublishedForever AbandonedForever ImplementsEntry EveryHookFinishes
CHECK_DEADLOCK FALSE
