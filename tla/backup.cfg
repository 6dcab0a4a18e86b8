\* One repository, two versions, one failing call, one new server.
SPECIFICATION FairSpec
CONSTANTS
  Repos = {a}
  Strangers = {"none"}
  ManifestAge = 1
  MaxTime = 3
  MaxPushes = 2
  MaxFailures = 1
  MaxRestarts = 1
INVARIANTS TypeOK NamedTruly ListedIsThere
PROPERTIES NewestKept StaysListed EveryUpdateSaved
