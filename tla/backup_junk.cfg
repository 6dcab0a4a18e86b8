\* One repository, another object in the bucket, no failing call.
SPECIFICATION Spec
CONSTANTS
  Repos = {a}
  Strangers = {"none", "after"}
  ManifestAge = 1
  MaxTime = 2
  MaxPushes = 1
  MaxFailures = 0
  MaxRestarts = 0
PROPERTIES NonBundlesIgnored
