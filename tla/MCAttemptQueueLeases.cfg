\* One exhausted attempt keeps expired leases of the table from release.
SPECIFICATION FairSpec
CONSTANTS
  Requests = {r1}
  Workers = {w1}
  NoWorker = NoWorker
  MaxAttempts = 2
  AttemptCap = 3
  Populations <- OneState
PROPERTY ExpiredLeasesReleased
CHECK_DEADLOCK FALSE
