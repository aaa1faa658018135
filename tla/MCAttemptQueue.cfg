\* One request, retries up to the limit and a rematch past it; verdicts and
\* retries under the fairness of the schedulers.
SPECIFICATION FairSpec
CONSTANTS
  Requests = {r1}
  Workers = {w1, w2}
  NoWorker = NoWorker
  MaxAttempts = 2
  AttemptCap = 3
  Populations <- OneState
INVARIANTS TypeOK ResultIffSuccess OneWorkerPerAttempt
PROPERTIES SettledNotRequeued LogSpec  FailureRetried
CHECK_DEADLOCK FALSE
