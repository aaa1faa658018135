\* Two calls merge into the suppression file of one bulk process.
SPECIFICATION KickedSpec
CONSTANTS
  Requests = {r1, r2}
  Workers = {w1}
  NoWorker = NoWorker
  MaxAttempts = 1
  AttemptCap = 1
  Admins = {}
  Dispositions = {c4, c5}
  Artifact = {c4}
  OptedOut = {c4}
  None = None
  MaxGates = 1
  Dispatchers = {d1, d2}
PROPERTY SuppressionsKept
SYMMETRY SwapAll
CHECK_DEADLOCK FALSE
