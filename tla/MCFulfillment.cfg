\* Safety: one POST /fulfill call and one admin call at a time, from the first kickoff.
SPECIFICATION KickedSpec
CONSTANTS
  Requests = {r1}
  Workers = {w1}
  NoWorker = NoWorker
  MaxAttempts = 2
  AttemptCap = 2
  Admins = {p1}
  Dispositions = {c3, c4}
  Artifact = {c3, c4}
  OptedOut = {}
  None = None
  MaxGates = 2
  Dispatchers = {d1}
INVARIANTS TypeOK 
PROPERTIES LogSpec SuppressionsKept
SYMMETRY SwapDispositions
CHECK_DEADLOCK FALSE
