\* Safety: two overlapping calls on one request.
SPECIFICATION GatesSpec
CONSTANTS
  Requests = {r1}
  Workers = {w1}
  NoWorker = NoWorker
  MaxAttempts = 1
  AttemptCap = 1
  Admins = {p1, p2}
  Dispositions = {c4, c5}
  Artifact = {c4}
  OptedOut = {c4}
  None = None
  MaxGates = 3
INVARIANTS GatesTypeOK KickoffHasDisposition ApprovalSpendsGate
SYMMETRY SwapAdmins
CHECK_DEADLOCK FALSE
