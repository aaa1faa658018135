\* Safety: the tasks of one execution share chunks of two attempts.
SPECIFICATION Spec
CONSTANTS
  Requests = {r1, r2}
  t1 = t1 t2 = t2 e1 = e1 e2 = e2 w1 = w1 w2 = w2
  Workers = {w1, w2}
  NoWorker = NoWorker
  MaxAttempts = 1
  AttemptCap = 1
  Kickers = {k1}
  Executions = {e1}
  Tasks = {t1, t2}
  ExecutionOf <- OneJob
  WorkerOf <- TwoWorkers
  KeyOf <- OneKey
  ChunkLimit = 2
  BatchSize = 2
  SlowChunks = TRUE
  LostHeartbeats = TRUE
INVARIANTS TypeOK SuccessHasResult UnstolenExact
PROPERTY LogSpec
SYMMETRY SwapAll
CHECK_DEADLOCK FALSE
