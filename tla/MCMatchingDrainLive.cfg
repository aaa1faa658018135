\* Liveness: orphaned claims come back; once faults stop, the queue drains.
SPECIFICATION FairSpec
CONSTANTS
  Requests = {r1}
  t1 = t1 t2 = t2 e1 = e1 e2 = e2 w1 = w1 w2 = w2
  Workers = {w1}
  NoWorker = NoWorker
  MaxAttempts = 2
  AttemptCap = 2
  Kickers = {k1}
  Executions = {e1, e2}
  Tasks = {t1, t2}
  ExecutionOf <- TwoJobs
  WorkerOf <- OneWorker
  KeyOf <- OneKey
  ChunkLimit = 2
  BatchSize = 1
  SlowChunks = FALSE
  LostHeartbeats = FALSE
PROPERTIES OrphanClaimsReturn 
CHECK_DEADLOCK FALSE
