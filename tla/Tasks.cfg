SPECIFICATION FairSpec
CONSTANTS
  t1 = t1
  t2 = t2
  q = q
  Tasks = {t1, t2}
  Queues = {q}
  QueueOf <- OneQueue
  RetrySafe = {t1}
  MaxAttempts = 2
  Keys = {k1}
  MaxCheckpoints = 2
  MaxActive = 2
  ReapLimit = 2
  MaxLease = 2
  MaxDelay = 1
  Backoff = 1
  MaxFence = 3
INVARIANTS TypeOK ExecutionsBounded CheckpointsFenced
PROPERTIES CancelRespected ClaimsSettle
CHECK_DEADLOCK FALSE
