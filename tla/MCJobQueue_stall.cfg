CONSTANTS
  NULL = NULL
  Job = {j1, j2}
  Worker = {w1, w2}
  Queue = queue
  Callback = {queue}
  Key = {k1, k2}
  ClientPriority = {1}
  MaxWorkers = 4
  IdModulus = 6
  JobsAtOnce = 1
  QueuePriority = 1
  ClientOps = {"cancel"}
SPECIFICATION QFairSpec
PROPERTIES QueuedInTurn
CHECK_DEADLOCK FALSE
