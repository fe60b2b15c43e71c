\* Two jobs for one image, and a thread that caches it itself.
CONSTANTS
  NULL = NULL
  Job = {j1, j2}
  Worker = {w1, w2}
  Queue = queue
  Callback = {queue}
  Key = {u1}
  ClientPriority = {0}
  MaxWorkers = 5
  IdModulus = 4
  JobsAtOnce = 1
  QueuePriority = 0
  ClientOps = {}
  Caller = {c1}
SPECIFICATION TFairSpec
INVARIANTS
  CachedByOne
PROPERTIES
  CacheImageReturns
CHECK_DEADLOCK FALSE
