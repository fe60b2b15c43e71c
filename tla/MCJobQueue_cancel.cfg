\* Cancellation from the queue and from the manager, pauses, shutdown and
\* restart, of a queue that takes the last job first.
CONSTANTS
  NULL = NULL
  Job = {j1, j2, j3}
  Worker = {w1, w2}
  Queue = queue
  Callback = {queue}
  Key = {k1, k2}
  ClientPriority = {0}
  MaxWorkers = 5
  IdModulus = 6
  JobsAtOnce = 1
  QueuePriority = 0
  ClientOps = {"cancel", "shutdown", "pause"}
SPECIFICATION LifoSpec
SYMMETRY Symmetry
INVARIANTS
  EntriesAreLive
  NoOrphans
