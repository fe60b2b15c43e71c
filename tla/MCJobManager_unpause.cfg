CONSTANTS
  NULL = NULL
  Job = {j1, j2}
  Worker = {w1, w2}
  Callback = {client}
  ClientPriority = {0}
  MaxWorkers = 4
  IdModulus = 5
SPECIFICATION FairSpec
PROPERTIES UnpausedJobsResume
