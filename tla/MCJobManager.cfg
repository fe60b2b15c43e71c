\* Two jobs of two priorities for two threads, of which only one may run the
\* pausable ones.
CONSTANTS
  NULL = NULL
  Job = {j1, j2}
  Worker = {w1, w2}
  Callback = {client}
  ClientPriority = {0, 2}
  MaxWorkers = 4
  IdModulus = 3
SPECIFICATION FairSpec
INVARIANTS
  NoUseAfterDelete
  ThreadsReservedForHigher
  QueuedJobHasWorker
  QuietAfterCancelJobs
  EarlyCancelIsSilent
PROPERTIES
  JobsFollowLifecycle
  AcceptedJobsEnd
  CancelJobsTerminates
