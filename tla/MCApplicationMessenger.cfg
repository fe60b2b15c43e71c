\* A thread of the job manager and one of a service; three messages, of which
\* one may be TMSG_QUIT.
CONSTANTS
  NULL = NULL
  Sender = {job, service}
  JobThread = {job}
  ServiceThread = {service}
  MaxMessages = 3
  MaxDepth = 2
SPECIFICATION MFairSpec
INVARIANTS
  WaiterIsKnown
  HandledOnce
PROPERTIES
  CallsAreAnswered
CHECK_DEADLOCK FALSE
