\* A subscription of each owner; the manager and somebody else publish.
CONSTANTS
  NULL = NULL
  Job = {j1, j2}
  Worker = {w1, w2}
  Queue = queue
  Callback = {queue}
  Key = {j1, j2}
  ClientPriority = {3}
  MaxWorkers = 5
  IdModulus = 4
  JobsAtOnce = 1
  QueuePriority = 3
  ClientOps = {}
  provider = provider
  consumer = consumer
  manager = manager
  addons = addons
  section = section
  critSection = critSection
  Subscription = {listed, addons}
  Owner = {provider, consumer}
  Publisher = {manager, other}
  Lock = {section, critSection}
  OwnerOf <- MCOwnerOf
  HeldBy <- MCHeldBy
  TakenBy <- MCTakenBy
SPECIFICATION ESFairSpec
INVARIANTS
  NoEventAfterUnsubscribe
  EventsInOrder
PROPERTIES
  EventsArrive
  UnsubscribeReturns
CHECK_DEADLOCK FALSE
