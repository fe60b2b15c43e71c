\* The groups of two threads' AbortableWait; one of them, and a setter, also
\* wait for events themselves.
CONSTANTS
  NULL = NULL
  event = event
  stop = stop
  group = group
  Event = {event, stop}
  Group = {group}
  Manual = {stop}
  Members <- MCMembers
  Setter = {s1, s2}
  Waiter = {s2, w1}
  GroupWaiter = {w1, w2}
  Resettable = {stop}
SPECIFICATION FairSpec
INVARIANTS
  NoMissedWakeup
  NoMissedGroupWakeup
  GroupOutlivesSet
PROPERTIES
  WaitersReleased
  GroupWaitInterrupted
  SetReturns
