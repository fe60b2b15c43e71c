---------------------------- MODULE MCEventGroup ----------------------------
(* Small instances of EventGroup for TLC: a thread's AbortableWait is a    *)
(* group of an auto-reset event and the thread's manual stop event.        *)
EXTENDS EventGroup

CONSTANTS event, stop, group

MCMembers == [x \in Group |-> <<event, stop>>]
=============================================================================
