----------------------------- MODULE EventGroup -----------------------------
(***************************************************************************)
(* CEvent and CEventGroup (xbmc/threads/Event.{h,cpp}), on which every     *)
(* blocking wait of the program rests: an event is a flag with a condition *)
(* variable, reset by the last waiter to leave unless it is manual; a      *)
(* group waits for the first of several events, with a flag and a          *)
(* condition variable of its own that CEvent::Set() pokes.                 *)
(*                                                                         *)
(* An action is a critical section on CEvent::mutex or on a group's mutex. *)
(* Two locks are held across several of them and are variables: an event's *)
(* groupListMutex while Set() goes through the groups, and a group's mutex *)
(* while wait() looks at its events one after the other.                   *)
(***************************************************************************)
EXTENDS Integers, SequencesExt

CONSTANTS
  Event, Group,   \* CEvent and CEventGroup objects
  Manual,         \* the events constructed with manualReset
  Members,        \* Members[g]: the events a group is constructed with
  Setter,         \* threads that call CEvent::Set() and Reset()
  Waiter,         \* threads that call CEvent::Wait() or WaitMSec()
  GroupWaiter,    \* threads that construct, wait for and destroy groups
  Resettable,     \* the events somebody calls Reset() of
  NULL

Thread == Setter \cup Waiter \cup GroupWaiter

ASSUME EventAssumption ==
  /\ Manual \subseteq Event /\ Resettable \subseteq Event
  /\ Members \in [Group -> Seq(Event) \ {<<>>}]
  /\ IsFiniteSet(Waiter) /\ IsFiniteSet(GroupWaiter)
  /\ NULL \notin Event \cup Group \cup Thread

VARIABLES
  signaled,    \* CEvent::signaled
  waits,       \* CEvent::numWaits
  groups,      \* CEvent::groups, in the order they were added
  listOwner,   \* who holds CEvent::groupListMutex
  gstate,      \* whether a group object exists: none, building, live, dying
  gsignaled,   \* CEventGroup::signaled
  gwaits,      \* CEventGroup::numWaits
  gOwner,      \* who holds CEventGroup::mutex
  pc, on,      \* where a thread is, and in which object
  todo         \* what is left of the loop it is in

eventVars  == <<signaled, waits, groups, listOwner>>
groupVars  == <<gstate, gsignaled, gwaits, gOwner>>
threadVars == <<pc, on, todo>>
vars == <<eventVars, groupVars, threadVars>>

(* In Set(): past the flag, past notifyAll, in the loop over the groups.   *)
(* In Wait(): in the condition variable, out of it again.  In a group's    *)
(* wait(): in the loop over its events, in and out of the condition        *)
(* variable.  In its constructor and destructor.                           *)
ThreadStates == {"idle", "notify", "list", "tell", "asleep", "woken",
                 "scan", "gasleep", "gwoken", "build", "destroy"}

TypeOK ==
  /\ signaled \in [Event -> BOOLEAN]
  /\ waits \in [Event -> 0 .. Cardinality(Waiter)]
  /\ groups \in [Event -> Seq(Group)]
  /\ listOwner \in [Event -> Thread \cup {NULL}]
  /\ gstate \in [Group -> {"none", "building", "live", "dying"}]
  /\ gsignaled \in [Group -> Event \cup {NULL}]
  /\ gwaits \in [Group -> 0 .. Cardinality(GroupWaiter)]
  /\ gOwner \in [Group -> Thread \cup {NULL}]
  /\ pc \in [Thread -> ThreadStates]
  /\ on \in [Thread -> Event \cup Group \cup {NULL}]
  /\ todo \in [Thread -> Seq(Event) \cup Seq(Group)]

Init ==
  /\ signaled = [e \in Event |-> FALSE]
  /\ waits = [e \in Event |-> 0]
  /\ groups = [e \in Event |-> <<>>]
  /\ listOwner = [e \in Event |-> NULL]
  /\ gstate = [g \in Group |-> "none"]
  /\ gsignaled = [g \in Group |-> NULL]
  /\ gwaits = [g \in Group |-> 0]
  /\ gOwner = [g \in Group |-> NULL]
  /\ pc = [t \in Thread |-> "idle"]
  /\ on = [t \in Thread |-> NULL]
  /\ todo = [t \in Thread |-> <<>>]

(* Thread t goes on to s; at "idle" it is in no object any more.           *)
Goto(t, s) ==
  /\ pc' = [pc EXCEPT ![t] = s]
  /\ on' = IF s = "idle" THEN [on EXCEPT ![t] = NULL] ELSE on

(* Thread t enters an operation on object o.                               *)
Enter(t, o, s) ==
  /\ pc[t] = "idle"
  /\ pc' = [pc EXCEPT ![t] = s]
  /\ on' = [on EXCEPT ![t] = o]

-----------------------------------------------------------------------------
(* CEvent                                                                  *)

(* Plausible bug: the first waiter to leave resets the event.              *)
LeftBy_First(e, others) == signaled[e] /\ e \in Manual

(* prepReturn: what is left of the flag when a waiter leaves so many others. *)
LeftBy(e, others) == signaled[e] /\ (e \in Manual \/ others # 0)

(* Set(): the flag, under the mutex; ...                                   *)
SetFlag(t, e) ==
  /\ t \in Setter
  /\ Enter(t, e, "notify")
  /\ signaled' = [signaled EXCEPT ![e] = TRUE]
  /\ UNCHANGED <<waits, groups, listOwner, groupVars, todo>>

(* Plausible bug: one thread is notified, not all of them.                 *)
Notify_One(t) ==
  /\ pc[t] = "notify"
  /\ LET Sleepers == {u \in Thread : pc[u] = "asleep" /\ on[u] = on[t]}
     IN  \/ Sleepers = {} /\ Goto(t, "list")
         \/ \E u \in Sleepers : /\ pc' = [pc EXCEPT ![t] = "list", ![u] = "woken"]
                                /\ UNCHANGED on
  /\ UNCHANGED <<eventVars, groupVars, todo>>

(* ... then condVar.notifyAll(), without it; ...                           *)
Notify(t) ==
  /\ pc[t] = "notify"
  /\ pc' = [u \in Thread |->
              CASE u = t -> "list"
                [] pc[u] = "asleep" /\ on[u] = on[t] -> "woken"
                [] OTHER -> pc[u]]
  /\ UNCHANGED <<eventVars, groupVars, on, todo>>

(* ... then the groups, under groupListMutex.                              *)
LockList(t) ==
  /\ pc[t] = "list"
  /\ listOwner[on[t]] = NULL
  /\ listOwner' = [listOwner EXCEPT ![on[t]] = t]
  /\ todo' = [todo EXCEPT ![t] = groups[on[t]]]
  /\ Goto(t, "tell")
  /\ UNCHANGED <<signaled, waits, groups, groupVars>>

(* Plausible bug: nobody is notified.                                      *)
TellGroup_Forgets(t) ==
  /\ pc[t] = "tell" /\ todo[t] # <<>>
  /\ gOwner[Head(todo[t])] = NULL
  /\ gsignaled' = [gsignaled EXCEPT ![Head(todo[t])] = on[t]]
  /\ todo' = [todo EXCEPT ![t] = Tail(@)]
  /\ UNCHANGED <<eventVars, gstate, gwaits, gOwner, pc, on>>

(* CEventGroup::Set(): its flag, and notifyAll, under the group's mutex.   *)
TellGroup(t) ==
  /\ pc[t] = "tell" /\ todo[t] # <<>>
  /\ LET g == Head(todo[t])
     IN  /\ gOwner[g] = NULL
         /\ gsignaled' = [gsignaled EXCEPT ![g] = on[t]]
         /\ pc' = [u \in Thread |->
                     IF pc[u] = "gasleep" /\ on[u] = g THEN "gwoken" ELSE pc[u]]
  /\ todo' = [todo EXCEPT ![t] = Tail(@)]
  /\ UNCHANGED <<eventVars, gstate, gwaits, gOwner, on>>

SetReturn(t) ==
  /\ pc[t] = "tell" /\ todo[t] = <<>>
  /\ listOwner' = [listOwner EXCEPT ![on[t]] = NULL]
  /\ Goto(t, "idle")
  /\ UNCHANGED <<signaled, waits, groups, groupVars, todo>>

Reset(e) ==
  /\ e \in Resettable
  /\ signaled' = [signaled EXCEPT ![e] = FALSE]
  /\ UNCHANGED <<waits, groups, listOwner, groupVars, threadVars>>

(* Wait() and WaitMSec() find the event signaled, ...                      *)
WaitSignaled(t, e) ==
  /\ t \in Waiter /\ pc[t] = "idle"
  /\ signaled[e]
  /\ signaled' = [signaled EXCEPT ![e] = LeftBy(e, waits[e])]
  /\ UNCHANGED <<waits, groups, listOwner, groupVars, threadVars>>

(* ... or enter the condition variable, in the same critical section.      *)
WaitSleep(t, e) ==
  /\ t \in Waiter
  /\ ~signaled[e]
  /\ Enter(t, e, "asleep")
  /\ waits' = [waits EXCEPT ![e] = @ + 1]
  /\ UNCHANGED <<signaled, groups, listOwner, groupVars, todo>>

(* A condition variable may return without a notify: its time is up, or    *)
(* for no reason.                                                          *)
Stir(t) ==
  \/ pc[t] = "asleep" /\ Goto(t, "woken")
     /\ UNCHANGED <<eventVars, groupVars, todo>>
  \/ pc[t] = "gasleep" /\ Goto(t, "gwoken")
     /\ UNCHANGED <<eventVars, groupVars, todo>>

(* Out of the condition variable and signaled: Wait() returns true.        *)
WaitReturn(t) ==
  /\ pc[t] = "woken"
  /\ signaled[on[t]]
  /\ waits' = [waits EXCEPT ![on[t]] = @ - 1]
  /\ signaled' = [signaled EXCEPT ![on[t]] = LeftBy(on[t], waits[on[t]] - 1)]
  /\ Goto(t, "idle")
  /\ UNCHANGED <<groups, listOwner, groupVars, todo>>

(* Not signaled: back into the condition variable, ...                     *)
WaitAgain(t) ==
  /\ pc[t] = "woken" /\ ~signaled[on[t]]
  /\ Goto(t, "asleep")
  /\ UNCHANGED <<eventVars, groupVars, todo>>

(* ... or, the time being up, WaitMSec() returns false.                    *)
WaitTimeOut(t) ==
  /\ pc[t] = "woken" /\ ~signaled[on[t]]
  /\ waits' = [waits EXCEPT ![on[t]] = @ - 1]
  /\ Goto(t, "idle")
  /\ UNCHANGED <<signaled, groups, listOwner, groupVars, todo>>

-----------------------------------------------------------------------------
(* CEventGroup                                                             *)

(* The constructor adds the group to its events one by one.                *)
Construct(t, g) ==
  /\ t \in GroupWaiter
  /\ gstate[g] = "none"
  /\ Enter(t, g, "build")
  /\ gstate' = [gstate EXCEPT ![g] = "building"]
  /\ todo' = [todo EXCEPT ![t] = Members[g]]
  /\ UNCHANGED <<eventVars, gsignaled, gwaits, gOwner>>

AddGroup(t) ==
  /\ pc[t] = "build" /\ todo[t] # <<>>
  /\ listOwner[Head(todo[t])] = NULL
  /\ groups' = [groups EXCEPT ![Head(todo[t])] = Append(@, on[t])]
  /\ todo' = [todo EXCEPT ![t] = Tail(@)]
  /\ UNCHANGED <<signaled, waits, listOwner, groupVars, pc, on>>

Constructed(t) ==
  /\ pc[t] = "build" /\ todo[t] = <<>>
  /\ gstate' = [gstate EXCEPT ![on[t]] = "live"]
  /\ Goto(t, "idle")
  /\ UNCHANGED <<eventVars, gsignaled, gwaits, gOwner, todo>>

(* The destructor, when nobody waits for the group, removes it again.      *)
Destroy(t, g) ==
  /\ t \in GroupWaiter
  /\ gstate[g] = "live" /\ gwaits[g] = 0
  /\ Enter(t, g, "destroy")
  /\ gstate' = [gstate EXCEPT ![g] = "dying"]
  /\ todo' = [todo EXCEPT ![t] = Members[g]]
  /\ UNCHANGED <<eventVars, gsignaled, gwaits, gOwner>>

(* What std::remove leaves of a vector, in its order: the k-th element kept *)
(* is the one with k elements kept up to it.                               *)
Without(s, x) ==
  LET Kept == {i \in DOMAIN s : s[i] # x}
      Rank(i) == Cardinality({j \in Kept : j <= i})
  IN  [k \in 1 .. Cardinality(Kept) |-> s[CHOOSE i \in Kept : Rank(i) = k]]

(* Plausible bug: the list is changed without its lock.                    *)
RemoveGroup_Unlocked(t) ==
  /\ pc[t] = "destroy" /\ todo[t] # <<>>
  /\ groups' = [groups EXCEPT ![Head(todo[t])] = Without(@, on[t])]
  /\ todo' = [todo EXCEPT ![t] = Tail(@)]
  /\ UNCHANGED <<signaled, waits, listOwner, groupVars, pc, on>>

RemoveGroup(t) ==
  /\ pc[t] = "destroy" /\ todo[t] # <<>>
  /\ listOwner[Head(todo[t])] = NULL
  /\ groups' = [groups EXCEPT ![Head(todo[t])] = Without(@, on[t])]
  /\ todo' = [todo EXCEPT ![t] = Tail(@)]
  /\ UNCHANGED <<signaled, waits, listOwner, groupVars, pc, on>>

Destroyed(t) ==
  /\ pc[t] = "destroy" /\ todo[t] = <<>>
  /\ gstate' = [gstate EXCEPT ![on[t]] = "none"]
  /\ gsignaled' = [gsignaled EXCEPT ![on[t]] = NULL]
  /\ Goto(t, "idle")
  /\ UNCHANGED <<eventVars, gwaits, gOwner, todo>>

(* wait(): clear the group's flag and go through the events.               *)
GroupWait(t, g) ==
  /\ t \in GroupWaiter
  /\ gstate[g] = "live" /\ gOwner[g] = NULL
  /\ Enter(t, g, "scan")
  /\ gOwner' = [gOwner EXCEPT ![g] = t]
  /\ gwaits' = [gwaits EXCEPT ![g] = @ + 1]
  /\ gsignaled' = [gsignaled EXCEPT ![g] = NULL]
  /\ todo' = [todo EXCEPT ![t] = Members[g]]
  /\ UNCHANGED <<eventVars, gstate>>

ScanEvent(t) ==
  /\ pc[t] = "scan" /\ todo[t] # <<>>
  /\ gsignaled' = IF signaled[Head(todo[t])]
                  THEN [gsignaled EXCEPT ![on[t]] = Head(todo[t])] ELSE gsignaled
  /\ todo' = [todo EXCEPT ![t] = Tail(@)]
  /\ UNCHANGED <<eventVars, gstate, gwaits, gOwner, pc, on>>

(* Plausible bug: it sleeps with the mutex held.                           *)
GroupSleep_Locked(t) ==
  /\ pc[t] = "scan" /\ todo[t] = <<>>
  /\ gsignaled[on[t]] = NULL
  /\ Goto(t, "gasleep")
  /\ UNCHANGED <<eventVars, groupVars, todo>>

(* Nothing found: into the condition variable, which releases the mutex.   *)
GroupSleep(t) ==
  /\ pc[t] = "scan" /\ todo[t] = <<>>
  /\ gsignaled[on[t]] = NULL
  /\ gOwner' = [gOwner EXCEPT ![on[t]] = NULL]
  /\ Goto(t, "gasleep")
  /\ UNCHANGED <<eventVars, gstate, gsignaled, gwaits, todo>>

GroupAgain(t) ==
  /\ pc[t] = "gwoken"
  /\ gOwner[on[t]] = NULL /\ gsignaled[on[t]] = NULL
  /\ Goto(t, "gasleep")
  /\ UNCHANGED <<eventVars, groupVars, todo>>

(* Plausible bug: whoever returns clears the group's flag, not the last.   *)
GroupLeave_Any(t) ==
  LET g == on[t]
      e == gsignaled[g]
  IN  /\ gwaits' = [gwaits EXCEPT ![g] = @ - 1]
      /\ gOwner' = [gOwner EXCEPT ![g] = NULL]
      /\ signaled' = IF e # NULL THEN [signaled EXCEPT ![e] = LeftBy(e, waits[e])]
                     ELSE signaled
      /\ gsignaled' = [gsignaled EXCEPT ![g] = NULL]
      /\ Goto(t, "idle")
      /\ UNCHANGED <<waits, groups, listOwner, gstate, todo>>

(* wait() returns the group's flag.  The last to leave clears it, and      *)
(* resets the event it names by a WaitMSec(0).                             *)
GroupLeave(t) ==
  LET g == on[t]
      e == gsignaled[g]
      last == gwaits[g] = 1
  IN  /\ gwaits' = [gwaits EXCEPT ![g] = @ - 1]
      /\ gOwner' = [gOwner EXCEPT ![g] = NULL]
      /\ signaled' = IF last /\ e # NULL
                     THEN [signaled EXCEPT ![e] = LeftBy(e, waits[e])] ELSE signaled
      /\ gsignaled' = IF last THEN [gsignaled EXCEPT ![g] = NULL] ELSE gsignaled
      /\ Goto(t, "idle")
      /\ UNCHANGED <<waits, groups, listOwner, gstate, todo>>

(* It found an event, or was told of one, or its time is up.               *)
GroupFound(t) ==
  pc[t] = "scan" /\ todo[t] = <<>> /\ gsignaled[on[t]] # NULL /\ GroupLeave(t)
GroupTold(t) ==
  pc[t] = "gwoken" /\ gOwner[on[t]] = NULL /\ gsignaled[on[t]] # NULL /\ GroupLeave(t)
GroupTimeOut(t) ==
  pc[t] = "gwoken" /\ gOwner[on[t]] = NULL /\ gsignaled[on[t]] = NULL /\ GroupLeave(t)

-----------------------------------------------------------------------------
(* What a thread inside an operation does next, of itself.                 *)
Progress(t) ==
  \/ Notify(t) \/ LockList(t) \/ TellGroup(t) \/ SetReturn(t)
  \/ WaitReturn(t) \/ WaitAgain(t)
  \/ AddGroup(t) \/ Constructed(t) \/ RemoveGroup(t) \/ Destroyed(t)
  \/ ScanEvent(t) \/ GroupSleep(t) \/ GroupAgain(t) \/ GroupFound(t) \/ GroupTold(t)

Next ==
  \/ \E t \in Thread, e \in Event : SetFlag(t, e) \/ WaitSignaled(t, e) \/ WaitSleep(t, e)
  \/ \E t \in Thread, g \in Group : Construct(t, g) \/ Destroy(t, g) \/ GroupWait(t, g)
  \/ \E t \in Thread : Stir(t) \/ WaitTimeOut(t) \/ GroupTimeOut(t) \/ Progress(t)
  \/ \E e \in Event : Reset(e)

Spec == Init /\ [][Next]_vars

(* Threads run on, and a thread that waits for a mutex that is free again  *)
(* and again gets it.  Nobody need call anything, and no time runs out.    *)
Fairness == \A t \in Thread : SF_vars(Progress(t))
FairSpec == Spec /\ Fairness

-----------------------------------------------------------------------------
(* Properties                                                              *)

(* Thread t is in the wait() of event or group o.                          *)
InWait(t, o) ==
  on[t] = o /\ pc[t] \in {"asleep", "woken", "scan", "gasleep", "gwoken"}

(* "This creates a race condition between setting [and] checking the       *)
(* signal and calling wait()" (CEvent::Set): nobody is left in the         *)
(* condition variable of an event that is signaled, unless the notifyAll   *)
(* that will get it out is still to come.                                  *)
NoMissedWakeup ==
  \A t \in Thread : pc[t] = "asleep" /\ signaled[on[t]] =>
    \E u \in Setter : pc[u] = "notify" /\ on[u] = on[t]

(* The same across two flags and three locks: nobody sleeps in a group     *)
(* while one of its events is signaled, unless a Set() on its way to the   *)
(* group is going to tell it.                                              *)
ToBeTold(g, e) ==
  \E u \in Setter : /\ on[u] = e
                    /\ \/ pc[u] \in {"notify", "list"}
                       \/ pc[u] = "tell" /\ Contains(todo[u], g)
NoMissedGroupWakeup ==
  \A t \in Thread : pc[t] = "gasleep" =>
    \A e \in Event : Contains(Members[on[t]], e) /\ signaled[e] => ToBeTold(on[t], e)

(* Set() only touches groups that still exist: a destructor that returned  *)
(* has taken the group out of every list and every running loop.           *)
GroupOutlivesSet ==
  \A t \in Setter : pc[t] = "tell" =>
    \A g \in Group : Contains(todo[t], g) => gstate[g] # "none"

(* Everybody waiting for an event when it is signaled returns, not only    *)
(* the first: provided nobody resets it by hand.                           *)
WaitersReleased ==
  \A t \in Waiter, e \in Event \ Resettable :
    (InWait(t, e) /\ signaled[e]) ~> ~InWait(t, e)

(* An event that stays signaled gets everybody out of the groups it is in, *)
(* unless a direct waiter consumes it first: CThread::AbortableWait relies *)
(* on it, with a manual stop event that nobody consumes, to stop a thread. *)
GroupWaitInterrupted ==
  \A t \in GroupWaiter, g \in Group, e \in Event \ Resettable :
    (InWait(t, g) /\ signaled[e] /\ Contains(Members[g], e))
      ~> (~InWait(t, g) \/ ~signaled[e])

(* "Locking is always done in this order: groupListMutex, CEventGroup's    *)
(* mutex, CEvent's mutex": whatever the waits and destructors around it,   *)
(* Set() returns, and so does the destructor of a group.                   *)
SetReturns ==
  \A t \in Thread :
    (pc[t] \in {"notify", "list", "tell", "destroy"}) ~> (pc[t] = "idle")
=============================================================================
