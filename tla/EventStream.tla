----------------------------- MODULE EventStream -----------------------------
(***************************************************************************)
(* CEventSource and CEventStream (xbmc/utils/EventStream.h) with their     *)
(* CSubscriptions (EventStreamDetail.h): Publish copies the subscriptions  *)
(* and submits a job to the source's own CJobQueue, first in first out and *)
(* one at a time; the job calls the handlers of the subscriptions that     *)
(* were not cancelled in the meantime.                                     *)
(*                                                                         *)
(* The stream and each subscription have a critical section, the one of a  *)
(* subscription being held while its handler runs.  Callers bring locks of *)
(* their own: CAddonMgr publishes holding its m_critSection, which the     *)
(* handlers of CContextMenuManager take; CDirectoryProvider subscribes and *)
(* unsubscribes holding its m_section, which its own handlers take.        *)
(* A section that waits for nothing inside is one action and needs no      *)
(* owner in the model.                                                     *)
(***************************************************************************)
EXTENDS JobQueue

CONSTANTS
  Subscription,  \* CSubscription objects
  Owner,         \* subscribers; each one calls from a thread of its own
  OwnerOf,       \* whose handler a subscription is made for
  Publisher,     \* threads that publish
  Lock,          \* locks that callers and handlers share
  HeldBy,        \* the lock a caller holds meanwhile, or NULL
  TakenBy        \* the lock a subscription's handler takes, or NULL

ASSUME StreamAssumption ==
  /\ Key = Job /\ JobsAtOnce = 1 /\ QueuePriority = HIGH
  /\ NULL \notin Subscription \cup Owner \cup Publisher \cup Lock /\ Publisher \cap Owner = {}
  /\ OwnerOf \in [Subscription -> Owner]
  /\ HeldBy \in [Publisher \cup Owner -> Lock \cup {NULL}]
  /\ TakenBy \in [Subscription -> Lock \cup {NULL}]

VARIABLES
  m_subscriptions,  \* the stream's list
  m_owner,          \* whom a subscription calls; NULL once cancelled
  streamLock,       \* the owner inside the critical section of Unsubscribe
  holder,           \* the caller that holds a lock
  caller,           \* where each publisher and each owner is
  task,             \* the job made of the event that a publisher publishes
  it, toCancel,     \* the local variables of Unsubscribe
  subscribers,      \* the job's copy of the subscriptions: those still to call
  handling,         \* the subscription whose handler a worker is in
  made, gone        \* history: constructed; Unsubscribe of the owner returned

streamVars == <<m_subscriptions, m_owner, streamLock>>
callerVars == <<holder, caller, task, it, toCancel>>
esvars == <<qvars, streamVars, callerVars, subscribers, handling, made, gone>>

ESInit ==
  /\ QInit /\ ~m_lifo
  /\ m_subscriptions = <<>> /\ streamLock = NULL
  /\ m_owner = [s \in Subscription |-> NULL]
  /\ holder = [l \in Lock |-> NULL]
  /\ caller = [c \in Publisher \cup Owner |-> "idle"]
  /\ task = [p \in Publisher |-> NULL]
  /\ it = [o \in Owner |-> 1] /\ toCancel = [o \in Owner |-> <<>>]
  /\ subscribers = [j \in Job |-> <<>>]
  /\ handling = [w \in Worker |-> NULL]
  /\ made = {} /\ gone = {}

-----------------------------------------------------------------------------
(* The caller takes its lock, if it has one, and lets it go.               *)
Locks(c)   == IF HeldBy[c] = NULL THEN UNCHANGED holder
              ELSE holder[HeldBy[c]] = NULL /\ holder' = [holder EXCEPT ![HeldBy[c]] = c]
Unlocks(c) == IF HeldBy[c] = NULL THEN UNCHANGED holder
              ELSE holder' = [holder EXCEPT ![HeldBy[c]] = NULL]
Goes(c, from, to) == caller[c] = from /\ caller' = [caller EXCEPT ![c] = to]

(* The subscription's critical section is free.                            *)
Free(s) == \A w \in Worker : handling[w] # s

-----------------------------------------------------------------------------
(* Publish, from the point where the caller takes its own lock: the copy   *)
(* is made inside the stream's critical section, ...                       *)
PublishBegin(p, j) ==
  /\ Goes(p, "idle", "publish") /\ Locks(p)
  /\ heap[j] = "unborn" /\ \A q \in Publisher : task[q] # j
  /\ task' = [task EXCEPT ![p] = j]
  /\ UNCHANGED <<qvars, streamVars, it, toCancel, subscribers, handling, made, gone>>

Publish(p) ==
  /\ Goes(p, "publish", "submit") /\ streamLock = NULL
  /\ subscribers' = [subscribers EXCEPT ![task[p]] = m_subscriptions]
  /\ UNCHANGED <<qvars, streamVars, holder, task, it, toCancel, handling, made, gone>>

(* ... and the job is submitted outside.  A CLambdaJob equals only itself. *)
Submit(p) ==
  /\ Goes(p, "submit", "idle") /\ Unlocks(p)
  /\ AddToQueue(task[p], task[p])
  /\ task' = [task EXCEPT ![p] = NULL]
  /\ UNCHANGED <<streamVars, it, toCancel, subscribers, handling, made, gone>>

(* Subscribe: the object is made before the stream's section is entered.   *)
SubscribeBegin(o) ==
  /\ Goes(o, "idle", "subscribe") /\ Locks(o)
  /\ \E s \in Subscription \ made : OwnerOf[s] = o
  /\ UNCHANGED <<qvars, streamVars, task, it, toCancel, subscribers, handling, made, gone>>

Subscribe(o) ==
  /\ Goes(o, "subscribe", "idle") /\ Unlocks(o) /\ streamLock = NULL
  /\ \E s \in Subscription \ made :
       /\ OwnerOf[s] = o
       /\ m_subscriptions' = Append(m_subscriptions, s)
       /\ m_owner' = [m_owner EXCEPT ![s] = o]
       /\ made' = made \cup {s}
  /\ UNCHANGED <<qvars, streamLock, task, it, toCancel, subscribers, handling, gone>>

(* Unsubscribe, by an owner that did subscribe: inside the stream's        *)
(* critical section, ...                                                   *)
UnsubscribeBegin(o) ==
  /\ Goes(o, "idle", "unsubscribe") /\ Locks(o)
  /\ \E s \in made \ gone : OwnerOf[s] = o
  /\ UNCHANGED <<qvars, streamVars, task, it, toCancel, subscribers, handling, made, gone>>

Enter(o) ==
  /\ Goes(o, "unsubscribe", "looking") /\ streamLock = NULL /\ streamLock' = o
  /\ it' = [it EXCEPT ![o] = 1]
  /\ UNCHANGED <<qvars, m_subscriptions, m_owner, holder, task, toCancel, subscribers,
                 handling, made, gone>>

(* ... it asks each subscription, inside that one's section, whose it is,  *)
(* and moves its own ones to a list; ...                                   *)
IsOwnedBy(o) ==
  /\ caller[o] = "looking" /\ it[o] <= Len(m_subscriptions)
  /\ LET s == m_subscriptions[it[o]]
     IN  /\ Free(s)
         /\ \/ /\ m_owner[s] = o
               /\ m_subscriptions' = RemoveAt(m_subscriptions, it[o])
               /\ toCancel' = [toCancel EXCEPT ![o] = Append(@, s)]
               /\ UNCHANGED it
            \/ /\ m_owner[s] # o
               /\ it' = [it EXCEPT ![o] = @ + 1]
               /\ UNCHANGED <<m_subscriptions, toCancel>>
  /\ UNCHANGED <<qvars, m_owner, streamLock, holder, caller, task, subscribers,
                 handling, made, gone>>

(* Plausible bug: the stream's lock is kept.                               *)
Leave_KeepsLock(o) ==
  /\ Goes(o, "looking", "cancelling") /\ it[o] > Len(m_subscriptions)
  /\ UNCHANGED <<qvars, streamVars, holder, task, it, toCancel,
                 subscribers, handling, made, gone>>

Leave(o) ==
  /\ Goes(o, "looking", "cancelling") /\ it[o] > Len(m_subscriptions)
  /\ streamLock' = NULL
  /\ UNCHANGED <<qvars, m_subscriptions, m_owner, holder, task, it, toCancel,
                 subscribers, handling, made, gone>>

(* Plausible bug: the owner is cleared without the subscription's lock.    *)
Cancel_Unlocked(o) ==
  /\ caller[o] = "cancelling" /\ toCancel[o] # <<>>
  /\ m_owner' = [m_owner EXCEPT ![Head(toCancel[o])] = NULL]
  /\ toCancel' = [toCancel EXCEPT ![o] = Tail(@)]
  /\ UNCHANGED <<qvars, m_subscriptions, streamLock, holder, caller, task, it,
                 subscribers, handling, made, gone>>

(* ... then it cancels those outside of the stream's section, each in its  *)
(* own: which waits for a handler that is running.                         *)
Cancel(o) ==
  /\ caller[o] = "cancelling" /\ toCancel[o] # <<>> /\ Free(Head(toCancel[o]))
  /\ m_owner' = [m_owner EXCEPT ![Head(toCancel[o])] = NULL]
  /\ toCancel' = [toCancel EXCEPT ![o] = Tail(@)]
  /\ UNCHANGED <<qvars, m_subscriptions, streamLock, holder, caller, task, it,
                 subscribers, handling, made, gone>>

UnsubscribeReturn(o) ==
  /\ Goes(o, "cancelling", "idle") /\ Unlocks(o) /\ toCancel[o] = <<>>
  /\ gone' = gone \cup {s \in made : OwnerOf[s] = o}
  /\ UNCHANGED <<qvars, streamVars, task, it, toCancel, subscribers, handling, made>>

-----------------------------------------------------------------------------
(* DoWork of the job: HandleEvent of the next subscription, whose section  *)
(* is entered.  One that was cancelled is passed over, ...                 *)
HandleEvent(w) ==
  /\ pc[w] = "run" /\ handling[w] = NULL /\ subscribers[job[w]] # <<>>
  /\ LET s == Head(subscribers[job[w]])
     IN  /\ Free(s)
         /\ handling' = [handling EXCEPT ![w] = IF m_owner[s] = NULL THEN NULL ELSE s]
  /\ subscribers' = [subscribers EXCEPT ![job[w]] = Tail(@)]
  /\ UNCHANGED <<qvars, streamVars, callerVars, made, gone>>

(* ... the handler of another one takes its lock for a while and returns.  *)
HandlerReturns(w) ==
  /\ handling[w] # NULL
  /\ TakenBy[handling[w]] # NULL => holder[TakenBy[handling[w]]] = NULL
  /\ handling' = [handling EXCEPT ![w] = NULL]
  /\ UNCHANGED <<qvars, streamVars, callerVars, subscribers, made, gone>>

(* DoWork returns once the copy is exhausted.                              *)
TaskStep(w) ==
  \/ HandleEvent(w) \/ HandlerReturns(w)
  \/ /\ pc[w] = "run" => handling[w] = NULL /\ subscribers[job[w]] = <<>>
     /\ ThreadStep(w)
     /\ UNCHANGED <<streamVars, callerVars, subscribers, handling, made, gone>>

CallStep(c) ==
  \/ c \in Publisher /\ (Publish(c) \/ Submit(c))
  \/ c \in Owner /\ (\/ Subscribe(c) \/ Enter(c) \/ IsOwnedBy(c) \/ Leave(c)
                     \/ Cancel(c) \/ UnsubscribeReturn(c))

ESNext ==
  \/ \E p \in Publisher, j \in Job : PublishBegin(p, j)
  \/ \E o \in Owner : SubscribeBegin(o) \/ UnsubscribeBegin(o)
  \/ \E c \in Publisher \cup Owner : CallStep(c)
  \/ \E w \in Worker : TaskStep(w)

ESSpec == ESInit /\ [][ESNext]_esvars

(* Each worker goes on, and as long as a thread inside a call can go on,   *)
(* one does (their steps are few: fairness to each would give no more).    *)
(* Nobody has to publish, subscribe or unsubscribe.                        *)
ESFairness ==
  /\ WF_esvars(\E c \in Publisher \cup Owner : CallStep(c))
  /\ \A w \in Worker : WF_esvars(TaskStep(w))

ESFairSpec == ESSpec /\ ESFairness

-----------------------------------------------------------------------------
(* Nothing of a subscriber is called once its Unsubscribe has returned (it *)
(* is about to be destroyed): not by the jobs that copied the subscription *)
(* before, and not by a worker that had found it not cancelled.            *)
NoEventAfterUnsubscribe == \A w \in Worker : handling[w] \notin gone

(* Events reach the handlers one at a time and in the order in which they  *)
(* were submitted, whichever worker threads deliver them: the job that     *)
(* runs is the next one after those that have been reported.               *)
EventsInOrder ==
  \A w \in Worker : pc[w] = "run" => IsPrefix(Append(reported, job[w]), added)

(* Worker w is in a handler that waits for the lock of caller t, and t     *)
(* waits for w: for the subscription whose handler it is, or for a stream  *)
(* whose lock is held by someone who waits for that subscription.          *)
Awaits(t, w) ==
  \/ caller[t] = "looking" /\ it[t] <= Len(m_subscriptions)
       /\ handling[w] = m_subscriptions[it[t]]
  \/ caller[t] = "cancelling" /\ toCancel[t] # <<>> /\ handling[w] = Head(toCancel[t])
Crossed ==
  \E w \in Worker, t \in Publisher \cup Owner :
    /\ handling[w] # NULL /\ TakenBy[handling[w]] # NULL
    /\ holder[TakenBy[handling[w]]] = t
    /\ \/ Awaits(t, w)
       \/ /\ caller[t] \in {"publish", "subscribe", "unsubscribe"}
          /\ streamLock # NULL /\ caller[streamLock] = "looking" /\ Awaits(streamLock, w)

(* An event that is being published is handled by all it was published to, *)
(* and its job reported, unless a handler and a caller have crossed locks. *)
EventsArrive ==
  \A j \in Job : (\E p \in Publisher : task[p] = j) ~> j \in ToSet(reported) \/ Crossed

(* Unsubscribe may have to wait for a handler at each subscription it looks*)
(* at or cancels, for one at a time, and returns, with the same exception. *)
UnsubscribeReturns ==
  \A o \in Owner : caller[o] = "unsubscribe" ~> caller[o] = "idle" \/ Crossed
=============================================================================
