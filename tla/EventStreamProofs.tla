-------------------------- MODULE EventStreamProofs --------------------------
(***************************************************************************)
(* Proofs that no handler is called after its owner's Unsubscribe has      *)
(* returned, and that events are delivered in the order they were          *)
(* submitted, for any sets of subscriptions, owners, publishers, events    *)
(* and worker threads.                                                     *)
(***************************************************************************)
EXTENDS EventStream, JobQueueProofs

-----------------------------------------------------------------------------
(* The inductive invariant                                                 *)

CallerStates == {"idle", "publish", "submit", "subscribe", "unsubscribe",
                 "looking", "cancelling"}

StreamTypes ==
  /\ m_subscriptions \in Seq(Subscription)
  /\ m_owner \in [Subscription -> Owner \cup {NULL}]
  /\ caller \in [Publisher \cup Owner -> CallerStates]
  /\ task \in [Publisher -> Job \cup {NULL}]
  /\ \A p \in Publisher : caller[p] \in {"publish", "submit"} => task[p] \in Job
  /\ it \in [Owner -> Nat \ {0}]
  /\ toCancel \in [Owner -> Seq(Subscription)]
  /\ subscribers \in [Job -> Seq(Subscription)]
  /\ handling \in [Worker -> Subscription \cup {NULL}]
  /\ made \subseteq Subscription /\ gone \subseteq made

In(s, seq) == \E i \in 1 .. Len(seq) : seq[i] = s

(* Who is looking through the stream's list holds its lock.                *)
LockHeld == \A o \in Owner : caller[o] = "looking" => streamLock = o

(* A subscription belongs to the owner it was made for, until cancelled,   *)
(* and until then it is in the stream's list or about to be cancelled.     *)
OwnersKept ==
  \A s \in Subscription : m_owner[s] # NULL => s \in made /\ m_owner[s] = OwnerOf[s]
StillListed ==
  \A s \in Subscription : m_owner[s] # NULL =>
    In(s, m_subscriptions) \/ In(s, toCancel[OwnerOf[s]])

(* An owner that looks through the list leaves none of its own behind it.  *)
NoneOverlooked ==
  \A o \in Owner : \A i \in 1 .. Len(m_subscriptions) :
    caller[o] = "cancelling" \/ (caller[o] = "looking" /\ i < it[o])
      => m_owner[m_subscriptions[i]] # o

(* A handler that runs keeps its subscription from being cancelled.        *)
HandlersAlive == \A w \in Worker : handling[w] # NULL => m_owner[handling[w]] # NULL

GoneCancelled == \A s \in gone : m_owner[s] = NULL

SInv ==
  /\ LockHeld /\ OwnersKept /\ StillListed /\ NoneOverlooked
  /\ HandlersAlive /\ GoneCancelled

-----------------------------------------------------------------------------
(* The stream's lists                                                      *)

(* What erase() leaves: all the others, those after it one place earlier.  *)
LEMMA RemoveAtProperties ==
  ASSUME NEW S, NEW seq \in Seq(S), NEW i \in 1 .. Len(seq)
  PROVE  /\ RemoveAt(seq, i) \in Seq(S)
         /\ Len(RemoveAt(seq, i)) = Len(seq) - 1
         /\ \A k \in 1 .. Len(seq) - 1 :
              RemoveAt(seq, i)[k] = IF k < i THEN seq[k] ELSE seq[k + 1]
         /\ \A x : In(x, seq) => In(x, RemoveAt(seq, i)) \/ x = seq[i]
<1> DEFINE a == SubSeq(seq, 1, i - 1)
           b == SubSeq(seq, i + 1, Len(seq))
<1>1. /\ a \in Seq(S) /\ Len(a) = i - 1
      /\ \A k \in 1 .. i - 1 : a[k] = seq[k]
  BY SMT
<1>2. /\ b \in Seq(S) /\ Len(b) = Len(seq) - i
      /\ \A k \in 1 .. Len(seq) - i : b[k] = seq[k + i]
  BY SMT
<1>3. RemoveAt(seq, i) = a \o b
  BY DEF RemoveAt
<1> HIDE DEF a, b
<1>4. /\ a \o b \in Seq(S) /\ Len(a \o b) = Len(a) + Len(b)
      /\ \A k \in 1 .. Len(a) + Len(b) :
           (a \o b)[k] = IF k <= Len(a) THEN a[k] ELSE b[k - Len(a)]
  BY <1>1, <1>2, ConcatProperties
<1>0. Len(seq) \in Nat
  BY SMT
<1>5. ASSUME NEW k \in 1 .. Len(seq) - 1
      PROVE  RemoveAt(seq, i)[k] = IF k < i THEN seq[k] ELSE seq[k + 1]
  <2>1. RemoveAt(seq, i)[k] = IF k <= i - 1 THEN a[k] ELSE b[k - (i - 1)]
    <3>1. k \in 1 .. Len(a) + Len(b)
      BY <1>0, <1>1, <1>2, SMT
    <3> QED BY <3>1, <1>1, <1>3, <1>4
  <2>2. CASE k < i
    BY <2>1, <2>2, <1>0, <1>1, SMT
  <2>3. CASE ~(k < i)
    <3>1. k - (i - 1) \in 1 .. Len(seq) - i /\ k - (i - 1) + i = k + 1 /\ ~(k <= i - 1)
      BY <2>3, <1>0, SMT
    <3>2. b[k - (i - 1)] = seq[k - (i - 1) + i]
      BY <3>1, <1>2
    <3> QED BY <2>1, <2>3, <3>1, <3>2
  <2> QED BY <2>2, <2>3
<1>6. Len(RemoveAt(seq, i)) = Len(seq) - 1
  BY <1>0, <1>1, <1>2, <1>3, <1>4, SMT
<1>7. ASSUME NEW x, NEW n \in 1 .. Len(seq), seq[n] = x, x # seq[i]
      PROVE  In(x, RemoveAt(seq, i))
  <2>1. CASE n < i
    BY <1>0, <1>5, <1>6, <1>7, <2>1, SMT DEF In
  <2>2. CASE n > i
    <3>1. n - 1 \in 1 .. Len(seq) - 1 /\ RemoveAt(seq, i)[n - 1] = x
      BY <1>0, <1>5, <1>7, <2>2, SMT
    <3> QED BY <3>1, <1>6 DEF In
  <2> QED BY <1>7, <2>1, <2>2, SMT
<1> QED BY <1>3, <1>4, <1>5, <1>6, <1>7 DEF In

(* push_back keeps all there is and adds one at the end.                   *)
LEMMA AppendKeeps ==
  ASSUME NEW S, NEW seq \in Seq(S), NEW e \in S
  PROVE  /\ Append(seq, e) \in Seq(S)
         /\ Len(Append(seq, e)) = Len(seq) + 1
         /\ \A k \in 1 .. Len(seq) : Append(seq, e)[k] = seq[k]
         /\ Append(seq, e)[Len(seq) + 1] = e
         /\ \A x : In(x, seq) \/ x = e => In(x, Append(seq, e))
<1>1. /\ Append(seq, e) \in Seq(S) /\ Len(Append(seq, e)) = Len(seq) + 1
      /\ \A k \in 1 .. Len(seq) : Append(seq, e)[k] = seq[k]
      /\ Append(seq, e)[Len(seq) + 1] = e
  BY AppendProperties
<1>2. Len(seq) \in Nat
  BY SMT
<1>3. \A x : In(x, seq) \/ x = e => In(x, Append(seq, e))
  BY <1>1, <1>2, SMT DEF In
<1> QED BY <1>1, <1>3

(* Only the first entry is taken off.                                      *)
LEMMA TailKeeps ==
  ASSUME NEW S, NEW seq \in Seq(S), seq # <<>>
  PROVE  /\ Tail(seq) \in Seq(S) /\ Head(seq) \in S
         /\ \A x : In(x, seq) => In(x, Tail(seq)) \/ x = Head(seq)
<1>1. /\ Tail(seq) \in Seq(S) /\ Head(seq) \in S /\ Head(seq) = seq[1]
      /\ Len(Tail(seq)) = Len(seq) - 1 /\ Len(seq) \in Nat \ {0}
      /\ \A k \in 1 .. Len(seq) - 1 : Tail(seq)[k] = seq[k + 1]
  BY SMT
<1>2. ASSUME NEW x, NEW n \in 1 .. Len(seq), seq[n] = x, x # Head(seq)
      PROVE  In(x, Tail(seq))
  <2>1. n - 1 \in 1 .. Len(seq) - 1 /\ Tail(seq)[n - 1] = x
    BY <1>1, <1>2, SMT
  <2> QED BY <1>1, <2>1 DEF In
<1> QED BY <1>1, <1>2 DEF In

-----------------------------------------------------------------------------
(* Types                                                                   *)

(* Nothing has been subscribed or published yet.                           *)
LEMMA TypesInit == ESInit => StreamTypes
BY DEF ESInit, StreamTypes, CallerStates

(* Publish and the job's submission.                                       *)
LEMMA TypesPublisher ==
  ASSUME StreamTypes, NEW p \in Publisher, NEW j \in Job,
         PublishBegin(p, j) \/ Publish(p) \/ Submit(p)
  PROVE  StreamTypes'
<1>1. CASE PublishBegin(p, j)
  BY <1>1, StreamAssumption DEF PublishBegin, Goes, StreamTypes, CallerStates, streamVars
<1>2. CASE Publish(p)
  BY <1>2, StreamAssumption DEF Publish, Goes, StreamTypes, CallerStates, streamVars
<1>3. CASE Submit(p)
  BY <1>3, StreamAssumption DEF Submit, Goes, StreamTypes, CallerStates, streamVars
<1> QED BY <1>1, <1>2, <1>3

OwnerSteps(o) ==
  SubscribeBegin(o) \/ Subscribe(o) \/ UnsubscribeBegin(o) \/ Enter(o) \/ IsOwnedBy(o)
    \/ Leave(o) \/ Cancel(o) \/ UnsubscribeReturn(o)

(* Subscribe and Unsubscribe.                                              *)
LEMMA TypesOwner ==
  ASSUME StreamTypes, NEW o \in Owner, OwnerSteps(o)
  PROVE  StreamTypes'
<1>3. CASE SubscribeBegin(o) \/ UnsubscribeBegin(o) \/ Enter(o) \/ Leave(o)
  <2>1. PICK c \in CallerStates : caller' = [caller EXCEPT ![o] = c]
    BY <1>3 DEF CallerStates, SubscribeBegin, UnsubscribeBegin, Enter, Leave, Goes
  <2>2. it' = it \/ it' = [it EXCEPT ![o] = 1]
    BY <1>3 DEF SubscribeBegin, UnsubscribeBegin, Enter, Leave
  <2>3. UNCHANGED <<m_subscriptions, m_owner, task, toCancel, subscribers, handling, made, gone>>
    BY <1>3 DEF SubscribeBegin, UnsubscribeBegin, Enter, Leave, streamVars
  <2>4. caller' \in [Publisher \cup Owner -> CallerStates]
    BY <2>1 DEF StreamTypes
  <2>5. it' \in [Owner -> Nat \ {0}]
    <3>1. 1 \in Nat \ {0} /\ it \in [Owner -> Nat \ {0}]
      BY SMT DEF StreamTypes
    <3> QED BY <2>2, <3>1
  <2>6. \A p \in Publisher : caller'[p] = caller[p]
    BY <2>1, StreamAssumption DEF StreamTypes
  <2> QED BY <2>3, <2>4, <2>5, <2>6 DEF StreamTypes
<1>4. CASE Subscribe(o)
  <2>1. PICK s \in Subscription \ made :
          /\ m_subscriptions' = Append(m_subscriptions, s)
          /\ m_owner' = [m_owner EXCEPT ![s] = o]
          /\ made' = made \cup {s}
    BY <1>4 DEF Subscribe
  <2>2. m_subscriptions' \in Seq(Subscription)
    BY <2>1, AppendKeeps DEF StreamTypes
  <2> QED BY <1>4, <2>1, <2>2, StreamAssumption
          DEF Subscribe, Goes, StreamTypes, CallerStates
<1>5. CASE IsOwnedBy(o)
  <2> DEFINE s == m_subscriptions[it[o]]
  <2>1. it[o] \in 1 .. Len(m_subscriptions)
    BY <1>5, SMT DEF IsOwnedBy, StreamTypes
  <2>2. s \in Subscription
    BY <2>1 DEF StreamTypes
  <2>3. UNCHANGED <<m_owner, caller, task, subscribers, handling, made, gone>>
    BY <1>5 DEF IsOwnedBy
  <2>4. CASE m_owner[s] = o
    <3>1. /\ m_subscriptions' = RemoveAt(m_subscriptions, it[o])
          /\ toCancel' = [toCancel EXCEPT ![o] = Append(@, s)] /\ UNCHANGED it
      BY <1>5, <2>4 DEF IsOwnedBy
    <3>2. m_subscriptions' \in Seq(Subscription)
      BY <2>1, <3>1, RemoveAtProperties DEF StreamTypes
    <3>3. toCancel' \in [Owner -> Seq(Subscription)]
      BY <2>2, <3>1, AppendKeeps DEF StreamTypes
    <3> QED BY <2>3, <3>1, <3>2, <3>3 DEF StreamTypes
  <2>5. CASE m_owner[s] # o
    <3>1. /\ it' = [it EXCEPT ![o] = @ + 1]
          /\ UNCHANGED <<m_subscriptions, toCancel>>
      BY <1>5, <2>5 DEF IsOwnedBy
    <3>2. it' \in [Owner -> Nat \ {0}]
      BY <3>1 DEF StreamTypes
    <3> QED BY <2>3, <3>1, <3>2 DEF StreamTypes
  <2> QED BY <2>4, <2>5
<1>6. CASE Cancel(o)
  <2>1. toCancel[o] \in Seq(Subscription) /\ toCancel[o] # <<>>
    BY <1>6 DEF Cancel, StreamTypes
  <2>2. Tail(toCancel[o]) \in Seq(Subscription) /\ Head(toCancel[o]) \in Subscription
    BY <2>1, TailKeeps
  <2> QED BY <1>6, <2>2 DEF Cancel, StreamTypes
<1>7. CASE UnsubscribeReturn(o)
  BY <1>7, StreamAssumption DEF UnsubscribeReturn, Goes, StreamTypes, CallerStates, streamVars
<1> QED BY <1>3, <1>4, <1>5, <1>6, <1>7 DEF OwnerSteps

(* The worker threads, with the handlers they call.                        *)
LEMMA TypesWorker ==
  ASSUME ManagerInv, StreamTypes, NEW w \in Worker, TaskStep(w)
  PROVE  StreamTypes'
<1>1. CASE HandleEvent(w)
  <2>2. job[w] \in Job
    BY <1>1 DEF HandleEvent, ManagerInv, TypeOK, ThreadInv, Busy
  <2>3. subscribers[job[w]] \in Seq(Subscription) /\ subscribers[job[w]] # <<>>
    BY <1>1, <2>2 DEF HandleEvent, StreamTypes
  <2>4. /\ Tail(subscribers[job[w]]) \in Seq(Subscription)
        /\ Head(subscribers[job[w]]) \in Subscription
    BY <2>3, TailKeeps
  <2>5. handling' \in [Worker -> Subscription \cup {NULL}]
    BY <1>1, <2>4 DEF HandleEvent, StreamTypes
  <2>6. subscribers' \in [Job -> Seq(Subscription)]
    BY <1>1, <2>2, <2>4 DEF HandleEvent, StreamTypes
  <2>7. UNCHANGED <<streamVars, callerVars, made, gone>>
    BY <1>1 DEF HandleEvent
  <2> QED BY <2>5, <2>6, <2>7 DEF StreamTypes, streamVars, callerVars
<1>2. CASE HandlerReturns(w)
  BY <1>2 DEF HandlerReturns, StreamTypes, streamVars, callerVars
<1>3. CASE ThreadStep(w) /\ UNCHANGED <<streamVars, callerVars, subscribers, handling, made, gone>>
  BY <1>3 DEF StreamTypes, streamVars, callerVars
<1> QED BY <1>1, <1>2, <1>3 DEF TaskStep

-----------------------------------------------------------------------------
(* The relations between the lists, the owners and the handlers            *)

(* Nothing has been subscribed or published yet.                           *)
LEMMA InvInit == ESInit => SInv
<1> SUFFICES ASSUME ESInit PROVE SInv
  OBVIOUS
<1> QED BY DEF ESInit, SInv, LockHeld, OwnersKept, StillListed, NoneOverlooked, HandlersAlive,
           GoneCancelled

(* A step that changes none of these, and takes no owner into Unsubscribe. *)
LEMMA InvFrame ==
  ASSUME StreamTypes, SInv,
         UNCHANGED <<m_subscriptions, m_owner, streamLock, it, toCancel, handling, made, gone>>,
         \A o \in Owner : caller'[o] \in {"looking", "cancelling"} => caller'[o] = caller[o]
  PROVE  SInv'
BY DEF SInv, LockHeld, OwnersKept, StillListed, NoneOverlooked, HandlersAlive, GoneCancelled, In

(* Publishing reads the list and changes no subscription.                  *)
LEMMA InvPublisher ==
  ASSUME StreamTypes, SInv, NEW p \in Publisher, NEW j \in Job,
         PublishBegin(p, j) \/ Publish(p) \/ Submit(p)
  PROVE  SInv'
<1>1. UNCHANGED <<m_subscriptions, m_owner, streamLock, it, toCancel, handling, made, gone>>
  BY DEF PublishBegin, Publish, Submit, streamVars
<1>2. \E c : caller' = [caller EXCEPT ![p] = c]
  BY DEF PublishBegin, Publish, Submit, Goes
<1>3. \A o \in Owner : caller'[o] = caller[o]
  BY <1>2, StreamAssumption DEF StreamTypes
<1> QED BY <1>1, <1>3, InvFrame

(* Subscribe: nobody is looking through the list, whose lock is free.      *)
LEMMA InvSubscribe ==
  ASSUME StreamTypes, SInv, NEW o \in Owner, Subscribe(o)
  PROVE  SInv'
<1>1. PICK s \in Subscription \ made :
        /\ OwnerOf[s] = o
        /\ m_subscriptions' = Append(m_subscriptions, s)
        /\ m_owner' = [m_owner EXCEPT ![s] = o]
        /\ made' = made \cup {s}
  BY DEF Subscribe
<1>2. /\ streamLock = NULL /\ caller' = [caller EXCEPT ![o] = "idle"]
      /\ UNCHANGED <<streamLock, it, toCancel, handling, gone>>
  BY DEF Subscribe, Goes
<1>3. /\ Len(m_subscriptions') = Len(m_subscriptions) + 1 /\ Len(m_subscriptions) \in Nat
      /\ \A k \in 1 .. Len(m_subscriptions) : m_subscriptions'[k] = m_subscriptions[k]
      /\ m_subscriptions'[Len(m_subscriptions) + 1] = s
      /\ \A x : In(x, m_subscriptions) \/ x = s => In(x, m_subscriptions')
  <2>1. m_subscriptions \in Seq(Subscription)
    BY DEF StreamTypes
  <2>2. Len(m_subscriptions) \in Nat
    BY <2>1, SMT
  <2> QED BY <1>1, <2>1, <2>2, AppendKeeps
<1>4. \A q \in Owner : caller[q] # "looking"
  BY <1>2, StreamAssumption DEF SInv, LockHeld
<1>5. /\ caller'[o] = "idle" /\ \A q \in Owner \ {o} : caller'[q] = caller[q]
      /\ m_owner'[s] = o /\ \A t \in Subscription \ {s} : m_owner'[t] = m_owner[t]
      /\ o # NULL
  BY <1>1, <1>2, StreamAssumption DEF StreamTypes
<1>6. LockHeld'
  BY <1>4, <1>5, <1>2 DEF LockHeld
<1>7. OwnersKept'
  BY <1>1, <1>5 DEF OwnersKept, SInv
<1>8. StillListed'
  BY <1>1, <1>2, <1>3, <1>5 DEF StillListed, SInv
<1>9. ASSUME NEW q \in Owner, NEW i \in 1 .. Len(m_subscriptions'), caller'[q] = "cancelling"
      PROVE  m_owner'[m_subscriptions'[i]] # q
  <2>1. q # o /\ caller[q] = "cancelling"
    BY <1>5, <1>9
  <2>2. CASE m_subscriptions'[i] = s
    BY <1>5, <2>1, <2>2
  <2>3. CASE m_subscriptions'[i] # s
    <3>1. i \in 1 .. Len(m_subscriptions)
      BY <1>3, <2>3, SMT
    <3>2. m_subscriptions[i] \in Subscription /\ m_subscriptions'[i] = m_subscriptions[i]
      BY <1>3, <3>1 DEF StreamTypes
    <3> QED BY <1>5, <2>1, <2>3, <3>1, <3>2 DEF SInv, NoneOverlooked
  <2> QED BY <2>2, <2>3
<1>10. NoneOverlooked'
  BY <1>4, <1>5, <1>9 DEF NoneOverlooked
<1>11. HandlersAlive' /\ GoneCancelled'
  BY <1>1, <1>2, <1>5 DEF HandlersAlive, GoneCancelled, SInv, StreamTypes
<1> QED BY <1>6, <1>7, <1>8, <1>10, <1>11 DEF SInv

(* Enter: it takes the lock that was free, and starts at the first entry.  *)
LEMMA InvEnter ==
  ASSUME StreamTypes, SInv, NEW o \in Owner, Enter(o)
  PROVE  SInv'
<1>1. /\ streamLock = NULL /\ streamLock' = o /\ caller' = [caller EXCEPT ![o] = "looking"]
      /\ it' = [it EXCEPT ![o] = 1]
      /\ UNCHANGED <<m_subscriptions, m_owner, toCancel, handling, made, gone>>
  BY DEF Enter, Goes
<1>2. /\ caller'[o] = "looking" /\ it'[o] = 1
      /\ \A q \in Owner \ {o} : caller'[q] = caller[q] /\ it'[q] = it[q]
      /\ \A q \in Owner : caller[q] # "looking"
  BY <1>1, StreamAssumption DEF StreamTypes, SInv, LockHeld
<1>3. LockHeld'
  BY <1>1, <1>2 DEF LockHeld
<1>4. ASSUME NEW q \in Owner, NEW i \in 1 .. Len(m_subscriptions),
             caller'[q] = "cancelling" \/ (caller'[q] = "looking" /\ i < it'[q])
      PROVE  m_owner[m_subscriptions[i]] # q
  <2>1. i >= 1
    BY SMT
  <2>2. q # o
    BY <1>2, <1>4, <2>1, SMT
  <2> QED BY <1>2, <1>4, <2>2 DEF SInv, NoneOverlooked
<1>5. NoneOverlooked'
  BY <1>1, <1>4 DEF NoneOverlooked
<1> QED BY <1>1, <1>3, <1>5 DEF SInv, OwnersKept, StillListed, HandlersAlive, GoneCancelled, In

(* IsOwnedBy: an own subscription moves from the list to the other one.    *)
LEMMA InvIsOwnedBy ==
  ASSUME StreamTypes, SInv, NEW o \in Owner, IsOwnedBy(o)
  PROVE  SInv'
<1> DEFINE n == Len(m_subscriptions)
           s == m_subscriptions[it[o]]
<1>1. /\ caller[o] = "looking" /\ n \in Nat /\ it[o] \in 1 .. n /\ s \in Subscription
      /\ UNCHANGED <<m_owner, streamLock, caller, handling, made, gone>>
  <2>1. it[o] \in 1 .. n /\ n \in Nat
    BY SMT DEF IsOwnedBy, StreamTypes
  <2> QED BY <2>1 DEF IsOwnedBy, StreamTypes
<1>2. \A q \in Owner : caller[q] = "looking" => q = o
  BY <1>1 DEF SInv, LockHeld
<1>3. CASE m_owner[s] = o
  <2>1. /\ m_subscriptions' = RemoveAt(m_subscriptions, it[o])
        /\ toCancel' = [toCancel EXCEPT ![o] = Append(@, s)] /\ UNCHANGED it
    BY <1>3 DEF IsOwnedBy
  <2>2. /\ Len(m_subscriptions') = n - 1
        /\ \A k \in 1 .. n - 1 :
             m_subscriptions'[k] = IF k < it[o] THEN m_subscriptions[k] ELSE m_subscriptions[k + 1]
        /\ \A x : In(x, m_subscriptions) => In(x, m_subscriptions') \/ x = s
    <3>1. m_subscriptions \in Seq(Subscription)
      BY DEF StreamTypes
    <3> QED BY ONLY <1>1, <2>1, <3>1, RemoveAtProperties
  <2>3. /\ \A x : In(x, toCancel[o]) \/ x = s => In(x, toCancel'[o])
        /\ \A q \in Owner \ {o} : toCancel'[q] = toCancel[q]
    <3>1. toCancel[o] \in Seq(Subscription) /\ toCancel'[o] = Append(toCancel[o], s)
      BY <2>1 DEF StreamTypes
    <3>2. \A q \in Owner \ {o} : toCancel'[q] = toCancel[q]
      BY <2>1 DEF StreamTypes
    <3> QED BY <1>1, <3>1, <3>2, AppendKeeps
  <2>4. OwnerOf[s] = o
    BY <1>1, <1>3, StreamAssumption DEF SInv, OwnersKept
  <2>5. StillListed'
    <3> SUFFICES ASSUME NEW t \in Subscription, m_owner[t] # NULL
                 PROVE  In(t, m_subscriptions') \/ In(t, toCancel'[OwnerOf[t]])
      BY <1>1 DEF StillListed, In
    <3>1. OwnerOf[t] \in Owner
      BY StreamAssumption
    <3>2. In(t, m_subscriptions) \/ In(t, toCancel[OwnerOf[t]])
      BY DEF SInv, StillListed
    <3>3. CASE In(t, m_subscriptions)
      BY <2>2, <2>3, <2>4, <3>3
    <3>4. CASE In(t, toCancel[OwnerOf[t]])
      BY <2>3, <3>1, <3>4
    <3> QED BY <3>2, <3>3, <3>4
  <2>6. ASSUME NEW q \in Owner, NEW i \in 1 .. n - 1,
               caller[q] = "cancelling" \/ (caller[q] = "looking" /\ i < it[q])
        PROVE  m_owner[m_subscriptions'[i]] # q
    <3>1. /\ i \in 1 .. n /\ i + 1 \in 1 .. n
          /\ m_subscriptions'[i] = IF i < it[o] THEN m_subscriptions[i] ELSE m_subscriptions[i + 1]
      BY <1>1, <2>2, SMT
    <3>2. CASE i < it[o]
      BY <2>6, <3>1, <3>2 DEF SInv, NoneOverlooked
    <3>3. CASE ~(i < it[o])
      <4>1. caller[q] = "cancelling"
        BY <1>2, <2>6, <3>3
      <4> QED BY <3>1, <3>3, <4>1 DEF SInv, NoneOverlooked
    <3> QED BY <3>2, <3>3
  <2>7. NoneOverlooked'
    BY <1>1, <2>1, <2>2, <2>6 DEF NoneOverlooked
  <2> QED BY <1>1, <2>5, <2>7 DEF SInv, LockHeld, OwnersKept, HandlersAlive, GoneCancelled
<1>4. CASE m_owner[s] # o
  <2>1. it' = [it EXCEPT ![o] = @ + 1] /\ UNCHANGED <<m_subscriptions, toCancel>>
    BY <1>4 DEF IsOwnedBy
  <2>2. it'[o] = it[o] + 1 /\ \A q \in Owner \ {o} : it'[q] = it[q]
    BY <2>1 DEF StreamTypes
  <2>3. ASSUME NEW q \in Owner, NEW i \in 1 .. n,
               caller[q] = "cancelling" \/ (caller[q] = "looking" /\ i < it'[q])
        PROVE  m_owner[m_subscriptions[i]] # q
    <3>1. CASE caller[q] = "cancelling"
      BY <3>1 DEF SInv, NoneOverlooked
    <3>2. CASE caller[q] = "looking"
      <4>1. q = o /\ i < it[o] + 1
        BY <1>2, <2>2, <2>3, <3>2
      <4>2. i < it[o] \/ i = it[o]
        BY <1>1, <4>1, SMT
      <4> QED BY <1>1, <1>4, <4>1, <4>2 DEF SInv, NoneOverlooked
    <3> QED BY <2>3, <3>1, <3>2
  <2>4. NoneOverlooked'
    BY <1>1, <2>1, <2>3 DEF NoneOverlooked
  <2> QED BY <1>1, <2>1, <2>4
          DEF SInv, LockHeld, OwnersKept, StillListed, HandlersAlive, GoneCancelled, In
<1> QED BY <1>3, <1>4

(* Leave: the list has been looked through to its end.                     *)
LEMMA InvLeave ==
  ASSUME StreamTypes, SInv, NEW o \in Owner, Leave(o)
  PROVE  SInv'
<1>1. /\ caller[o] = "looking" /\ caller' = [caller EXCEPT ![o] = "cancelling"]
      /\ it[o] > Len(m_subscriptions)
      /\ UNCHANGED <<m_subscriptions, m_owner, it, toCancel, handling, made, gone>>
  BY DEF Leave, Goes
<1>2. /\ caller'[o] = "cancelling" /\ \A q \in Owner \ {o} : caller'[q] = caller[q]
      /\ \A q \in Owner : caller[q] = "looking" => q = o
  BY <1>1 DEF StreamTypes, SInv, LockHeld
<1>3. LockHeld'
  BY <1>2 DEF LockHeld
<1>4. ASSUME NEW i \in 1 .. Len(m_subscriptions)
      PROVE  i < it[o]
  BY <1>1, SMT DEF StreamTypes
<1>5. NoneOverlooked'
  BY <1>1, <1>2, <1>4 DEF SInv, NoneOverlooked
<1> QED BY <1>1, <1>3, <1>5 DEF SInv, OwnersKept, StillListed, HandlersAlive, GoneCancelled, In

(* Cancel: the subscription's section is free, so no handler of it runs.   *)
LEMMA InvCancel ==
  ASSUME StreamTypes, SInv, NEW o \in Owner, Cancel(o)
  PROVE  SInv'
<1> DEFINE s == Head(toCancel[o])
<1>1. /\ Free(s) /\ m_owner' = [m_owner EXCEPT ![s] = NULL]
      /\ toCancel' = [toCancel EXCEPT ![o] = Tail(@)]
      /\ UNCHANGED <<m_subscriptions, streamLock, caller, it, handling, made, gone>>
  BY DEF Cancel
<1>2. /\ s \in Subscription
      /\ \A x : In(x, toCancel[o]) => In(x, Tail(toCancel[o])) \/ x = s
  BY TailKeeps DEF Cancel, StreamTypes
<1>3. /\ m_owner'[s] = NULL /\ \A t \in Subscription \ {s} : m_owner'[t] = m_owner[t]
      /\ toCancel'[o] = Tail(toCancel[o]) /\ \A q \in Owner \ {o} : toCancel'[q] = toCancel[q]
  BY <1>1, <1>2 DEF StreamTypes
<1> HIDE DEF s
<1>4. LockHeld' /\ OwnersKept'
  BY <1>1, <1>3 DEF SInv, LockHeld, OwnersKept
<1>5. StillListed'
  <2> SUFFICES ASSUME NEW t \in Subscription, m_owner'[t] # NULL
               PROVE  In(t, m_subscriptions') \/ In(t, toCancel'[OwnerOf[t]])
    BY DEF StillListed, In
  <2>1. t # s /\ m_owner[t] # NULL /\ OwnerOf[t] \in Owner
    BY <1>3, StreamAssumption
  <2>2. In(t, m_subscriptions) \/ In(t, toCancel[OwnerOf[t]])
    BY <2>1 DEF SInv, StillListed
  <2> QED BY <1>1, <1>2, <1>3, <2>1, <2>2
<1>6. NoneOverlooked'
  <2> SUFFICES ASSUME NEW q \in Owner, NEW i \in 1 .. Len(m_subscriptions),
                      caller[q] = "cancelling" \/ (caller[q] = "looking" /\ i < it[q])
               PROVE  m_owner'[m_subscriptions[i]] # q
    BY <1>1 DEF NoneOverlooked
  <2>1. m_owner[m_subscriptions[i]] # q /\ m_subscriptions[i] \in Subscription /\ q # NULL
    BY StreamAssumption DEF SInv, NoneOverlooked, StreamTypes
  <2> QED BY <1>3, <2>1
<1>7. HandlersAlive' /\ GoneCancelled'
  BY <1>1, <1>3 DEF SInv, HandlersAlive, GoneCancelled, Free, StreamTypes
<1> QED BY <1>4, <1>5, <1>6, <1>7 DEF SInv

(* UnsubscribeReturn: whatever the owner had is in neither list any more.  *)
LEMMA InvUnsubscribeReturn ==
  ASSUME StreamTypes, SInv, NEW o \in Owner, UnsubscribeReturn(o)
  PROVE  SInv'
<1>1. /\ caller[o] = "cancelling" /\ caller' = [caller EXCEPT ![o] = "idle"] /\ toCancel[o] = <<>>
      /\ gone' = gone \cup {s \in made : OwnerOf[s] = o}
      /\ UNCHANGED <<m_subscriptions, m_owner, streamLock, it, toCancel, handling, made>>
  BY DEF UnsubscribeReturn, Goes, streamVars
<1>2. caller'[o] = "idle" /\ \A q \in Owner \ {o} : caller'[q] = caller[q]
  BY <1>1 DEF StreamTypes
<1>3. ASSUME NEW s \in made, OwnerOf[s] = o, m_owner[s] # NULL
      PROVE  FALSE
  <2>1. s \in Subscription /\ m_owner[s] = o
    BY <1>3 DEF SInv, OwnersKept, StreamTypes
  <2>2. ~In(s, m_subscriptions)
    BY <1>1, <2>1 DEF In, SInv, NoneOverlooked
  <2>3. ~In(s, toCancel[o])
    BY <1>1, SMT DEF In
  <2> QED BY <1>3, <2>1, <2>2, <2>3 DEF SInv, StillListed
<1>4. GoneCancelled'
  BY <1>1, <1>3 DEF SInv, GoneCancelled
<1>5. LockHeld' /\ NoneOverlooked'
  BY <1>1, <1>2 DEF SInv, LockHeld, NoneOverlooked
<1> QED BY <1>1, <1>4, <1>5 DEF SInv, OwnersKept, StillListed, HandlersAlive, In

(* A handler starts only for a subscription that is not cancelled.         *)
LEMMA InvWorker ==
  ASSUME StreamTypes, SInv, NEW w \in Worker, TaskStep(w)
  PROVE  SInv'
<1>1. UNCHANGED <<m_subscriptions, m_owner, streamLock, it, toCancel, caller, made, gone>>
  BY DEF TaskStep, HandleEvent, HandlerReturns, streamVars, callerVars
<1>2. \A v \in Worker : handling'[v] \in {NULL, handling[v]} \/ m_owner[handling'[v]] # NULL
  BY DEF TaskStep, HandleEvent, HandlerReturns, StreamTypes
<1>3. HandlersAlive'
  BY <1>1, <1>2 DEF SInv, HandlersAlive
<1> QED BY <1>1, <1>3 DEF SInv, LockHeld, OwnersKept, StillListed, NoneOverlooked, GoneCancelled, In

-----------------------------------------------------------------------------
(* The inductive invariant, and what it is for.                            *)
StreamInv == InOrderInv /\ StreamTypes /\ SInv

(* The stream does nothing to its queue but add jobs.                      *)
LEMMA StreamDelivers == StreamTypes /\ [ESNext]_esvars => Delivers
<1> SUFFICES ASSUME StreamTypes, [ESNext]_esvars PROVE Delivers
  OBVIOUS
<1>1. CASE \E p \in Publisher : Submit(p)
  <2>1. PICK p \in Publisher : task[p] \in Job /\ AddToQueue(task[p], task[p])
    BY <1>1 DEF Submit, Goes, StreamTypes
  <2> QED BY <2>1, StreamAssumption DEF Delivers
<1>2. CASE \E w \in Worker : TaskStep(w)
  BY <1>2 DEF TaskStep, HandleEvent, HandlerReturns, Delivers
<1>3. CASE \/ \E p \in Publisher : Publish(p) \/ \E j \in Job : PublishBegin(p, j)
           \/ \E o \in Owner : OwnerSteps(o)
  BY <1>3 DEF PublishBegin, Publish, OwnerSteps, SubscribeBegin, Subscribe, UnsubscribeBegin,
     Enter, IsOwnedBy, Leave, Cancel, UnsubscribeReturn, Delivers
<1>4. CASE UNCHANGED esvars
  BY <1>4 DEF esvars, Delivers
<1> QED BY <1>1, <1>2, <1>3, <1>4 DEF ESNext, CallStep, OwnerSteps

(* No event has been submitted yet.                                        *)
LEMMA StreamInvInit == ESInit => StreamInv
<1> SUFFICES ASSUME ESInit PROVE StreamInv
  OBVIOUS
<1>1. /\ QInit /\ ~m_lifo /\ q_jobQueue = <<>> /\ q_processing = <<>> /\ ~q_lock
      /\ added = <<>> /\ reported = <<>> /\ dropped = {} /\ refused = {}
      /\ m_running /\ pc = [w \in Worker |-> "none"]
      /\ cancelled = [j \in Job |-> "no"] /\ m_jobQueue = [p \in Priority |-> <<>>]
  BY DEF ESInit, QInit, Init
<1>2. QueueOwns /\ EntryInv
  BY <1>1, OwnsInit, EntriesInit
<1>3. <<>> \in Seq(Job) /\ Len(<<>>) = 0 /\ 0 = 0 + 0 + 0
  BY EmptySeq
<1>4. InSequence(reported, q_processing, q_jobQueue, added)
  <2>1. \A i \in 1 .. 0 : FALSE
    OBVIOUS
  <2> QED BY <1>1, <1>3, <2>1 DEF InSequence
<1>5. Announced
  BY <1>1 DEF Announced, Queued, Unreported
<1>6. FifoInv
  BY <1>1, <1>3, <1>4, <1>5 DEF FifoInv, Undisturbed
<1> QED BY <1>2, <1>6, TypesInit, InvInit DEF StreamInv, InOrderInv

(* Every step, and every step of somebody else, keeps the invariant.       *)
LEMMA StreamInvNext == StreamInv /\ [ESNext]_esvars => StreamInv'
<1> SUFFICES ASSUME StreamInv, [ESNext]_esvars PROVE StreamInv'
  OBVIOUS
<1>0. InOrderInv /\ StreamTypes /\ SInv /\ ManagerInv
  BY DEF StreamInv, InOrderInv, QueueOwns
<1>1. InOrderInv'
  BY <1>0, StreamDelivers, InOrderStep, StreamAssumption
<1>2. ASSUME NEW p \in Publisher, NEW j \in Job, PublishBegin(p, j) \/ Publish(p) \/ Submit(p)
      PROVE  StreamTypes' /\ SInv'
  BY <1>0, <1>2, TypesPublisher, InvPublisher
<1>3. ASSUME NEW p \in Publisher, Publish(p) \/ Submit(p)
      PROVE  StreamTypes' /\ SInv'
  <2>1. PICK j \in Job : TRUE
    BY <1>0, <1>3 DEF Publish, Submit, Goes, StreamTypes
  <2> QED BY <1>2, <1>3, <2>1
<1>4. ASSUME NEW o \in Owner, OwnerSteps(o)
      PROVE  StreamTypes' /\ SInv'
  <2>1. StreamTypes'
    BY <1>0, <1>4, TypesOwner
  <2>2. CASE SubscribeBegin(o) \/ UnsubscribeBegin(o)
    <3>1. /\ UNCHANGED <<m_subscriptions, m_owner, streamLock, it, toCancel, handling, made, gone>>
          /\ \E c \in {"subscribe", "unsubscribe"} : caller' = [caller EXCEPT ![o] = c]
      BY <2>2 DEF SubscribeBegin, UnsubscribeBegin, Goes, streamVars
    <3>2. \A q \in Owner : caller'[q] \in {"looking", "cancelling"} => caller'[q] = caller[q]
      BY <1>0, <3>1 DEF StreamTypes
    <3> QED BY <1>0, <2>1, <3>1, <3>2, InvFrame
  <2>3. CASE Subscribe(o) \/ Enter(o) \/ IsOwnedBy(o) \/ Leave(o) \/ Cancel(o) \/ UnsubscribeReturn(o)
    BY <1>0, <2>1, <2>3, InvSubscribe, InvEnter, InvIsOwnedBy, InvLeave, InvCancel,
       InvUnsubscribeReturn
  <2> QED BY <1>4, <2>2, <2>3 DEF OwnerSteps
<1>5. ASSUME NEW w \in Worker, TaskStep(w)
      PROVE  StreamTypes' /\ SInv'
  BY <1>0, <1>5, TypesWorker, InvWorker
<1>6. ASSUME UNCHANGED esvars
      PROVE  StreamTypes' /\ SInv'
  <2>1. UNCHANGED <<m_subscriptions, m_owner, streamLock, it, toCancel, caller, task,
                    subscribers, handling, made, gone>>
    BY <1>6 DEF esvars, streamVars, callerVars
  <2> QED BY <1>0, <2>1, InvFrame DEF StreamTypes
<1>7. StreamTypes' /\ SInv'
  BY <1>2, <1>3, <1>4, <1>5, <1>6 DEF ESNext, CallStep, OwnerSteps
<1> QED BY <1>1, <1>7 DEF StreamInv

(* The invariant holds in every state the stream reaches.                  *)
THEOREM StreamInvariance == ESSpec => []StreamInv
<1> QED BY StreamInvInit, StreamInvNext, PTL DEF ESSpec

(* A handler that runs belongs to a subscription that is not cancelled,    *)
(* and what its owner's Unsubscribe left behind is.                        *)
THEOREM NoEventAfterUnsubscribeHolds == ESSpec => []NoEventAfterUnsubscribe
<1>1. StreamInv => NoEventAfterUnsubscribe
  <2> SUFFICES ASSUME StreamInv, NEW w \in Worker, handling[w] \in gone PROVE FALSE
    BY DEF NoEventAfterUnsubscribe
  <2>1. handling[w] # NULL
    BY StreamAssumption DEF StreamInv, StreamTypes
  <2> QED BY <2>1 DEF StreamInv, SInv, HandlersAlive, GoneCancelled
<1> QED BY <1>1, StreamInvariance, PTL

(* The job that runs is the only one passed on: in the order of AddJob it  *)
(* is the next after those that were reported, whichever threads ran them. *)
THEOREM EventsAreInOrder == ESSpec => []EventsInOrder
<1>1. StreamInv => EventsInOrder
  <2> SUFFICES ASSUME StreamInv, NEW w \in Worker, pc[w] = "run"
               PROVE  IsPrefix(Append(reported, job[w]), added)
    BY DEF EventsInOrder
  <2>1. /\ added \in Seq(Job) /\ reported \in Seq(Job) /\ Announced
        /\ q_processing \in Seq(Entry) /\ q_jobQueue \in Seq(Job) /\ Len(q_processing) <= 1
        /\ InSequence(reported, q_processing, q_jobQueue, added) /\ QTypes
    BY DEF StreamInv, InOrderInv, FifoInv, EntryInv, QueueOwns, QTypes
  <2>2. PICK r \in Nat, n \in Nat : r = Len(reported) /\ n = Len(q_jobQueue)
    BY <2>1, LenProperties
  <2>3. PICK e \in Entries : e.job = job[w]
    BY <2>1 DEF Announced, Unreported
  <2>4. Len(q_processing) = 1 /\ q_processing[1] = e /\ 1 \in 1 .. Len(q_processing)
    <3>1. PICK i \in 1 .. Len(q_processing) : q_processing[i] = e
      BY <2>1, ByPosition DEF Entries
    <3> QED BY <2>1, <3>1, OneAtMost
  <2>5. /\ Len(added) = r + 1 + n /\ added[r + 1] = job[w]
        /\ \A i \in 1 .. r : added[i] = reported[i]
    BY <2>1, <2>2, <2>3, <2>4 DEF InSequence
  <2>6. job[w] \in Job
    BY <2>1, <2>3, ListedAreJobs
  <2>7. PICK s : s = Append(reported, job[w])
    OBVIOUS
  <2>8. /\ s \in Seq(Job) /\ Len(s) = r + 1 /\ s[r + 1] = job[w]
        /\ \A i \in 1 .. r : s[i] = reported[i]
    BY <2>1, <2>2, <2>6, <2>7, Appended
  <2>9. r + 1 <= Len(added) /\ \A i \in 1 .. r + 1 : s[i] = added[i]
    <3>1. r + 1 <= r + 1 + n /\ \A i \in 1 .. r + 1 : i \in 1 .. r \/ i = r + 1
      BY <2>2
    <3> QED BY <2>5, <2>8, <3>1
  <2> QED BY <2>1, <2>7, <2>8, <2>9, PrefixByPosition
<1> QED BY <1>1, StreamInvariance, PTL

-----------------------------------------------------------------------------
(* No deadlock but one                                                     *)

(* The caller's lock and the stream's are held inside their calls only.    *)
SectionsHeld ==
  /\ streamLock \in Owner \cup {NULL}
  /\ streamLock # NULL => caller[streamLock] = "looking"
  /\ holder \in [Lock -> Publisher \cup Owner \cup {NULL}]
  /\ \A l \in Lock : holder[l] # NULL => HeldBy[holder[l]] = l /\ caller[holder[l]] # "idle"

(* A handler is called from a job that runs.                               *)
HandlersRun == \A w \in Worker : handling[w] # NULL => pc[w] = "run"

(* Publishers only publish; who subscribes has a subscription to make.     *)
SomeToMake ==
  /\ \A p \in Publisher : caller[p] \in {"idle", "publish", "submit"}
  /\ \A o \in Owner : caller[o] = "subscribe" => \E s \in Subscription \ made : OwnerOf[s] = o

(* What a caller inside a call, and a handler, need for their next step    *)
(* (the guards of CallStep and HandlerReturns; AddJob waits for the        *)
(* queue's lock only).                                                     *)
CallerGoesOn(c) ==
  \/ caller[c] \in {"publish", "unsubscribe"} /\ streamLock = NULL
  \/ caller[c] = "submit" /\ ~q_lock
  \/ /\ caller[c] = "subscribe" /\ streamLock = NULL
     /\ \E s \in Subscription \ made : OwnerOf[s] = c
  \/ caller[c] = "looking" /\ (it[c] > Len(m_subscriptions) \/ Free(m_subscriptions[it[c]]))
  \/ caller[c] = "cancelling" /\ (toCancel[c] = <<>> \/ Free(Head(toCancel[c])))
HandlerGoesOn(w) ==
  handling[w] # NULL /\ (TakenBy[handling[w]] # NULL => holder[TakenBy[handling[w]]] = NULL)

(* As long as a call or a handler is under way one of them can go on,      *)
(* unless a handler and a caller have crossed locks.                       *)
CallsAreNotStuck ==
  (\E c \in Publisher \cup Owner : caller[c] # "idle") \/ (\E w \in Worker : handling[w] # NULL) =>
    \/ \E c \in Publisher \cup Owner : CallerGoesOn(c)
    \/ \E w \in Worker : HandlerGoesOn(w)
    \/ Crossed

(* Events are handled one at a time.                                       *)
LEMMA OneRuns ==
  ASSUME StreamInv, NEW v \in Worker, NEW w \in Worker, pc[v] = "run", pc[w] = "run"
  PROVE  v = w
<1>1. /\ Announced /\ ThreadInv /\ q_processing \in Seq(Entry) /\ Len(q_processing) <= 1
  BY DEF StreamInv, InOrderInv, FifoInv, EntryInv, QueueOwns, QTypes, ManagerInv
<1>2. PICK e \in Entries, f \in Entries : e.job = job[v] /\ f.job = job[w]
  BY <1>1 DEF Announced, Unreported
<1>3. e = f
  BY <1>1, <1>2, OneAtMost DEF Entries
<1> QED BY <1>1, <1>2, <1>3 DEF ThreadInv, Busy

(* QueueNextJob starts a thread that was not there.                        *)
LEMMA NextJobLeavesRunning ==
  ASSUME NEW jobs, NEW procs, NEW pcs \in [Worker -> WorkerStates], NEW w \in Worker,
         pcs[w] = "run", QueueNextJob(jobs, procs, pcs)
  PROVE  pc'[w] = "run"
<1>1. CASE pc' = pcs
  BY <1>1
<1>2. CASE StartWorkers(QueuePriority, pcs)
  BY <1>2 DEF StartWorkers
<1> QED BY <1>1, <1>2 DEF QueueNextJob, Enqueue

(* A job runs on while others are added and other threads go on.           *)
LEMMA OthersLeaveRunning ==
  ASSUME TypeOK, NEW w \in Worker, pc[w] = "run",
         \/ \E j \in Job, k \in Key : AddToQueue(j, k)
         \/ \E v \in Worker \ {w} : ThreadStep(v)
  PROVE  pc'[w] = "run"
<1>0. pc \in [Worker -> WorkerStates]
  BY DEF TypeOK
<1>1. ASSUME NEW j \in Job, NEW k \in Key, AddToQueue(j, k) PROVE pc'[w] = "run"
  <2>1. pc' = pc \/ QueueNextJob(Inserted(j), q_processing, pc)
    BY <1>1 DEF AddToQueue
  <2> QED BY <1>0, <2>1, NextJobLeavesRunning
<1>2. ASSUME NEW v \in Worker \ {w}, OnJobComplete(v) PROVE pc'[w] = "run"
  <2>1. PICK procs : QueueNextJob(q_jobQueue, procs, [pc EXCEPT ![v] = "erase"])
    BY <1>2 DEF OnJobComplete
  <2>2. /\ [pc EXCEPT ![v] = "erase"] \in [Worker -> WorkerStates]
        /\ [pc EXCEPT ![v] = "erase"][w] = "run"
    BY <1>0 DEF WorkerStates
  <2> QED BY <2>1, <2>2, NextJobLeavesRunning
<1>3. ASSUME NEW v \in Worker \ {w}, ThreadStep(v), ~OnJobComplete(v) PROVE pc'[w] = "run"
  BY <1>0, <1>3 DEF ThreadStep, TakeJob, LeaveLock, WaitForEvent, WakeUp, TimeOut, Retire,
     ExitThread, ProgressDone, JobDone, NotifyClient, EraseJob
<1> QED BY <1>1, <1>2, <1>3

(* A job ends, or asks, when its handlers have returned.                   *)
LEMMA HandlersRunStep ==
  ASSUME StreamInv, HandlersRun, [ESNext]_esvars
  PROVE  HandlersRun'
<1>0. TypeOK /\ StreamTypes
  BY DEF StreamInv, InOrderInv, QueueOwns, ManagerInv
<1>1. ASSUME NEW w \in Worker, HandleEvent(w) \/ HandlerReturns(w)
      PROVE  HandlersRun'
  <2>1. pc' = pc
    BY <1>1 DEF HandleEvent, HandlerReturns, qvars, vars, threadVars
  <2>2. \A v \in Worker : handling'[v] # NULL => handling[v] # NULL \/ pc[v] = "run"
    BY <1>0, <1>1 DEF HandleEvent, HandlerReturns, StreamTypes
  <2> QED BY <2>1, <2>2 DEF HandlersRun
<1>2. ASSUME NEW w \in Worker, ThreadStep(w), handling' = handling,
             pc[w] = "run" => handling[w] = NULL
      PROVE  HandlersRun'
  BY <1>0, <1>2, OthersLeaveRunning DEF HandlersRun
<1>3. ASSUME NEW p \in Publisher, Submit(p)
      PROVE  HandlersRun'
  <2>1. task[p] \in Job /\ AddToQueue(task[p], task[p]) /\ handling' = handling
    BY <1>0, <1>3 DEF Submit, Goes, StreamTypes
  <2> QED BY <1>0, <2>1, OthersLeaveRunning, StreamAssumption DEF HandlersRun
<1>4. ASSUME UNCHANGED <<qvars, handling>> PROVE HandlersRun'
  BY <1>4 DEF HandlersRun, qvars, vars, threadVars
<1>5. CASE \/ \E p \in Publisher : Publish(p) \/ \E j \in Job : PublishBegin(p, j)
           \/ \E o \in Owner : OwnerSteps(o)
           \/ UNCHANGED esvars
  <2>1. UNCHANGED <<qvars, handling>>
    BY <1>5 DEF PublishBegin, Publish, OwnerSteps, SubscribeBegin, Subscribe, UnsubscribeBegin,
       Enter, IsOwnedBy, Leave, Cancel, UnsubscribeReturn, esvars
  <2> QED BY <1>4, <2>1
<1>6. ASSUME NEW w \in Worker, TaskStep(w) PROVE HandlersRun'
  BY <1>1, <1>2, <1>6 DEF TaskStep
<1> QED BY <1>3, <1>5, <1>6 DEF ESNext, CallStep, OwnerSteps

(* Locks are taken by who enters a call and let go by who leaves it.       *)
LEMMA SectionsStep ==
  ASSUME StreamTypes, SectionsHeld, SomeToMake, [ESNext]_esvars
  PROVE  SectionsHeld' /\ SomeToMake'
<1> USE StreamAssumption
<1>0. /\ caller \in [Publisher \cup Owner -> CallerStates]
      /\ holder \in [Lock -> Publisher \cup Owner \cup {NULL}]
  BY DEF StreamTypes, SectionsHeld
<1>1. ASSUME NEW c \in Publisher \cup Owner, NEW from, NEW to, Goes(c, from, to)
      PROVE  /\ caller[c] = from /\ caller'[c] = to
             /\ \A d \in (Publisher \cup Owner) \ {c} : caller'[d] = caller[d]
  BY <1>0, <1>1 DEF Goes
<1>2. ASSUME NEW c \in Publisher \cup Owner, NEW to, Goes(c, "idle", to), to # "idle", Locks(c),
             UNCHANGED <<streamLock, made>>, c \in Publisher => to = "publish",
             to = "subscribe" => \E s \in Subscription \ made : OwnerOf[s] = c
      PROVE  SectionsHeld' /\ SomeToMake'
  <2>1. /\ caller[c] = "idle" /\ caller'[c] = to
        /\ \A d \in (Publisher \cup Owner) \ {c} : caller'[d] = caller[d]
    BY <1>1, <1>2
  <2>2. /\ holder' \in [Lock -> Publisher \cup Owner \cup {NULL}]
        /\ \A l \in Lock : holder'[l] = holder[l] \/ (holder'[l] = c /\ HeldBy[c] = l)
    <3>1. CASE HeldBy[c] = NULL
      BY <1>0, <1>2, <3>1 DEF Locks
    <3>2. CASE HeldBy[c] # NULL
      <4>1. holder' = [holder EXCEPT ![HeldBy[c]] = c] /\ HeldBy[c] \in Lock
        BY <1>2, <3>2 DEF Locks
      <4> QED BY <1>0, <4>1
    <3> QED BY <3>1, <3>2
  <2>3. SomeToMake'
    BY <1>2, <2>1 DEF SomeToMake
  <2> QED BY <1>2, <2>1, <2>2, <2>3 DEF SectionsHeld
<1>3. ASSUME NEW c \in Publisher \cup Owner, NEW from, Goes(c, from, "idle"), from # "looking",
             Unlocks(c), streamLock' = streamLock,
             \A s \in made' \ made : OwnerOf[s] = c
      PROVE  SectionsHeld' /\ SomeToMake'
  <2>1. /\ caller[c] = from /\ caller'[c] = "idle"
        /\ \A d \in (Publisher \cup Owner) \ {c} : caller'[d] = caller[d]
    BY <1>1, <1>3
  <2>2. /\ holder' \in [Lock -> Publisher \cup Owner \cup {NULL}]
        /\ \A l \in Lock : holder'[l] # NULL => holder'[l] = holder[l] /\ (holder[l] = c => HeldBy[c] # l)
    <3>1. CASE HeldBy[c] = NULL
      <4>1. holder' = holder
        BY <1>3, <3>1 DEF Unlocks
      <4>2. \A l \in Lock : l # HeldBy[c]
        BY <3>1
      <4> QED BY <1>0, <4>1, <4>2
    <3>2. CASE HeldBy[c] # NULL
      <4>1. holder' = [holder EXCEPT ![HeldBy[c]] = NULL] /\ HeldBy[c] \in Lock
        BY <1>3, <3>2 DEF Unlocks
      <4> QED BY <1>0, <4>1
    <3> QED BY <3>1, <3>2
  <2>3. SomeToMake'
    BY <1>3, <2>1 DEF SomeToMake
  <2>4. \A l \in Lock : holder'[l] # NULL => HeldBy[holder'[l]] = l /\ caller'[holder'[l]] # "idle"
    <3> SUFFICES ASSUME NEW l \in Lock, holder'[l] # NULL
                 PROVE  HeldBy[holder'[l]] = l /\ caller'[holder'[l]] # "idle"
      OBVIOUS
    <3>1. /\ holder'[l] = holder[l] /\ holder[l] # NULL /\ HeldBy[holder[l]] = l
          /\ caller[holder[l]] # "idle" /\ holder[l] # c
      BY <2>2 DEF SectionsHeld
    <3>2. holder[l] \in (Publisher \cup Owner) \ {c}
      BY <1>0, <3>1
    <3> QED BY <2>1, <3>1, <3>2
  <2> QED BY <1>3, <2>1, <2>2, <2>3, <2>4 DEF SectionsHeld
<1>4. ASSUME NEW c \in Publisher \cup Owner, NEW from, NEW to, Goes(c, from, to),
             from # "idle", to \notin {"idle", "subscribe"}, UNCHANGED <<holder, made>>,
             c \in Publisher => to = "submit",
             \/ streamLock' = streamLock /\ from # "looking"
             \/ streamLock' = NULL
             \/ streamLock' = c /\ c \in Owner /\ to = "looking"
      PROVE  SectionsHeld' /\ SomeToMake'
  <2>1. /\ caller[c] = from /\ caller'[c] = to
        /\ \A d \in (Publisher \cup Owner) \ {c} : caller'[d] = caller[d]
    BY <1>1, <1>4
  <2>2. SomeToMake'
    BY <1>4, <2>1 DEF SomeToMake
  <2>3. streamLock' \in Owner \cup {NULL} /\ (streamLock' # NULL => caller'[streamLock'] = "looking")
    <3>1. CASE streamLock' = streamLock /\ from # "looking"
      BY <2>1, <3>1 DEF SectionsHeld
    <3>2. CASE streamLock' # streamLock \/ from = "looking"
      BY <1>4, <2>1, <3>2
    <3> QED BY <3>1, <3>2
  <2>4. \A d \in Publisher \cup Owner : caller[d] # "idle" => caller'[d] # "idle"
    BY <1>4, <2>1
  <2>5. \A l \in Lock : holder'[l] # NULL => HeldBy[holder'[l]] = l /\ caller'[holder'[l]] # "idle"
    BY <1>0, <1>4, <2>4 DEF SectionsHeld
  <2> QED BY <1>0, <1>4, <2>2, <2>3, <2>5 DEF SectionsHeld
<1>5. ASSUME UNCHANGED <<caller, holder, streamLock, made>>
      PROVE  SectionsHeld' /\ SomeToMake'
  BY <1>5 DEF SectionsHeld, SomeToMake
<1>6. ASSUME NEW p \in Publisher, NEW j \in Job, PublishBegin(p, j)
      PROVE  SectionsHeld' /\ SomeToMake'
  BY <1>2, <1>6 DEF PublishBegin, streamVars
<1>7. ASSUME NEW p \in Publisher, Publish(p) \/ Submit(p)
      PROVE  SectionsHeld' /\ SomeToMake'
  <2>1. CASE Publish(p)
    BY <1>4, <2>1 DEF Publish, streamVars
  <2>2. CASE Submit(p)
    BY <1>3, <2>2 DEF Submit, streamVars
  <2> QED BY <1>7, <2>1, <2>2
<1>8. ASSUME NEW o \in Owner, OwnerSteps(o)
      PROVE  SectionsHeld' /\ SomeToMake'
  <2>1. CASE SubscribeBegin(o)
    BY <1>2, <2>1 DEF SubscribeBegin, streamVars
  <2>2. CASE UnsubscribeBegin(o)
    BY <1>2, <2>2 DEF UnsubscribeBegin, streamVars
  <2>3. CASE Subscribe(o)
    BY <1>3, <2>3 DEF Subscribe
  <2>4. CASE Enter(o)
    BY <1>4, <2>4 DEF Enter
  <2>5. CASE Leave(o)
    BY <1>4, <2>5 DEF Leave
  <2>6. CASE UnsubscribeReturn(o)
    BY <1>3, <2>6 DEF UnsubscribeReturn, streamVars
  <2>7. CASE IsOwnedBy(o) \/ Cancel(o)
    BY <1>5, <2>7 DEF IsOwnedBy, Cancel
  <2> QED BY <1>8, <2>1, <2>2, <2>3, <2>4, <2>5, <2>6, <2>7 DEF OwnerSteps
<1>9. CASE UNCHANGED esvars \/ \E w \in Worker : TaskStep(w)
  BY <1>5, <1>9 DEF TaskStep, HandleEvent, HandlerReturns, esvars, streamVars, callerVars
<1> QED BY <1>6, <1>7, <1>8, <1>9 DEF ESNext, CallStep, OwnerSteps

(* Who cannot go on inside Unsubscribe waits for a handler.                *)
LEMMA StuckAwaits ==
  ASSUME StreamTypes, NEW o \in Owner, caller[o] \in {"looking", "cancelling"}, ~CallerGoesOn(o)
  PROVE  \E w \in Worker : handling[w] # NULL /\ Awaits(o, w)
<1>1. CASE caller[o] = "looking"
  <2>1. it[o] \in 1 .. Len(m_subscriptions) /\ it[o] <= Len(m_subscriptions)
    <3>1. /\ Len(m_subscriptions) \in Nat /\ it[o] \in Nat \ {0}
          /\ ~(it[o] > Len(m_subscriptions))
      BY <1>1, LenProperties DEF StreamTypes, CallerGoesOn
    <3> QED BY <3>1, SMT
  <2>2. m_subscriptions[it[o]] \in Subscription
    BY <2>1 DEF StreamTypes
  <2>3. PICK w \in Worker : handling[w] = m_subscriptions[it[o]]
    BY <1>1 DEF CallerGoesOn, Free
  <2> QED BY <1>1, <2>1, <2>2, <2>3, StreamAssumption DEF Awaits
<1>2. CASE caller[o] = "cancelling"
  <2>1. toCancel[o] # <<>> /\ \E w \in Worker : handling[w] = Head(toCancel[o])
    BY <1>2 DEF CallerGoesOn, Free
  <2>2. Head(toCancel[o]) \in Subscription
    BY <2>1, TailKeeps DEF StreamTypes
  <2> QED BY <1>2, <2>1, <2>2, StreamAssumption DEF Awaits
<1> QED BY <1>1, <1>2

(* The safety half of EventsArrive and UnsubscribeReturns: whatever locks  *)
(* callers and handlers bring along, however many there are, the crossing  *)
(* of a handler and a caller is the only deadlock of a stream.             *)
THEOREM OnlyCrossedLocksBlock == ESSpec => []CallsAreNotStuck
<1>1. StreamInv /\ SectionsHeld /\ HandlersRun /\ SomeToMake => CallsAreNotStuck
  <2> SUFFICES ASSUME StreamInv, SectionsHeld, HandlersRun, SomeToMake,
                      \/ \E c \in Publisher \cup Owner : caller[c] # "idle"
                      \/ \E w \in Worker : handling[w] # NULL,
                      \A c \in Publisher \cup Owner : ~CallerGoesOn(c),
                      \A w \in Worker : ~HandlerGoesOn(w)
               PROVE  Crossed
    BY DEF CallsAreNotStuck
  <2>0. StreamTypes /\ ~q_lock
    BY DEF StreamInv, InOrderInv, FifoInv, Undisturbed
  <2> USE StreamAssumption
  <2>1. ASSUME NEW c \in Publisher \cup Owner, caller[c] \in {"publish", "subscribe", "unsubscribe"}
        PROVE  streamLock \in Owner /\ caller[streamLock] = "looking"
    <3>1. ~CallerGoesOn(c)
      OBVIOUS
    <3>2. streamLock # NULL
      <4>1. CASE caller[c] = "subscribe"
        BY <3>1, <4>1 DEF CallerGoesOn, SomeToMake
      <4>2. CASE caller[c] \in {"publish", "unsubscribe"}
        BY <3>1, <4>2 DEF CallerGoesOn
      <4> QED BY <2>1, <4>1, <4>2
    <3> QED BY <3>2 DEF SectionsHeld
  <2>2. ASSUME NEW c \in Publisher \cup Owner
        PROVE  /\ caller[c] # "submit"
               /\ caller[c] \in {"looking", "cancelling"} =>
                    c \in Owner /\ \E w \in Worker : handling[w] # NULL /\ Awaits(c, w)
    <3>1. ~CallerGoesOn(c)
      OBVIOUS
    <3>2. caller[c] # "submit"
      BY <2>0, <3>1 DEF CallerGoesOn
    <3>3. c \notin Owner => caller[c] \notin {"looking", "cancelling"}
      BY DEF SomeToMake
    <3> QED BY <2>0, <3>1, <3>2, <3>3, StuckAwaits
  <2>3. \A c \in Publisher \cup Owner : caller[c] \in CallerStates
    BY <2>0 DEF StreamTypes
  <2>4. PICK w \in Worker : handling[w] # NULL
    <3>1. CASE \E c \in Publisher \cup Owner : caller[c] # "idle"
      <4>1. PICK c \in Publisher \cup Owner : caller[c] # "idle"
        BY <3>1
      <4>2. \E o \in Owner : caller[o] \in {"looking", "cancelling"}
        BY <2>1, <2>2, <2>3, <4>1 DEF CallerStates
      <4> QED BY <2>2, <4>2
    <3> QED BY <3>1
  <2>5. \A v \in Worker : handling[v] # NULL => v = w
    BY <2>4, OneRuns DEF HandlersRun
  <2>6. PICK l \in Lock : l = TakenBy[handling[w]] /\ l # NULL /\ holder[l] # NULL
    <3>1. handling[w] \in Subscription
      BY <2>0, <2>4 DEF StreamTypes
    <3>2. TakenBy[handling[w]] # NULL /\ holder[TakenBy[handling[w]]] # NULL
      BY <2>4 DEF HandlerGoesOn
    <3> QED BY <3>1, <3>2
  <2>7. PICK t \in Publisher \cup Owner : t = holder[l] /\ caller[t] # "idle"
    BY <2>6 DEF SectionsHeld
  <2>8. CASE caller[t] \in {"looking", "cancelling"}
    <3>1. Awaits(t, w)
      BY <2>2, <2>5, <2>8
    <3> QED BY <2>4, <2>6, <2>7, <3>1 DEF Crossed
  <2>9. CASE caller[t] \in {"publish", "subscribe", "unsubscribe"}
    <3>1. streamLock \in Owner /\ caller[streamLock] = "looking"
      BY <2>1, <2>9
    <3>2. Awaits(streamLock, w) /\ streamLock # NULL
      BY <2>2, <2>5, <3>1
    <3> QED BY <2>4, <2>6, <2>7, <2>9, <3>1, <3>2 DEF Crossed
  <2> QED BY <2>2, <2>3, <2>7, <2>8, <2>9 DEF CallerStates
<1>2. ESInit => SectionsHeld /\ HandlersRun /\ SomeToMake
  BY DEF ESInit, SectionsHeld, HandlersRun, SomeToMake
<1>3. StreamInv /\ SectionsHeld /\ HandlersRun /\ SomeToMake /\ [ESNext]_esvars
        => (SectionsHeld /\ HandlersRun /\ SomeToMake)'
  BY SectionsStep, HandlersRunStep DEF StreamInv
<1> QED BY <1>1, <1>2, <1>3, StreamInvariance, PTL DEF ESSpec
=============================================================================
