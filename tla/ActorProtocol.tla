---------------------------- MODULE ActorProtocol ----------------------------
(***************************************************************************)
(* Actor::Protocol and Actor::Message (xbmc/utils/ActorProtocol.cpp): the  *)
(* port through which clients send messages to an actor's thread, such as  *)
(* the audio engine's, and may wait for its answer for some time.          *)
(*                                                                         *)
(* Messages are recycled through freeMessageQueue.  A synchronous one has  *)
(* two owners, the caller and the actor, and is recycled by the second one *)
(* to release it; each may be late: the caller times out while the actor   *)
(* answers, the actor answers while the caller gives up.                   *)
(*                                                                         *)
(* The actor is modelled by its loop around the state machine: look into   *)
(* the port, handle one message, else wait for the container's event.      *)
(* DeferIn and DeferOut, which nobody calls, and the data of messages,     *)
(* which the call number stands for, are left out.                         *)
(***************************************************************************)
EXTENDS Integers, SequencesExt

CONSTANTS
  Client,
  PoolSize,   \* bound: messages there are; more are never needed at once
  MaxCalls    \* bound: messages sent

ASSUME ActorAssumption == PoolSize \in Nat \ {0} /\ MaxCalls \in Nat

Id == 1 .. PoolSize
NoId == 0

VARIABLES
  message,            \* what each message object says
  freeMessageQueue,
  outMessages,        \* to the actor
  inMessages,         \* and from it
  outEvent,           \* containerOutEvent, which resets itself
  cpc,                \* where a client is
  cmsg,               \* the message it sent
  cret,               \* *retMsg
  apc,                \* where the actor is
  amsg                \* the message it handles

VARIABLES             \* history
  calls,              \* messages sent so far
  given,              \* the number of each client's call
  purged              \* what PurgeOut dropped

poolVars   == <<message, freeMessageQueue>>
portVars   == <<outMessages, inMessages, outEvent>>
clientVars == <<cpc, cmsg, cret, given>>
actorVars  == <<apc, amsg>>
avars == <<poolVars, portVars, clientVars, actorVars, calls, purged>>

NewMessage(call) ==
  [allocated |-> TRUE, isSync |-> FALSE, isSyncFini |-> FALSE, isSyncTimeout |-> FALSE,
   replyMessage |-> NoId, event |-> "none", call |-> call]

AInit ==
  /\ message = [i \in Id |-> [NewMessage(0) EXCEPT !.allocated = FALSE]]
  /\ freeMessageQueue = <<>> /\ outMessages = <<>> /\ inMessages = <<>> /\ outEvent = FALSE
  /\ cpc = [c \in Client |-> "idle"] /\ cmsg = [c \in Client |-> NoId]
  /\ cret = [c \in Client |-> NoId] /\ given = [c \in Client |-> 0]
  /\ apc = "look" /\ amsg = NoId
  /\ calls = 0 /\ purged = {}

-----------------------------------------------------------------------------
(* GetMessage: a recycled message, or a new one.                           *)
GetMessage(i) ==
  /\ i = IF freeMessageQueue # <<>> THEN Head(freeMessageQueue)
         ELSE CHOOSE n \in Id : ~message[n].allocated
  /\ ~message[i].allocated \/ freeMessageQueue # <<>>
  /\ freeMessageQueue' = IF freeMessageQueue # <<>> THEN Tail(freeMessageQueue) ELSE <<>>

(* Plausible bug: the first of the two owners already recycles.            *)
Releases_AtOnce(i) ==
  /\ message' = [message EXCEPT ![i].isSyncFini = TRUE, ![i].event = "none"]
  /\ freeMessageQueue' = Append(freeMessageQueue, i)

(* Message::Release.                                                       *)
Releases(i) ==
  LET skip == message[i].isSync /\ ~message[i].isSyncFini IN
  IF skip
  THEN /\ message' = [message EXCEPT ![i].isSyncFini = TRUE]
       /\ UNCHANGED freeMessageQueue
  ELSE /\ message' = [message EXCEPT ![i].isSyncFini = TRUE, ![i].event = "none"]
       /\ freeMessageQueue' = Append(freeMessageQueue, i)

-----------------------------------------------------------------------------
(* Clients.  SendOutMessage, which does not wait.                          *)
SendOutMessage(c) ==
  /\ cpc[c] = "idle" /\ calls < MaxCalls /\ calls' = calls + 1
  /\ \E i \in Id :
       /\ GetMessage(i)
       /\ message' = [message EXCEPT ![i] = NewMessage(calls')]
       /\ outMessages' = Append(outMessages, i)
  /\ cpc' = [cpc EXCEPT ![c] = "sent"]
  /\ UNCHANGED <<inMessages, outEvent, cmsg, cret, given, actorVars, purged>>

(* Plausible bug: a recycled message keeps the answer it had.              *)
SendOutMessageSync_KeepsReply(c) ==
  /\ cpc[c] = "idle" /\ calls < MaxCalls /\ calls' = calls + 1
  /\ \E i \in Id :
       /\ GetMessage(i)
       /\ message' = [message EXCEPT ![i] = [NewMessage(calls') EXCEPT !.isSync = TRUE, !.event = "clear",
                                               !.replyMessage = message[i].replyMessage]]
       /\ outMessages' = Append(outMessages, i)
       /\ cmsg' = [cmsg EXCEPT ![c] = i]
  /\ given' = [given EXCEPT ![c] = calls']
  /\ cpc' = [cpc EXCEPT ![c] = "sent sync"]
  /\ UNCHANGED <<inMessages, outEvent, cret, actorVars, purged>>

SendOutMessageSync(c) ==
  /\ cpc[c] = "idle" /\ calls < MaxCalls /\ calls' = calls + 1
  /\ \E i \in Id :
       /\ GetMessage(i)
       /\ message' = [message EXCEPT ![i] = [NewMessage(calls') EXCEPT !.isSync = TRUE, !.event = "clear"]]
       /\ outMessages' = Append(outMessages, i)
       /\ cmsg' = [cmsg EXCEPT ![c] = i]
  /\ given' = [given EXCEPT ![c] = calls']
  /\ cpc' = [cpc EXCEPT ![c] = "sent sync"]
  /\ UNCHANGED <<inMessages, outEvent, cret, actorVars, purged>>

(* Plausible bug: only a synchronous message wakes the actor.              *)
WakeActor_OnlySync(c) ==
  /\ \/ cpc[c] = "sent" /\ cpc' = [cpc EXCEPT ![c] = "idle"] /\ UNCHANGED outEvent
     \/ cpc[c] = "sent sync" /\ cpc' = [cpc EXCEPT ![c] = "wait"] /\ outEvent' = TRUE
  /\ UNCHANGED <<poolVars, outMessages, inMessages, cmsg, cret, given, actorVars, calls, purged>>

(* containerOutEvent->Set(), with the lock no longer held.                 *)
WakeActor(c) ==
  /\ \/ cpc[c] = "sent" /\ cpc' = [cpc EXCEPT ![c] = "idle"]
     \/ cpc[c] = "sent sync" /\ cpc' = [cpc EXCEPT ![c] = "wait"]
  /\ outEvent' = TRUE
  /\ UNCHANGED <<poolVars, outMessages, inMessages, cmsg, cret, given, actorVars, calls, purged>>

(* WaitMSec: answered, or not in time.                                     *)
Answered(c) ==
  /\ cpc[c] = "wait" /\ message[cmsg[c]].event = "set"
  /\ cret' = [cret EXCEPT ![c] = message[cmsg[c]].replyMessage]
  /\ cpc' = [cpc EXCEPT ![c] = "release"]
  /\ UNCHANGED <<poolVars, portVars, cmsg, given, actorVars, calls, purged>>

TimesOut(c) ==
  /\ cpc[c] = "wait" /\ cpc' = [cpc EXCEPT ![c] = "late"]
  /\ UNCHANGED <<poolVars, portVars, cmsg, cret, given, actorVars, calls, purged>>

GivesUp(c) ==
  /\ cpc[c] = "late"
  /\ cret' = [cret EXCEPT ![c] = message[cmsg[c]].replyMessage]
  /\ message' = [message EXCEPT ![cmsg[c]].isSyncTimeout = (message[cmsg[c]].replyMessage = NoId)]
  /\ cpc' = [cpc EXCEPT ![c] = "release"]
  /\ UNCHANGED <<freeMessageQueue, portVars, cmsg, given, actorVars, calls, purged>>

CallerReleases(c) ==
  /\ cpc[c] = "release"
  /\ Releases(cmsg[c])
  /\ cmsg' = [cmsg EXCEPT ![c] = NoId]
  /\ cpc' = [cpc EXCEPT ![c] = IF cret[c] = NoId THEN "idle" ELSE "reply"]
  /\ UNCHANGED <<portVars, cret, given, actorVars, calls, purged>>

(* What every caller does with the answer in the end.                      *)
ReleasesReply(c) ==
  /\ cpc[c] = "reply"
  /\ Releases(cret[c])
  /\ cret' = [cret EXCEPT ![c] = NoId] /\ cpc' = [cpc EXCEPT ![c] = "idle"]
  /\ UNCHANGED <<portVars, cmsg, given, actorVars, calls, purged>>

(* ReceiveInMessage and the Release that follows.                          *)
ReceiveInMessage(c) ==
  /\ cpc[c] = "idle" /\ inMessages # <<>>
  /\ inMessages' = Tail(inMessages)
  /\ Releases(Head(inMessages))
  /\ UNCHANGED <<outMessages, outEvent, clientVars, actorVars, calls, purged>>

ClientStep(c) ==
  \/ SendOutMessage(c) \/ SendOutMessageSync(c) \/ WakeActor(c)
  \/ Answered(c) \/ TimesOut(c) \/ GivesUp(c)
  \/ CallerReleases(c) \/ ReleasesReply(c) \/ ReceiveInMessage(c)

-----------------------------------------------------------------------------
(* The actor.                                                              *)
ReceiveOutMessage ==
  /\ apc = "look" /\ outMessages # <<>>
  /\ amsg' = Head(outMessages) /\ outMessages' = Tail(outMessages)
  /\ apc' = "have"
  /\ UNCHANGED <<poolVars, inMessages, outEvent, clientVars, calls, purged>>

NoMessage ==
  /\ apc = "look" /\ outMessages = <<>> /\ apc' = "wait"
  /\ UNCHANGED <<poolVars, portVars, clientVars, amsg, calls, purged>>

(* The event, or the time out that the state machine is told of.           *)
Wakes ==
  /\ apc = "wait" /\ apc' = "look"
  /\ outEvent' = FALSE
  /\ UNCHANGED <<poolVars, outMessages, inMessages, clientVars, amsg, calls, purged>>

(* Plausible bug: the answer is made although nobody waits for it.         *)
Reply_TooLate ==
  /\ apc = "have" /\ message[amsg].isSync
  /\ \E i \in Id :
       /\ GetMessage(i)
       /\ message' = [message EXCEPT ![i] = NewMessage(message[amsg].call), ![amsg].replyMessage = i]
  /\ apc' = "replied"
  /\ UNCHANGED <<portVars, clientVars, amsg, calls, purged>>

(* Reply to a synchronous message: the answer under the lock, the event    *)
(* after it.                                                               *)
Reply ==
  /\ apc = "have" /\ message[amsg].isSync
  /\ IF message[amsg].isSyncTimeout
     THEN UNCHANGED poolVars
     ELSE \E i \in Id :
            /\ GetMessage(i)
            /\ message' = [message EXCEPT ![i] = NewMessage(message[amsg].call),
                                          ![amsg].replyMessage = i]
  /\ apc' = "replied"
  /\ UNCHANGED <<portVars, clientVars, amsg, calls, purged>>

SetEvent ==
  /\ apc = "replied" /\ apc' = "done"
  /\ message' = [message EXCEPT ![amsg].event = IF @ = "none" THEN @ ELSE "set"]
  /\ UNCHANGED <<freeMessageQueue, portVars, clientVars, amsg, calls, purged>>

(* Reply to another one: SendInMessage.                                    *)
ReplyIn ==
  /\ apc = "have" /\ ~message[amsg].isSync
  /\ \E i \in Id :
       /\ GetMessage(i)
       /\ message' = [message EXCEPT ![i] = NewMessage(message[amsg].call)]
       /\ inMessages' = Append(inMessages, i)
  /\ apc' = "done"
  /\ UNCHANGED <<outMessages, outEvent, clientVars, amsg, calls, purged>>

(* A handler that knows no answer leaves a synchronous message without.    *)
NoReply ==
  /\ apc = "have" /\ apc' = "done"
  /\ UNCHANGED <<poolVars, portVars, clientVars, amsg, calls, purged>>

ActorReleases ==
  /\ apc = "done" /\ apc' = "look"
  /\ Releases(amsg) /\ amsg' = NoId
  /\ UNCHANGED <<portVars, clientVars, calls, purged>>

(* PurgeOut: the messages of one signal, for which nobody waits, are       *)
(* dropped, those at the other places stay in their order.                 *)
KeepsOnly(kept) ==
  \E n \in 0 .. Len(outMessages) : \E f \in [1 .. n -> kept] :
    /\ \A a, b \in 1 .. n : a < b => f[a] < f[b]
    /\ \A k \in kept : \E a \in 1 .. n : f[a] = k
    /\ outMessages' = [a \in 1 .. n |-> outMessages[f[a]]]

PurgeOut ==
  /\ apc = "have"
  /\ \E drop \in SUBSET {k \in DOMAIN outMessages : ~message[outMessages[k]].isSync} :
       /\ drop # {}
       /\ KeepsOnly(DOMAIN outMessages \ drop)
       /\ purged' = purged \cup {outMessages[k] : k \in drop}
  /\ UNCHANGED <<poolVars, inMessages, outEvent, clientVars, actorVars, calls>>

(* Dispose: the thread is stopped; Purge() then releases what is left.     *)
Stop ==
  /\ apc \in {"look", "wait"} /\ apc' = "stopped"
  /\ UNCHANGED <<poolVars, portVars, clientVars, amsg, calls, purged>>

Purge ==
  /\ apc = "stopped"
  /\ \/ /\ inMessages # <<>> /\ inMessages' = Tail(inMessages)
        /\ Releases(Head(inMessages)) /\ UNCHANGED <<outMessages, apc>>
     \/ /\ inMessages = <<>> /\ outMessages # <<>> /\ outMessages' = Tail(outMessages)
        /\ Releases(Head(outMessages)) /\ UNCHANGED <<inMessages, apc>>
     \/ /\ inMessages = <<>> /\ outMessages = <<>> /\ apc' = "gone"
        /\ UNCHANGED <<poolVars, inMessages, outMessages>>
  /\ UNCHANGED <<outEvent, clientVars, amsg, calls, purged>>

ActorStep ==
  \/ ReceiveOutMessage \/ NoMessage \/ Wakes \/ Reply \/ SetEvent \/ ReplyIn \/ NoReply
  \/ ActorReleases \/ PurgeOut \/ Stop \/ Purge

ANext == (\E c \in Client : ClientStep(c)) \/ ActorStep

ASpec == AInit /\ [][ANext]_avars

-----------------------------------------------------------------------------
(* Who can still reach message i: the answer of a message is reached       *)
(* through it until the caller has taken it.                               *)
Reached(i) ==
  \/ i \in ToSet(outMessages) \cup ToSet(inMessages) \cup {amsg}
  \/ \E c \in Client : i \in {cmsg[c], cret[c]}
Pending(i) == \E c \in Client : cpc[c] \in {"sent sync", "wait", "late"} /\ message[cmsg[c]].replyMessage = i

(* A recycled message belongs to nobody, and is in the free list once:     *)
(* whoever gets it next has it alone; and the actor sets an event that     *)
(* exists, although the caller may long have stopped waiting for it.       *)
FreeIsUnused ==
  /\ \A i \in ToSet(freeMessageQueue) : ~Reached(i) /\ ~Pending(i)
  /\ Len(freeMessageQueue) = Cardinality(ToSet(freeMessageQueue))
  /\ apc = "replied" => message[amsg].event # "none"

(* And no message is lost: neither the one whose two owners release it in  *)
(* any order, nor an answer that comes while the caller gives up.  Only    *)
(* what PurgeOut drops is never recycled.                                  *)
NoMessageIsLost ==
  \A i \in Id : message[i].allocated /\ i \notin purged =>
    i \in ToSet(freeMessageQueue) \/ Reached(i) \/ Pending(i)

(* A caller gets the answer to its own call or none.                       *)
AnswersTheCall ==
  \A c \in Client : cret[c] # NoId => message[cret[c]].call = given[c]

(* The actor does not sleep over a message: if its event is not set, the   *)
(* client that sent the last one is about to set it.                       *)
ActorIsWoken ==
  apc = "wait" /\ ~outEvent /\ outMessages # <<>> =>
    \E c \in Client : cpc[c] \in {"sent", "sent sync"}
=============================================================================
