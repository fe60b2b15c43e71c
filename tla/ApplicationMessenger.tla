------------------------ MODULE ApplicationMessenger ------------------------
(***************************************************************************)
(* CApplicationMessenger (xbmc/messaging/ApplicationMessenger.cpp): how    *)
(* other threads have the application's thread do something, and wait for  *)
(* it; composed with what CApplication does with it on the way out.        *)
(*                                                                         *)
(* The application's thread handles a message in OnApplicationMessage,     *)
(* which may show a dialog whose loop handles further messages, so it has  *)
(* a stack of them.  One of them may be TMSG_QUIT: CApplication::Stop()    *)
(* stops the messenger, waits for the job manager's threads, discards what *)
(* is queued, waits for the threads of services, and the program ends.     *)
(*                                                                         *)
(* The graphics lock is the one lock a sender may hold.  It is recursive,  *)
(* but CSingleExit leaves all its levels, so that who holds it is enough.  *)
(***************************************************************************)
EXTENDS Integers, SequencesExt

CONSTANTS
  Sender,          \* threads other than the application's
  JobThread,       \* those of the job manager, for which CancelJobs() waits
  ServiceThread,   \* those for which StopServices() waits
  MaxMessages,     \* bound: messages sent in all, of which one is TMSG_QUIT
  MaxDepth,        \* bound: messages the application handles at once
  NULL

ASSUME MessengerAssumption ==
  /\ JobThread \subseteq Sender /\ ServiceThread \subseteq Sender
  /\ NULL \notin Sender
  /\ MaxMessages \in Nat /\ MaxDepth \in Nat

Msg == 1 .. MaxMessages        \* ThreadMessage objects, in the order of their creation
NoMsg == 0

(* m_vecMessages and m_vecWindowMessages.                                  *)
Queue == {"messages", "window"}

VARIABLES
  queue,      \* the two queues of messages
  m_bStop,
  sent, quit, \* messages sent so far, and the one that is TMSG_QUIT
  waitEvent,  \* the messages whose waitEvent is set
  deleted,    \* the message objects that are freed
  stack,      \* what the application's thread handles, outermost first
  phase,      \* where CApplication::Stop() is
  pc, msg,    \* where a sender is, and the message it sends
  waits,      \* whether it waits for it
  gfxOwner    \* who holds the graphics lock

objectVars == <<sent, quit, waitEvent, deleted>>
appVars    == <<stack, phase>>
senderVars == <<pc, msg, waits, gfxOwner>>
mvars == <<queue, m_bStop, objectVars, appVars, senderVars>>

(* A frame of the stack: the loop over a queue and the message it handles  *)
(* (NoMsg between two), or a message handled without a queue.               *)
Frame == [from : Queue \cup {"direct"}, msg : Msg \cup {NoMsg}]

Queued(m)   == \E k \in Queue : Contains(queue[k], m)
Handled(m)  == \E i \in DOMAIN stack : stack[i].msg = m

(* A new message; if TMSG_QUIT is not sent yet it may be that.             *)
Create(isQuit) ==
  /\ sent < MaxMessages
  /\ isQuit => quit = NoMsg
  /\ sent' = sent + 1
  /\ quit' = IF isQuit THEN sent + 1 ELSE quit

MInit ==
  /\ queue = [k \in Queue |-> <<>>] /\ m_bStop = FALSE
  /\ sent = 0 /\ quit = NoMsg /\ waitEvent = {} /\ deleted = {}
  /\ stack = <<>> /\ phase = "run"
  /\ pc = [s \in Sender |-> "idle"] /\ msg = [s \in Sender |-> NoMsg]
  /\ waits = [s \in Sender |-> FALSE] /\ gfxOwner = NULL

-----------------------------------------------------------------------------
(* Senders                                                                 *)

UnlockGfx(s) ==
  /\ pc[s] = "idle" /\ gfxOwner = s
  /\ gfxOwner' = NULL
  /\ UNCHANGED <<queue, m_bStop, objectVars, appVars, pc, msg, waits>>

(* SendMsg(), called with or without the graphics lock: m_bStop is read    *)
(* before the messenger's lock is taken; once it is set the call returns   *)
(* -1.  PostMsg() is the same without waiting.                             *)
SendMsg(s, isQuit, wait, locked) ==
  /\ pc[s] = "idle" /\ ~m_bStop
  /\ gfxOwner = s => locked
  /\ locked => gfxOwner \in {s, NULL}
  /\ gfxOwner' = IF locked THEN s ELSE gfxOwner
  /\ isQuit => ~wait          \* it is always posted
  /\ Create(isQuit)
  /\ pc' = [pc EXCEPT ![s] = "push"]
  /\ msg' = [msg EXCEPT ![s] = sent + 1]
  /\ waits' = [waits EXCEPT ![s] = wait]
  /\ UNCHANGED <<queue, m_bStop, waitEvent, deleted, appVars>>

Push(s, k) ==
  /\ pc[s] = "push"
  /\ msg[s] = quit => k = "messages"
  /\ queue' = [queue EXCEPT ![k] = Append(@, msg[s])]
  /\ pc' = [pc EXCEPT ![s] = IF waits[s] THEN "exit" ELSE "idle"]
  /\ msg' = IF waits[s] THEN msg ELSE [msg EXCEPT ![s] = NoMsg]
  /\ UNCHANGED <<m_bStop, objectVars, appVars, waits, gfxOwner>>

(* Plausible bug: the graphics lock is kept.                               *)
ExitGfx_Keeps(s) ==
  /\ pc[s] = "exit"
  /\ pc' = [pc EXCEPT ![s] = IF gfxOwner = s THEN "waitLocked" ELSE "wait"]
  /\ UNCHANGED <<queue, m_bStop, objectVars, appVars, msg, waits, gfxOwner>>

(* "Ensure the thread doesn't hold the graphics lock": CSingleExit ...     *)
ExitGfx(s) ==
  /\ pc[s] = "exit"
  /\ pc' = [pc EXCEPT ![s] = IF gfxOwner = s THEN "waitLocked" ELSE "wait"]
  /\ gfxOwner' = IF gfxOwner = s THEN NULL ELSE gfxOwner
  /\ UNCHANGED <<queue, m_bStop, objectVars, appVars, msg, waits>>

(* ... and back again before SendMsg() returns.                            *)
SendReturn(s) ==
  /\ pc[s] \in {"wait", "waitLocked"} /\ msg[s] \in waitEvent
  /\ pc[s] = "waitLocked" => gfxOwner = NULL
  /\ gfxOwner' = IF pc[s] = "waitLocked" THEN s ELSE gfxOwner
  /\ pc' = [pc EXCEPT ![s] = "idle"]
  /\ msg' = [msg EXCEPT ![s] = NoMsg]
  /\ waits' = [waits EXCEPT ![s] = FALSE]
  /\ UNCHANGED <<queue, m_bStop, objectVars, appVars>>

(* A thread that was told to stop ends, when it is done with its call.     *)
ThreadEnds(s) ==
  /\ \/ s \in JobThread /\ phase # "run"
     \/ s \in ServiceThread /\ phase \in {"services", "stopped"}
  /\ pc[s] = "idle" /\ gfxOwner # s
  /\ pc' = [pc EXCEPT ![s] = "gone"]
  /\ UNCHANGED <<queue, m_bStop, objectVars, appVars, msg, waits, gfxOwner>>

-----------------------------------------------------------------------------
(* The application's thread                                                *)

Top == stack[Len(stack)]
Busy == stack # <<>> /\ Top.msg # NoMsg       \* in a handler
ReplaceTop(f) == [stack EXCEPT ![Len(stack)] = f]

(* Where it may call the messenger: in its main loop, or in a handler that *)
(* shows a dialog; not in Stop().                                          *)
MayCall ==
  /\ Len(stack) < MaxDepth
  /\ stack = <<>> \/ (Busy /\ Top.msg # quit)

(* Plausible bug: the message stays in the queue while it is handled.      *)
Take_Peeks(k, frames) ==
  /\ queue[k] # <<>>
  /\ stack' = Append(frames, [from |-> k, msg |-> Head(queue[k])])
  /\ UNCHANGED queue

(* "First remove the message from the queue, else the message could be     *)
(* processed more then once."                                              *)
Take(k, frames) ==
  /\ queue[k] # <<>>
  /\ stack' = Append(frames, [from |-> k, msg |-> Head(queue[k])])
  /\ queue' = [queue EXCEPT ![k] = Tail(@)]

(* ProcessMessages() and ProcessWindowMessages(), when there are any.      *)
Process(k) ==
  /\ MayCall /\ ~m_bStop
  /\ Take(k, stack)
  /\ UNCHANGED <<m_bStop, objectVars, phase, senderVars>>

(* The loop's next message, ...                                            *)
NextMessage(k) ==
  /\ stack # <<>> /\ Top.msg = NoMsg /\ Top.from = k
  /\ Take(k, Front(stack))
  /\ UNCHANGED <<m_bStop, objectVars, phase, senderVars>>

(* ... and its end.                                                        *)
ProcessReturn(k) ==
  /\ stack # <<>> /\ Top.msg = NoMsg /\ Top.from = k
  /\ queue[k] = <<>>
  /\ stack' = Front(stack)
  /\ UNCHANGED <<queue, m_bStop, objectVars, phase, senderVars>>

(* SendMsg() on the application's thread: it would wait for itself, so the *)
(* message is handled right away.                                          *)
SendDirect ==
  /\ MayCall /\ phase = "run"
  /\ Create(FALSE)
  /\ stack' = Append(stack, [from |-> "direct", msg |-> sent + 1])
  /\ UNCHANGED <<queue, m_bStop, waitEvent, deleted, phase, senderVars>>

(* PostMsg() on the application's thread.                                  *)
PostByApp(k, isQuit) ==
  /\ MayCall /\ ~m_bStop
  /\ isQuit => k = "messages"
  /\ Create(isQuit)
  /\ queue' = [queue EXCEPT ![k] = Append(@, sent + 1)]
  /\ UNCHANGED <<m_bStop, waitEvent, deleted, appVars, senderVars>>

(* OnApplicationMessage() returns, having had the graphics lock for itself *)
(* as windows and dialogs do: the waiter is told, and the message deleted. *)
Handle ==
  /\ Busy /\ gfxOwner = NULL
  /\ Top.msg = quit => phase = "stopped"
  /\ deleted' = deleted \cup {Top.msg}
  /\ waitEvent' = IF Top.from \in Queue THEN waitEvent \cup {Top.msg} ELSE waitEvent
  /\ stack' = IF Top.from \in Queue THEN ReplaceTop([Top EXCEPT !.msg = NoMsg]) ELSE Front(stack)
  /\ UNCHANGED <<queue, m_bStop, sent, quit, phase, senderVars>>

(* CApplication::Stop(), the handler of TMSG_QUIT: the messenger's Stop(), *)
Stop ==
  /\ Busy /\ Top.msg = quit /\ phase = "run"
  /\ m_bStop' = TRUE
  /\ phase' = "cancel"
  /\ UNCHANGED <<queue, objectVars, stack, senderVars>>

(* CJobManager::CancelJobs(), which returns when its threads are gone,     *)
JobsCancelled ==
  /\ phase = "cancel"
  /\ \A s \in JobThread : pc[s] = "gone"
  /\ phase' = "cleanup"
  /\ UNCHANGED <<queue, m_bStop, objectVars, stack, senderVars>>

(* Plausible bug: nobody is told that the messages are discarded.          *)
Cleanup_Silent ==
  /\ deleted' = deleted \cup {m \in Msg : Queued(m)}
  /\ queue' = [k \in Queue |-> <<>>]
  /\ UNCHANGED <<sent, quit, waitEvent>>

(* the messenger's Cleanup(), which discards both queues,                  *)
Cleanup ==
  /\ deleted' = deleted \cup {m \in Msg : Queued(m)}
  /\ waitEvent' = waitEvent \cup {m \in Msg : Queued(m)}
  /\ queue' = [k \in Queue |-> <<>>]
  /\ UNCHANGED <<sent, quit>>

CleanupInStop ==
  /\ phase = "cleanup"
  /\ Cleanup
  /\ phase' = "services"
  /\ UNCHANGED <<m_bStop, stack, senderVars>>

(* and StopServices(), which waits for its threads.                        *)
ServicesStopped ==
  /\ phase = "services"
  /\ \A s \in ServiceThread : pc[s] = "gone"
  /\ phase' = "stopped"
  /\ UNCHANGED <<queue, m_bStop, objectVars, stack, senderVars>>

(* The main loop ends, and the messenger is destroyed with the process.    *)
Exit ==
  /\ phase = "stopped" /\ stack = <<>>
  /\ Cleanup
  /\ phase' = "exited"
  /\ UNCHANGED <<m_bStop, stack, senderVars>>

-----------------------------------------------------------------------------
(* What a sender must do next, and the application of itself.              *)
SenderStep(s) ==
  \/ \E k \in Queue : Push(s, k)
  \/ ExitGfx(s) \/ SendReturn(s) \/ UnlockGfx(s) \/ ThreadEnds(s)
AppStep ==
  \/ \E k \in Queue : NextMessage(k) \/ ProcessReturn(k)
  \/ Handle \/ Stop \/ JobsCancelled \/ CleanupInStop \/ ServicesStopped \/ Exit

MNext ==
  \/ phase # "exited" /\ \E s \in Sender : SenderStep(s)
  \/ \E s \in Sender, isQuit, wait, locked \in BOOLEAN : SendMsg(s, isQuit, wait, locked)
  \/ phase # "exited" /\ AppStep
  \/ \E k \in Queue : Process(k)
  \/ SendDirect
  \/ \E k \in Queue, isQuit \in BOOLEAN : PostByApp(k, isQuit)

MSpec == MInit /\ [][MNext]_mvars

(* Threads run on, and get the lock they wait for; who has the graphics    *)
(* lock lets it go.  Handlers return, and the main loop looks into both    *)
(* queues again and again.  Nobody need send anything.                     *)
MFairness ==
  /\ \A s \in Sender : SF_mvars(SenderStep(s))
  /\ SF_mvars(AppStep)
  /\ \A k \in Queue : SF_mvars(Process(k))
MFairSpec == MSpec /\ MFairness

-----------------------------------------------------------------------------
(* Properties                                                              *)

InSend(s) == pc[s] \in {"push", "exit", "wait", "waitLocked"}
AwaitingAnswer(s) ==
  pc[s] \in {"exit", "wait", "waitLocked"} /\ msg[s] \notin waitEvent

(* Whoever waits has somebody to wake him: his message is in a queue that  *)
(* the application will look into, or discard when it ends, or it is being *)
(* handled, in the innermost loop or below it.                             *)
WaiterIsKnown ==
  phase # "exited" =>
    \A s \in Sender : AwaitingAnswer(s) => Queued(msg[s]) \/ Handled(msg[s])

(* The loops nest, and Cleanup() empties the queues from within one of     *)
(* them: a message is in one place, and is not used once it was deleted.   *)
HandledOnce ==
  /\ \A i, j \in DOMAIN stack :
       stack[i].msg = stack[j].msg /\ stack[i].msg # NoMsg => i = j
  /\ \A m \in Msg : /\ Handled(m) => ~Queued(m)
                    /\ Handled(m) \/ Queued(m) => m \notin deleted

(* "It will then block the calling thread [...] the event will be          *)
(* signaled, unblocking the calling thread": every call returns, except    *)
(* that Stop() may wait for a thread of the job manager or of a service    *)
(* that itself waits for the application.                                  *)
ExitIsBlocked ==
  \/ phase = "cancel" /\ \E s \in JobThread : AwaitingAnswer(s)
  \/ phase = "services" /\ \E s \in ServiceThread : AwaitingAnswer(s)
CallsAreAnswered ==
  \A s \in Sender : InSend(s) ~> (~InSend(s) \/ ExitIsBlocked \/ phase = "exited")
=============================================================================
