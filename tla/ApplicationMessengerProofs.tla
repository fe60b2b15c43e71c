---------------------- MODULE ApplicationMessengerProofs ----------------------
(***************************************************************************)
(* Proofs that whoever waits for the application has somebody to wake him, *)
(* and that a message is in one place and not used after its deletion, for *)
(* any senders, any number of messages and any depth of nested loops.      *)
(***************************************************************************)
EXTENDS ApplicationMessenger, SequenceTheorems, TLAPS

-----------------------------------------------------------------------------
(* The inductive invariant                                                 *)

Pushing == {"push"}
Waiting == {"exit", "wait", "waitLocked"}
SenderStates == {"idle", "gone"} \cup Pushing \cup Waiting

Types ==
  /\ queue \in [Queue -> Seq(Msg)]
  /\ sent \in Nat
  /\ waitEvent \subseteq Msg /\ deleted \subseteq Msg
  /\ stack \in Seq(Frame)
  /\ pc \in [Sender -> SenderStates]
  /\ msg \in [Sender -> Msg \cup {NoMsg}]
  /\ waits \in [Sender -> BOOLEAN]
  /\ \A s \in Sender : pc[s] \in Pushing \cup Waiting => msg[s] \in Msg

(* Messages are new when they are created.                                 *)
CreatedBefore ==
  /\ \A s \in Sender : msg[s] <= sent
  /\ \A m \in Msg : Queued(m) \/ Handled(m) \/ m \in deleted => m <= sent

(* Nobody waits for a message that is handled without a queue.             *)
DirectIsOwn ==
  \A i \in 1 .. Len(stack) : stack[i].from = "direct" =>
    stack[i].msg # NoMsg /\ \A s \in Sender : msg[s] # stack[i].msg

(* A message is once in the queues, once in the stack, ...                 *)
QueuedOnce ==
  \A k, l \in Queue : \A i \in 1 .. Len(queue[k]), j \in 1 .. Len(queue[l]) :
    queue[k][i] = queue[l][j] => k = l /\ i = j
StackedOnce ==
  \A i, j \in 1 .. Len(stack) :
    stack[i].msg = stack[j].msg /\ stack[i].msg # NoMsg => i = j

(* ... in one of them, and nowhere before it is pushed.                    *)
OnePlace ==
  \A m \in Msg : /\ Handled(m) => ~Queued(m)
                 /\ Handled(m) \/ Queued(m) => m \notin deleted
PushedOnce ==
  /\ \A s, t \in Sender : pc[s] \in Pushing /\ pc[t] \in Pushing /\ msg[s] = msg[t] => s = t
  /\ \A s \in Sender : pc[s] \in Pushing =>
       ~Queued(msg[s]) /\ ~Handled(msg[s]) /\ msg[s] \notin deleted

Places == QueuedOnce /\ StackedOnce /\ OnePlace
MInv == Types /\ CreatedBefore /\ DirectIsOwn /\ Places /\ PushedOnce /\ WaiterIsKnown

-----------------------------------------------------------------------------
(* The queues                                                              *)

(* push(): one more message is queued.                                     *)
LEMMA QueueAppend ==
  ASSUME Types, QueuedOnce, NEW k \in Queue, NEW m \in Msg, ~Queued(m),
         queue' = [queue EXCEPT ![k] = Append(@, m)]
  PROVE  /\ queue' \in [Queue -> Seq(Msg)]
         /\ QueuedOnce'
         /\ \A x : Queued(x)' <=> Queued(x) \/ x = m
<1> DEFINE n == Len(queue[k])
<1>1. queue[k] \in Seq(Msg) /\ n \in Nat
  BY LenProperties DEF Types
<1>2. /\ queue'[k] = Append(queue[k], m) /\ \A l \in Queue \ {k} : queue'[l] = queue[l]
      /\ Append(queue[k], m) \in Seq(Msg) /\ Len(Append(queue[k], m)) = n + 1
      /\ \A i \in 1 .. n : Append(queue[k], m)[i] = queue[k][i]
      /\ Append(queue[k], m)[n + 1] = m
  BY <1>1, AppendProperties DEF Types
<1>3. queue' \in [Queue -> Seq(Msg)]
  BY <1>2 DEF Types
<1>4. ASSUME NEW l \in Queue, NEW i \in 1 .. Len(queue'[l])
      PROVE  \/ i \in 1 .. Len(queue[l]) /\ queue'[l][i] = queue[l][i]
             \/ l = k /\ i = n + 1 /\ queue'[l][i] = m
  <2>1. CASE l = k
    <3>1. i \in 1 .. n \/ i = n + 1
      BY <1>1, <1>2, <2>1
    <3> QED BY <1>2, <2>1, <3>1
  <2> QED BY <1>2, <2>1
<1>5. \A l \in Queue : \A i \in 1 .. Len(queue[l]) : queue[l][i] # m
  BY DEF Queued, Contains
<1>6. QueuedOnce'
  BY <1>4, <1>5 DEF QueuedOnce
<1>7. ASSUME NEW x, Queued(x) \/ x = m PROVE Queued(x)'
  <2>1. CASE x = m
    <3>1. n + 1 \in 1 .. Len(queue'[k])
      BY <1>1, <1>2
    <3> QED BY <1>2, <2>1, <3>1 DEF Queued, Contains
  <2>2. CASE Queued(x)
    <3>0. PICK l \in Queue : Contains(queue[l], x)
      BY <2>2 DEF Queued
    <3>1. PICK i \in 1 .. Len(queue[l]) : queue[l][i] = x
      BY <3>0 DEF Contains
    <3>2. i \in 1 .. Len(queue'[l]) /\ queue'[l][i] = x
      BY <1>1, <1>2, <3>1
    <3> QED BY <3>2 DEF Queued, Contains
  <2> QED BY <1>7, <2>1, <2>2
<1>8. ASSUME NEW x, Queued(x)' PROVE Queued(x) \/ x = m
  BY <1>4, <1>8 DEF Queued, Contains
<1> QED BY <1>3, <1>6, <1>7, <1>8

(* pop(): the first message is not queued any more, all others are.        *)
LEMMA QueuePop ==
  ASSUME Types, QueuedOnce, NEW k \in Queue, queue[k] # <<>>,
         queue' = [queue EXCEPT ![k] = Tail(@)]
  PROVE  /\ queue' \in [Queue -> Seq(Msg)]
         /\ QueuedOnce'
         /\ Head(queue[k]) \in Msg /\ Queued(Head(queue[k]))
         /\ \A x : Queued(x)' <=> Queued(x) /\ x # Head(queue[k])
<1> DEFINE n == Len(queue[k])
           m == Head(queue[k])
<1>1. queue[k] \in Seq(Msg) /\ n \in Nat \ {0} /\ m = queue[k][1]
  <2>1. queue[k] \in Seq(Msg)
    BY DEF Types
  <2> QED BY <2>1, SMT
<1>2. /\ queue'[k] = Tail(queue[k]) /\ \A l \in Queue \ {k} : queue'[l] = queue[l]
      /\ Tail(queue[k]) \in Seq(Msg) /\ Len(Tail(queue[k])) = n - 1
      /\ \A i \in 1 .. n - 1 : Tail(queue[k])[i] = queue[k][i + 1]
      /\ m \in Msg
  BY <1>1, HeadTailProperties DEF Types
<1>3. queue' \in [Queue -> Seq(Msg)]
  BY <1>2 DEF Types
<1>4. Queued(m)
  <2>1. 1 \in 1 .. n
    BY <1>1
  <2> QED BY <1>1, <2>1 DEF Queued, Contains
<1> HIDE DEF m
<1>5. ASSUME NEW i \in 1 .. Len(queue'[k])
      PROVE  i + 1 \in 1 .. n /\ i + 1 # 1 /\ queue'[k][i] = queue[k][i + 1]
  <2>1. i \in 1 .. n - 1
    BY <1>2
  <2>2. i + 1 \in 1 .. n /\ i + 1 # 1
    BY <1>1, <2>1
  <2> QED BY <1>2, <2>1, <2>2
<1>6. QueuedOnce'
  <2> SUFFICES ASSUME NEW a \in Queue, NEW b \in Queue,
                      NEW i \in 1 .. Len(queue'[a]), NEW j \in 1 .. Len(queue'[b]),
                      queue'[a][i] = queue'[b][j]
               PROVE  a = b /\ i = j
    BY DEF QueuedOnce
  <2>1. CASE a = k /\ b = k
    <3>1. /\ i + 1 \in 1 .. n /\ queue'[k][i] = queue[k][i + 1]
          /\ j + 1 \in 1 .. n /\ queue'[k][j] = queue[k][j + 1]
      BY <1>5, <2>1
    <3>2. i + 1 = j + 1
      BY <2>1, <3>1 DEF QueuedOnce
    <3>3. i \in Int /\ j \in Int
      OBVIOUS
    <3> QED BY <2>1, <3>2, <3>3
  <2>2. CASE a = k /\ b # k
    BY <1>2, <1>5, <2>2 DEF QueuedOnce
  <2>3. CASE a # k /\ b = k
    BY <1>2, <1>5, <2>3 DEF QueuedOnce
  <2>4. CASE a # k /\ b # k
    BY <1>2, <2>4 DEF QueuedOnce
  <2> QED BY <2>1, <2>2, <2>3, <2>4
<1>7. ASSUME NEW x, Queued(x)' PROVE Queued(x) /\ x # m
  <2>0. PICK l \in Queue : Contains(queue'[l], x)
    BY <1>7 DEF Queued, Contains
  <2>1. PICK i \in 1 .. Len(queue'[l]) : queue'[l][i] = x
    BY <2>0 DEF Contains
  <2>2. 1 \in 1 .. n
    BY <1>1
  <2>3. CASE l = k
    BY <1>1, <1>5, <2>1, <2>2, <2>3 DEF Queued, Contains, QueuedOnce
  <2>4. CASE l # k
    BY <1>1, <1>2, <2>1, <2>2, <2>4 DEF Queued, Contains, QueuedOnce
  <2> QED BY <2>3, <2>4
<1>8. ASSUME NEW x, Queued(x), x # m PROVE Queued(x)'
  <2>0. PICK l \in Queue : Contains(queue[l], x)
    BY <1>8 DEF Queued
  <2>1. PICK i \in 1 .. Len(queue[l]) : queue[l][i] = x
    BY <2>0 DEF Contains
  <2>2. CASE l = k
    <3>1. i - 1 \in 1 .. n - 1 /\ i - 1 + 1 = i
      BY <1>1, <1>8, <2>1, <2>2
    <3>2. i - 1 \in 1 .. Len(queue'[k]) /\ queue'[k][i - 1] = x
      BY <1>2, <2>1, <2>2, <3>1
    <3> QED BY <3>2 DEF Queued, Contains
  <2>3. CASE l # k
    BY <1>2, <2>1, <2>3 DEF Queued, Contains
  <2> QED BY <2>2, <2>3
<1> QED BY <1>2, <1>3, <1>4, <1>6, <1>7, <1>8 DEF m

-----------------------------------------------------------------------------
(* The stack                                                               *)

(* All but the last.                                                       *)
LEMMA FrontKeeps ==
  ASSUME NEW S, NEW seq \in Seq(S), seq # <<>>
  PROVE  /\ Front(seq) \in Seq(S) /\ Len(Front(seq)) = Len(seq) - 1
         /\ \A i \in 1 .. Len(seq) - 1 : Front(seq)[i] = seq[i]
<1>1. Len(seq) \in Nat \ {0}
  BY SMT
<1>2. /\ SubSeq(seq, 1, Len(seq) - 1) \in Seq(S)
      /\ Len(SubSeq(seq, 1, Len(seq) - 1)) = Len(seq) - 1
      /\ \A i \in 1 .. Len(seq) - 1 : SubSeq(seq, 1, Len(seq) - 1)[i] = seq[i]
  BY <1>1, SMT
<1> QED BY <1>2 DEF Front

(* Handled, without the domain of the stack.                               *)
LEMMA HandledIn ==
  ASSUME stack \in Seq(Frame)
  PROVE  \A m : Handled(m) <=> \E i \in 1 .. Len(stack) : stack[i].msg = m
BY LenProperties DEF Handled

(* A message that is not handled yet is, on top of all that are.           *)
LEMMA StackAppend ==
  ASSUME stack \in Seq(Frame), StackedOnce, NEW frames, NEW f \in Frame, f.msg # NoMsg,
         ~Handled(f.msg),
         frames = stack \/ (stack # <<>> /\ Top.msg = NoMsg /\ frames = Front(stack)),
         stack' = Append(frames, f)
  PROVE  /\ stack' \in Seq(Frame)
         /\ StackedOnce'
         /\ \A m \in Msg : Handled(m)' <=> Handled(m) \/ m = f.msg
         /\ \A i \in 1 .. Len(stack') :
              stack'[i] = f \/ \E j \in 1 .. Len(stack) : stack'[i] = stack[j]
<1> DEFINE n == Len(stack)
           c == Len(frames)
<1>1. n \in Nat
  BY LenProperties
<1>2. /\ frames \in Seq(Frame) /\ c \in {n, n - 1} /\ c \in Nat
      /\ c = n - 1 => n \in Nat \ {0} /\ Top.msg = NoMsg
      /\ \A i \in 1 .. c : frames[i] = stack[i]
  <2>1. CASE frames = stack
    BY <1>1, <2>1
  <2>2. CASE stack # <<>> /\ Top.msg = NoMsg /\ frames = Front(stack)
    <3>1. n \in Nat \ {0}
      BY <2>2, SMT
    <3> QED BY <2>2, <3>1, FrontKeeps
  <2> QED BY <2>1, <2>2
<1>3. /\ stack' \in Seq(Frame) /\ Len(stack') = c + 1 /\ stack'[c + 1] = f
      /\ \A i \in 1 .. c : stack'[i] = stack[i]
  BY <1>2, AppendProperties
<1>4. \A i \in 1 .. Len(stack') : i = c + 1 \/ (i \in 1 .. c /\ i \in 1 .. n)
  BY <1>1, <1>2, <1>3
<1>5. \A i \in 1 .. n : stack[i].msg # f.msg
  BY HandledIn
<1>6. StackedOnce'
  BY <1>3, <1>4, <1>5 DEF StackedOnce
<1>7. ASSUME NEW m \in Msg, Handled(m)' PROVE Handled(m) \/ m = f.msg
  <2>1. PICK i \in 1 .. Len(stack') : stack'[i].msg = m
    BY <1>3, <1>7, LenProperties DEF Handled
  <2> QED BY <1>3, <1>4, <2>1, HandledIn
<1>8. ASSUME NEW m \in Msg, Handled(m) \/ m = f.msg PROVE Handled(m)'
  <2>0. DOMAIN stack' = 1 .. c + 1 /\ c + 1 \in 1 .. c + 1
    BY <1>2, <1>3, LenProperties
  <2>1. CASE m = f.msg
    BY <1>3, <2>0, <2>1 DEF Handled
  <2>2. CASE Handled(m)
    <3>1. PICK i \in 1 .. n : stack[i].msg = m
      BY <2>2, HandledIn
    <3>2. m # NoMsg
      BY DEF Msg, NoMsg
    <3>3. i \in 1 .. c
      BY <1>1, <1>2, <3>1, <3>2 DEF Top
    <3>4. i \in 1 .. c + 1
      BY <1>2, <3>3
    <3> QED BY <1>3, <2>0, <3>1, <3>3, <3>4 DEF Handled
  <2> QED BY <1>8, <2>1, <2>2
<1>9. \A i \in 1 .. Len(stack') : stack'[i] = f \/ \E j \in 1 .. Len(stack) : stack'[i] = stack[j]
  BY <1>3, <1>4
<1> QED BY <1>3, <1>6, <1>7, <1>8, <1>9

(* The frame on top ends, or has handled its message.                      *)
LEMMA StackDone ==
  ASSUME stack \in Seq(Frame), StackedOnce, stack # <<>>,
         \/ stack' = Front(stack)
         \/ stack' = ReplaceTop([Top EXCEPT !.msg = NoMsg])
  PROVE  /\ stack' \in Seq(Frame)
         /\ StackedOnce'
         /\ \A m \in Msg : Handled(m)' <=> Handled(m) /\ m # Top.msg
         /\ \A i \in 1 .. Len(stack') : \E j \in 1 .. Len(stack) :
              /\ stack'[i].from = stack[j].from
              /\ stack'[i].msg = stack[j].msg \/ j = Len(stack)
<1> DEFINE n == Len(stack)
<1>1. n \in Nat \ {0} /\ n \in 1 .. n /\ Top \in Frame
  BY SMT DEF Top
<1>2. /\ stack' \in Seq(Frame) /\ DOMAIN stack' = 1 .. Len(stack') /\ Len(stack') \in {n - 1, n}
      /\ \A i \in 1 .. n - 1 : stack'[i] = stack[i]
      /\ Len(stack') = n => stack'[n].from = Top.from /\ stack'[n].msg = NoMsg
  <2>1. CASE stack' = Front(stack)
    <3>1. /\ stack' \in Seq(Frame) /\ Len(stack') = n - 1
          /\ \A i \in 1 .. n - 1 : stack'[i] = stack[i]
      BY <2>1, FrontKeeps
    <3> QED BY <1>1, <3>1, LenProperties
  <2>2. CASE stack' = ReplaceTop([Top EXCEPT !.msg = NoMsg])
    <3> DEFINE f == [Top EXCEPT !.msg = NoMsg]
    <3>1. f \in Frame /\ f.from = Top.from /\ f.msg = NoMsg
      BY <1>1 DEF Frame
    <3>2. stack' = [stack EXCEPT ![n] = f]
      BY <2>2 DEF ReplaceTop
    <3> HIDE DEF f
    <3>3. /\ stack' \in Seq(Frame) /\ Len(stack') = n
          /\ \A i \in 1 .. n : stack'[i] = IF i = n THEN f ELSE stack[i]
      BY <1>1, <3>1, <3>2, ExceptSeq
    <3>4. \A i \in 1 .. n - 1 : i \in 1 .. n /\ i # n
      BY <1>1
    <3> QED BY <1>1, <3>1, <3>3, <3>4, LenProperties
  <2> QED BY <2>1, <2>2
<1>3. ASSUME NEW i \in 1 .. Len(stack')
      PROVE  /\ i \in 1 .. n
             /\ \/ i \in 1 .. n - 1 /\ i # n /\ stack'[i] = stack[i]
                \/ i = n /\ stack'[n].from = Top.from /\ stack'[n].msg = NoMsg
  BY <1>1, <1>2
<1>4. StackedOnce'
  BY <1>3 DEF StackedOnce
<1>5. ASSUME NEW m \in Msg, Handled(m)' PROVE Handled(m) /\ m # Top.msg
  <2>1. PICK i \in 1 .. Len(stack') : stack'[i].msg = m
    BY <1>2, <1>5 DEF Handled
  <2>2. m # NoMsg
    BY DEF Msg, NoMsg
  <2>3. i \in 1 .. n /\ i # n /\ stack[i].msg = m
    BY <1>3, <2>1, <2>2
  <2> QED BY <1>1, <2>2, <2>3, HandledIn DEF StackedOnce, Top
<1>6. ASSUME NEW m \in Msg, Handled(m), m # Top.msg PROVE Handled(m)'
  <2>1. PICK i \in 1 .. n : stack[i].msg = m
    BY <1>6, HandledIn
  <2>2. i \in 1 .. n - 1
    BY <1>1, <1>6, <2>1 DEF Top
  <2>3. i \in 1 .. Len(stack')
    BY <1>1, <1>2, <2>2
  <2> QED BY <1>2, <2>1, <2>2, <2>3 DEF Handled
<1>7. \A i \in 1 .. Len(stack') : \E j \in 1 .. n :
         /\ stack'[i].from = stack[j].from
         /\ stack'[i].msg = stack[j].msg \/ j = n
  BY <1>3 DEF Top
<1> QED BY <1>2, <1>4, <1>5, <1>6, <1>7

-----------------------------------------------------------------------------
(* Steps                                                                   *)

(* At first there is no message.                                           *)
LEMMA InitInv == MInit => MInv
<1> SUFFICES ASSUME MInit PROVE MInv
  OBVIOUS
<1>1. \A m : ~Queued(m) /\ ~Handled(m)
  BY DEF MInit, Queued, Handled, Contains
<1>2. Types
  <2>1. queue \in [Queue -> Seq(Msg)] /\ stack \in Seq(Frame)
    BY DEF MInit
  <2>2. /\ pc \in [Sender -> SenderStates] /\ waits \in [Sender -> BOOLEAN]
        /\ \A s \in Sender : pc[s] \notin Pushing \cup Waiting
    BY DEF MInit, SenderStates, Pushing, Waiting
  <2>3. msg \in [Sender -> Msg \cup {NoMsg}] /\ sent \in Nat
    BY DEF MInit
  <2> QED BY <2>1, <2>2, <2>3 DEF MInit, Types
<1> QED BY <1>1, <1>2 DEF MInit, MInv, CreatedBefore, DirectIsOwn, Places, QueuedOnce, StackedOnce,
           OnePlace, PushedOnce, WaiterIsKnown, AwaitingAnswer, Pushing, NoMsg

(* Steps of a sender alone: it goes on, or is done with its message.       *)
LEMMA SenderAlone ==
  ASSUME MInv, NEW s \in Sender,
         UnlockGfx(s) \/ ExitGfx(s) \/ SendReturn(s) \/ ThreadEnds(s)
  PROVE  MInv'
<1>1. UNCHANGED <<queue, stack, waitEvent, deleted, sent, phase>>
  BY DEF UnlockGfx, ExitGfx, SendReturn, ThreadEnds, objectVars, appVars
<1>2. \A t \in Sender : pc'[t] \in SenderStates /\ msg'[t] \in {msg[t], NoMsg}
  BY DEF UnlockGfx, ExitGfx, SendReturn, ThreadEnds, MInv, Types, SenderStates, Waiting
<1>3. /\ pc' \in [Sender -> SenderStates] /\ msg' \in [Sender -> Msg \cup {NoMsg}]
      /\ waits' \in [Sender -> BOOLEAN]
  BY <1>2 DEF UnlockGfx, ExitGfx, SendReturn, ThreadEnds, MInv, Types
<1>4. \A t \in Sender : /\ pc'[t] \in Pushing => pc[t] \in Pushing /\ msg'[t] = msg[t]
                        /\ pc'[t] \in Waiting => pc[t] \in Waiting /\ msg'[t] = msg[t]
  BY DEF UnlockGfx, ExitGfx, SendReturn, ThreadEnds, MInv, Types, Pushing, Waiting
<1>5. \A m : (Queued(m)' <=> Queued(m)) /\ (Handled(m)' <=> Handled(m))
  BY <1>1 DEF Queued, Handled
<1>6. Types'
  BY <1>1, <1>3, <1>4 DEF MInv, Types
<1>7. CreatedBefore' /\ DirectIsOwn'
  BY <1>1, <1>2, <1>5 DEF MInv, CreatedBefore, DirectIsOwn, Types, NoMsg
<1>8. Places'
  BY <1>1, <1>5 DEF MInv, Places, QueuedOnce, StackedOnce, OnePlace
<1>9. PushedOnce'
  BY <1>1, <1>4, <1>5 DEF MInv, PushedOnce
<1>10. WaiterIsKnown'
  BY <1>1, <1>4, <1>5 DEF MInv, WaiterIsKnown, AwaitingAnswer, Waiting
<1> QED BY <1>6, <1>7, <1>8, <1>9, <1>10 DEF MInv

(* SendMsg: the message is new, and nowhere yet.                           *)
LEMMA InvSendMsg ==
  ASSUME MInv, NEW s \in Sender, NEW isQuit, NEW wait \in BOOLEAN, NEW locked,
         SendMsg(s, isQuit, wait, locked)
  PROVE  MInv'
<1>1. /\ UNCHANGED <<queue, stack, waitEvent, deleted, phase>> /\ sent' = sent + 1
      /\ pc' = [pc EXCEPT ![s] = "push"] /\ msg' = [msg EXCEPT ![s] = sent + 1]
      /\ waits' = [waits EXCEPT ![s] = wait] /\ sent < MaxMessages
  BY DEF SendMsg, Create, appVars
<1>2. sent \in Nat /\ sent + 1 \in Msg /\ sent + 1 # NoMsg
  BY <1>1, MessengerAssumption DEF MInv, Types, Msg, NoMsg
<1>3. /\ pc'[s] = "push" /\ msg'[s] = sent + 1
      /\ \A t \in Sender \ {s} : pc'[t] = pc[t] /\ msg'[t] = msg[t]
  BY <1>1 DEF MInv, Types
<1>4. \A m : (Queued(m)' <=> Queued(m)) /\ (Handled(m)' <=> Handled(m))
  BY <1>1 DEF Queued, Handled
<1>5. \A m \in Msg \cup {NoMsg} : m <= sent => m # sent + 1 /\ m <= sent + 1
  BY <1>2 DEF Msg, NoMsg
<1>6. Types'
  <2>1. pc' \in [Sender -> SenderStates]
    BY <1>1 DEF MInv, Types, SenderStates, Pushing
  <2>2. msg' \in [Sender -> Msg \cup {NoMsg}] /\ waits' \in [Sender -> BOOLEAN]
    BY <1>1, <1>2 DEF MInv, Types
  <2>3. \A t \in Sender : pc'[t] \in Pushing \cup Waiting => msg'[t] \in Msg
    BY <1>2, <1>3 DEF MInv, Types
  <2> QED BY <1>1, <1>2, <2>1, <2>2, <2>3 DEF MInv, Types
<1>7. ~Queued(sent + 1) /\ ~Handled(sent + 1) /\ sent + 1 \notin deleted
  BY <1>2, <1>5 DEF MInv, CreatedBefore
<1>8. CreatedBefore'
  BY <1>1, <1>2, <1>3, <1>4, <1>5 DEF MInv, CreatedBefore, Types
<1>9. DirectIsOwn'
  <2> SUFFICES ASSUME NEW i \in 1 .. Len(stack), stack[i].from = "direct"
               PROVE  stack[i].msg # NoMsg /\ \A t \in Sender : msg'[t] # stack[i].msg
    BY <1>1 DEF DirectIsOwn
  <2>1. stack[i].msg # sent + 1
    BY <1>7, HandledIn DEF MInv, Types
  <2> QED BY <1>3, <2>1 DEF MInv, DirectIsOwn
<1>10. Places'
  BY <1>1, <1>4 DEF MInv, Places, QueuedOnce, StackedOnce, OnePlace
<1>11. PushedOnce'
  <2>1. \A t \in Sender : msg[t] # sent + 1
    BY <1>5 DEF MInv, CreatedBefore, Types
  <2> QED BY <1>1, <1>3, <1>4, <1>7, <2>1 DEF MInv, PushedOnce
<1>12. WaiterIsKnown'
  BY <1>1, <1>3, <1>4 DEF MInv, WaiterIsKnown, AwaitingAnswer
<1> QED BY <1>6, <1>8, <1>9, <1>10, <1>11, <1>12 DEF MInv

(* Push: the message goes from its sender to a queue.                      *)
LEMMA InvPush ==
  ASSUME MInv, NEW s \in Sender, NEW k \in Queue, Push(s, k)
  PROVE  MInv'
<1> DEFINE m == msg[s]
<1>1. /\ UNCHANGED <<stack, waitEvent, deleted, sent, phase, waits>> /\ pc[s] = "push"
      /\ queue' = [queue EXCEPT ![k] = Append(@, m)]
      /\ pc' = [pc EXCEPT ![s] = IF waits[s] THEN "exit" ELSE "idle"]
      /\ msg' = IF waits[s] THEN msg ELSE [msg EXCEPT ![s] = NoMsg]
  BY DEF Push, objectVars, appVars
<1>2. m \in Msg /\ ~Queued(m) /\ ~Handled(m) /\ m \notin deleted
  BY <1>1 DEF MInv, Types, PushedOnce, Pushing
<1>3. /\ queue' \in [Queue -> Seq(Msg)] /\ QueuedOnce'
      /\ \A x : Queued(x)' <=> Queued(x) \/ x = m
  BY <1>1, <1>2, QueueAppend DEF MInv, Places
<1>4. \A x : Handled(x)' <=> Handled(x)
  BY <1>1 DEF Handled
<1>5. /\ pc'[s] \in {"exit", "idle"} /\ msg'[s] \in {m, NoMsg}
      /\ pc'[s] = "exit" => msg'[s] = m
      /\ \A t \in Sender \ {s} : pc'[t] = pc[t] /\ msg'[t] = msg[t]
  BY <1>1 DEF MInv, Types
<1>6. Types'
  <2>1. pc' \in [Sender -> SenderStates]
    BY <1>1 DEF MInv, Types, SenderStates, Waiting
  <2>2. msg' \in [Sender -> Msg \cup {NoMsg}]
    BY <1>1 DEF MInv, Types
  <2>3. \A t \in Sender : pc'[t] \in Pushing \cup Waiting => msg'[t] \in Msg
    BY <1>2, <1>5 DEF MInv, Types, Pushing, Waiting
  <2> QED BY <1>1, <1>3, <2>1, <2>2, <2>3 DEF MInv, Types
<1>7. CreatedBefore' /\ DirectIsOwn'
  <2>1. m <= sent /\ NoMsg <= sent
    BY DEF MInv, Types, CreatedBefore, NoMsg
  <2> QED BY <1>1, <1>3, <1>4, <1>5, <2>1 DEF MInv, CreatedBefore, DirectIsOwn
<1>8. Places'
  BY <1>1, <1>2, <1>3, <1>4 DEF MInv, Places, StackedOnce, OnePlace
<1>9. PushedOnce'
  BY <1>1, <1>3, <1>4, <1>5 DEF MInv, PushedOnce, Pushing
<1>10. WaiterIsKnown'
  BY <1>1, <1>3, <1>4, <1>5 DEF MInv, WaiterIsKnown, AwaitingAnswer
<1> QED BY <1>6, <1>7, <1>8, <1>9, <1>10 DEF MInv

(* Take: a message goes from a queue to the stack, whichever loop asks.    *)
LEMMA InvTake ==
  ASSUME MInv, NEW k \in Queue, NEW frames, Take(k, frames),
         frames = stack \/ (stack # <<>> /\ Top.msg = NoMsg /\ frames = Front(stack)),
         UNCHANGED <<waitEvent, deleted, sent, phase, pc, msg, waits>>
  PROVE  MInv'
<1> DEFINE m == Head(queue[k])
           f == [from |-> k, msg |-> m]
<1>1. /\ queue' \in [Queue -> Seq(Msg)] /\ QueuedOnce'
      /\ m \in Msg /\ Queued(m)
      /\ \A x : Queued(x)' <=> Queued(x) /\ x # m
  BY QueuePop DEF Take, MInv, Places
<1>2. f \in Frame /\ f.msg = m /\ f.msg # NoMsg /\ f.from # "direct" /\ ~Handled(f.msg)
  BY <1>1 DEF Frame, Queue, Msg, NoMsg, MInv, Places, OnePlace
<1>3. stack' = Append(frames, f)
  BY DEF Take
<1> HIDE DEF f
<1>4. /\ stack' \in Seq(Frame) /\ StackedOnce'
      /\ \A x \in Msg : Handled(x)' <=> Handled(x) \/ x = m
      /\ \A i \in 1 .. Len(stack') :
           stack'[i] = f \/ \E j \in 1 .. Len(stack) : stack'[i] = stack[j]
  BY <1>2, <1>3, StackAppend DEF MInv, Types, Places
<1>5. Types'
  BY <1>1, <1>4 DEF MInv, Types
<1>6. CreatedBefore'
  BY <1>1, <1>4 DEF MInv, CreatedBefore
<1>7. DirectIsOwn'
  BY <1>2, <1>4 DEF MInv, DirectIsOwn
<1>8. Places'
  BY <1>1, <1>4 DEF MInv, Places, OnePlace
<1>9. PushedOnce'
  BY <1>1, <1>4 DEF MInv, PushedOnce, Types
<1>10. WaiterIsKnown'
  BY <1>1, <1>4 DEF MInv, WaiterIsKnown, AwaitingAnswer, Types, Waiting
<1> QED BY <1>5, <1>6, <1>7, <1>8, <1>9, <1>10 DEF MInv

(* A loop that ends takes nothing with it: its frame is between messages.  *)
LEMMA InvProcessReturn ==
  ASSUME MInv, NEW k \in Queue, ProcessReturn(k)
  PROVE  MInv'
<1>1. /\ UNCHANGED <<queue, waitEvent, deleted, sent, phase, pc, msg, waits>>
      /\ stack # <<>> /\ Top.msg = NoMsg /\ Top.from = k /\ stack' = Front(stack)
  BY DEF ProcessReturn, objectVars, senderVars
<1>2. /\ stack' \in Seq(Frame) /\ StackedOnce'
      /\ \A m \in Msg : Handled(m)' <=> Handled(m) /\ m # NoMsg
      /\ \A i \in 1 .. Len(stack') : \E j \in 1 .. Len(stack) :
           /\ stack'[i].from = stack[j].from
           /\ stack'[i].msg = stack[j].msg \/ j = Len(stack)
  BY <1>1, StackDone DEF MInv, Types, Places
<1>3. \A m \in Msg : /\ Handled(m)' <=> Handled(m)
                     /\ Queued(m)' <=> Queued(m)
  BY <1>1, <1>2 DEF Msg, NoMsg, Queued
<1>4. DirectIsOwn'
  BY <1>1, <1>2 DEF MInv, DirectIsOwn, Top, Queue
<1>5. Types' /\ CreatedBefore' /\ QueuedOnce'
  BY <1>1, <1>2, <1>3 DEF MInv, Types, CreatedBefore, Places, QueuedOnce
<1>6. Places' /\ PushedOnce'
  BY <1>1, <1>2, <1>3, <1>5 DEF MInv, Types, Places, OnePlace, PushedOnce
<1>7. WaiterIsKnown'
  BY <1>1, <1>3 DEF MInv, WaiterIsKnown, AwaitingAnswer, Types, Waiting
<1> QED BY <1>4, <1>5, <1>6, <1>7 DEF MInv

(* SendDirect: the message is new, and only the application knows it.      *)
LEMMA InvSendDirect ==
  ASSUME MInv, SendDirect
  PROVE  MInv'
<1> DEFINE m == sent + 1
           f == [from |-> "direct", msg |-> m]
<1>1. /\ UNCHANGED <<queue, waitEvent, deleted, phase, pc, msg, waits>> /\ sent' = m
      /\ stack' = Append(stack, f) /\ sent < MaxMessages
  BY DEF SendDirect, Create, senderVars
<1>2. /\ sent \in Nat /\ m \in Msg /\ m # NoMsg
      /\ \A x \in Msg \cup {NoMsg} : x <= sent => x # m /\ x <= m
      /\ m <= m
  BY <1>1, MessengerAssumption DEF MInv, Types, Msg, NoMsg
<1>3. f \in Frame /\ f.msg = m
  BY <1>2 DEF Frame
<1> HIDE DEF m, f
<1>4. ~Queued(m) /\ ~Handled(m) /\ m \notin deleted /\ \A s \in Sender : msg[s] # m
  BY <1>2 DEF MInv, CreatedBefore, Types
<1>5. /\ stack' \in Seq(Frame) /\ StackedOnce'
      /\ \A x \in Msg : Handled(x)' <=> Handled(x) \/ x = m
      /\ \A i \in 1 .. Len(stack') :
           stack'[i] = f \/ \E j \in 1 .. Len(stack) : stack'[i] = stack[j]
  BY <1>1, <1>2, <1>3, <1>4, StackAppend DEF MInv, Types, Places
<1>6. \A x : Queued(x)' <=> Queued(x)
  BY <1>1 DEF Queued
<1>7. Types'
  BY <1>1, <1>2, <1>5 DEF MInv, Types, m
<1>8. CreatedBefore'
  BY <1>1, <1>2, <1>5, <1>6 DEF MInv, CreatedBefore, Types
<1>9. DirectIsOwn'
  BY <1>1, <1>2, <1>3, <1>4, <1>5 DEF MInv, DirectIsOwn
<1>10. QueuedOnce'
  BY <1>1 DEF MInv, Places, QueuedOnce
<1>11. Places'
  BY <1>1, <1>4, <1>5, <1>6, <1>10 DEF MInv, Places, OnePlace
<1>12. PushedOnce'
  BY <1>1, <1>4, <1>5, <1>6 DEF MInv, PushedOnce, Types
<1>13. WaiterIsKnown'
  BY <1>1, <1>5, <1>6 DEF MInv, WaiterIsKnown, AwaitingAnswer, Types, Waiting
<1> QED BY <1>7, <1>8, <1>9, <1>11, <1>12, <1>13 DEF MInv

(* PostByApp: the message is new, and queued at once.                      *)
LEMMA InvPostByApp ==
  ASSUME MInv, NEW k \in Queue, NEW isQuit, PostByApp(k, isQuit)
  PROVE  MInv'
<1> DEFINE m == sent + 1
<1>1. /\ UNCHANGED <<stack, waitEvent, deleted, phase, pc, msg, waits>> /\ sent' = m
      /\ queue' = [queue EXCEPT ![k] = Append(@, m)] /\ sent < MaxMessages
  BY DEF PostByApp, Create, senderVars, appVars
<1>2. /\ sent \in Nat /\ m \in Msg
      /\ \A x \in Msg \cup {NoMsg} : x <= sent => x # m /\ x <= m
      /\ m <= m
  BY <1>1, MessengerAssumption DEF MInv, Types, Msg, NoMsg
<1> HIDE DEF m
<1>3. ~Queued(m) /\ ~Handled(m) /\ m \notin deleted /\ \A s \in Sender : msg[s] # m
  BY <1>2 DEF MInv, CreatedBefore, Types
<1>4. /\ queue' \in [Queue -> Seq(Msg)] /\ QueuedOnce'
      /\ \A x : Queued(x)' <=> Queued(x) \/ x = m
  BY <1>1, <1>2, <1>3, QueueAppend DEF MInv, Places
<1>5. \A x : Handled(x)' <=> Handled(x)
  BY <1>1 DEF Handled
<1>6. Types'
  BY <1>1, <1>2, <1>4 DEF MInv, Types, m
<1>7. CreatedBefore'
  BY <1>1, <1>2, <1>4, <1>5 DEF MInv, CreatedBefore, Types
<1>8. DirectIsOwn'
  BY <1>1 DEF MInv, DirectIsOwn
<1>9. Places'
  BY <1>1, <1>3, <1>4, <1>5 DEF MInv, Places, StackedOnce, OnePlace
<1>10. PushedOnce'
  BY <1>1, <1>3, <1>4, <1>5 DEF MInv, PushedOnce
<1>11. WaiterIsKnown'
  BY <1>1, <1>4, <1>5 DEF MInv, WaiterIsKnown, AwaitingAnswer
<1> QED BY <1>6, <1>7, <1>8, <1>9, <1>10, <1>11 DEF MInv

(* Handle: the message's waiter is told; a direct message has none.        *)
LEMMA InvHandle ==
  ASSUME MInv, Handle
  PROVE  MInv'
<1> DEFINE m == Top.msg
           n == Len(stack)
<1>1. /\ UNCHANGED <<queue, sent, phase, pc, msg, waits>>
      /\ stack # <<>> /\ m # NoMsg /\ deleted' = deleted \cup {m}
      /\ waitEvent' = IF Top.from \in Queue THEN waitEvent \cup {m} ELSE waitEvent
      /\ \/ Top.from \in Queue /\ stack' = ReplaceTop([Top EXCEPT !.msg = NoMsg])
         \/ Top.from \notin Queue /\ stack' = Front(stack)
  BY DEF Handle, Busy, senderVars
<1>2. n \in 1 .. n /\ Top = stack[n] /\ Top \in Frame
  <2>1. stack \in Seq(Frame) /\ n \in Nat \ {0}
    BY <1>1, LenProperties, EmptySeq DEF MInv, Types
  <2> QED BY <2>1, LenProperties DEF Top
<1>3. m \in Msg /\ Handled(m) /\ Top.from \in Queue \cup {"direct"}
  BY <1>1, <1>2, HandledIn DEF Frame, MInv, Types
<1>4. /\ stack' \in Seq(Frame) /\ StackedOnce'
      /\ \A x \in Msg : Handled(x)' <=> Handled(x) /\ x # m
      /\ \A i \in 1 .. Len(stack') : \E j \in 1 .. n :
           /\ stack'[i].from = stack[j].from
           /\ stack'[i].msg = stack[j].msg \/ j = n
  BY <1>1, StackDone DEF MInv, Types, Places
<1>5. \A x : Queued(x)' <=> Queued(x)
  BY <1>1 DEF Queued
<1>6. ~Queued(m) /\ m <= sent
  BY <1>3 DEF MInv, Places, OnePlace, CreatedBefore
<1>7. Types'
  BY <1>1, <1>3, <1>4 DEF MInv, Types
<1>8. CreatedBefore'
  BY <1>1, <1>4, <1>5, <1>6 DEF MInv, CreatedBefore
<1>9. DirectIsOwn'
  <2>1. CASE Top.from \in Queue
    <3>1. Top.from # "direct"
      BY <2>1 DEF Queue
    <3> QED BY <1>1, <1>2, <1>4, <3>1 DEF MInv, DirectIsOwn
  <2>2. CASE stack' = Front(stack)
    <3>1. \A i \in 1 .. Len(stack') : i \in 1 .. n /\ stack'[i] = stack[i]
      BY <1>1, <1>2, <2>2, FrontKeeps DEF MInv, Types
    <3> QED BY <1>1, <3>1 DEF MInv, DirectIsOwn
  <2> QED BY <1>1, <2>1, <2>2
<1>10. QueuedOnce'
  BY <1>1 DEF MInv, Places, QueuedOnce
<1>11. Places'
  BY <1>1, <1>4, <1>5, <1>6, <1>10 DEF MInv, Places, OnePlace
<1>12. PushedOnce'
  BY <1>1, <1>3, <1>4, <1>5 DEF MInv, PushedOnce, Types
<1>13. \A s \in Sender : AwaitingAnswer(s)' => AwaitingAnswer(s) /\ msg[s] # m /\ msg[s] \in Msg
  <2> SUFFICES ASSUME NEW s \in Sender, AwaitingAnswer(s)'
               PROVE  AwaitingAnswer(s) /\ msg[s] # m /\ msg[s] \in Msg
    OBVIOUS
  <2>1. AwaitingAnswer(s) /\ msg[s] \in Msg
    BY <1>1 DEF AwaitingAnswer, MInv, Types, Waiting
  <2>2. CASE Top.from \in Queue
    BY <1>1, <2>1, <2>2 DEF AwaitingAnswer
  <2>3. CASE Top.from = "direct"
    BY <1>2, <2>1, <2>3 DEF MInv, DirectIsOwn
  <2> QED BY <1>3, <2>1, <2>2, <2>3
<1>14. WaiterIsKnown'
  BY <1>1, <1>4, <1>5, <1>13 DEF MInv, WaiterIsKnown
<1> QED BY <1>7, <1>8, <1>9, <1>11, <1>12, <1>14 DEF MInv

(* The steps of Stop() that only wait.                                     *)
LEMMA InvStop ==
  ASSUME MInv, Stop \/ JobsCancelled \/ ServicesStopped
  PROVE  MInv'
<1>1. /\ UNCHANGED <<queue, sent, waitEvent, deleted, stack, pc, msg, waits>>
      /\ phase # "exited"
  BY DEF Stop, JobsCancelled, ServicesStopped, objectVars, senderVars
<1>2. \A x : (Queued(x)' <=> Queued(x)) /\ (Handled(x)' <=> Handled(x))
  BY <1>1 DEF Queued, Handled
<1> QED BY <1>1, <1>2 DEF MInv, Types, CreatedBefore, DirectIsOwn, Places, QueuedOnce, StackedOnce,
           OnePlace, PushedOnce, WaiterIsKnown, AwaitingAnswer

(* Cleanup() discards what is queued, and tells whoever waits for it.      *)
LEMMA InvCleanup ==
  ASSUME MInv, CleanupInStop \/ Exit
  PROVE  MInv'
<1>1. /\ deleted' = deleted \cup {m \in Msg : Queued(m)}
      /\ waitEvent' = waitEvent \cup {m \in Msg : Queued(m)}
      /\ queue' = [k \in Queue |-> <<>>]
      /\ UNCHANGED <<sent, stack, pc, msg, waits>>
      /\ phase # "exited" \/ phase' = "exited"
  BY DEF CleanupInStop, Exit, Cleanup, senderVars
<1>2. \A x : ~Queued(x)' /\ (Handled(x)' <=> Handled(x))
  BY <1>1 DEF Queued, Handled, Contains
<1>3. Types'
  BY <1>1 DEF MInv, Types
<1>4. CreatedBefore' /\ DirectIsOwn'
  BY <1>1, <1>2 DEF MInv, CreatedBefore, DirectIsOwn
<1>5. Places'
  BY <1>1, <1>2 DEF MInv, Places, QueuedOnce, StackedOnce, OnePlace
<1>6. PushedOnce'
  BY <1>1, <1>2 DEF MInv, PushedOnce
<1>7. WaiterIsKnown'
  <2> SUFFICES ASSUME phase' # "exited", NEW s \in Sender, AwaitingAnswer(s)'
               PROVE  Handled(msg[s])
    BY <1>1, <1>2 DEF WaiterIsKnown
  <2>1. AwaitingAnswer(s) /\ msg[s] \in Msg /\ ~Queued(msg[s])
    BY <1>1 DEF AwaitingAnswer, MInv, Types, Waiting
  <2> QED BY <1>1, <2>1 DEF MInv, WaiterIsKnown
<1> QED BY <1>3, <1>4, <1>5, <1>6, <1>7 DEF MInv

-----------------------------------------------------------------------------
(* Every step, and every step of somebody else, keeps the invariant.       *)
LEMMA StepInv == MInv /\ [MNext]_mvars => MInv'
<1> SUFFICES ASSUME MInv, [MNext]_mvars PROVE MInv'
  OBVIOUS
<1>1. CASE \E s \in Sender : SenderStep(s)
  BY <1>1, InvPush, SenderAlone DEF SenderStep
<1>2. CASE \E s \in Sender, isQuit, wait, locked \in BOOLEAN : SendMsg(s, isQuit, wait, locked)
  BY <1>2, InvSendMsg
<1>3. ASSUME NEW k \in Queue, Process(k) \/ NextMessage(k) PROVE MInv'
  <2>1. UNCHANGED <<waitEvent, deleted, sent, phase, pc, msg, waits>>
    BY <1>3 DEF Process, NextMessage, objectVars, senderVars
  <2>2. CASE Process(k)
    <3>1. Take(k, stack)
      BY <2>2 DEF Process
    <3> QED BY <2>1, <3>1, InvTake
  <2>3. CASE NextMessage(k)
    <3>1. Take(k, Front(stack)) /\ stack # <<>> /\ Top.msg = NoMsg
      BY <2>3 DEF NextMessage
    <3> QED BY <2>1, <3>1, InvTake
  <2> QED BY <1>3, <2>2, <2>3
<1>4. CASE AppStep
  BY <1>3, <1>4, InvProcessReturn, InvHandle, InvStop, InvCleanup DEF AppStep
<1>5. CASE SendDirect
  BY <1>5, InvSendDirect
<1>6. CASE \E k \in Queue, isQuit \in BOOLEAN : PostByApp(k, isQuit)
  BY <1>6, InvPostByApp
<1>7. CASE UNCHANGED mvars
  <2>1. UNCHANGED <<queue, sent, waitEvent, deleted, stack, pc, msg, waits, phase>>
    BY <1>7 DEF mvars, objectVars, appVars, senderVars
  <2>2. \A x : (Queued(x)' <=> Queued(x)) /\ (Handled(x)' <=> Handled(x))
    BY <2>1 DEF Queued, Handled
  <2> QED BY <2>1, <2>2 DEF MInv, Types, CreatedBefore, DirectIsOwn, Places, QueuedOnce, StackedOnce,
             OnePlace, PushedOnce, WaiterIsKnown, AwaitingAnswer
<1> QED BY <1>1, <1>2, <1>3, <1>4, <1>5, <1>6, <1>7 DEF MNext

(* The invariant holds in every state the messenger reaches.               *)
THEOREM MInvariance == MSpec => []MInv
BY InitInv, StepInv, PTL DEF MSpec

(* Whoever waits has somebody to wake him, in whatever loop.               *)
THEOREM WaiterIsAlwaysKnown == MSpec => []WaiterIsKnown
<1>1. MInv => WaiterIsKnown
  BY DEF MInv
<1> QED BY <1>1, MInvariance, PTL

(* A message is handled once, and not used after it was deleted.           *)
THEOREM EachIsHandledOnce == MSpec => []HandledOnce
<1>1. MInv => HandledOnce
  BY LenProperties DEF MInv, Types, Places, StackedOnce, OnePlace, HandledOnce
<1> QED BY <1>1, MInvariance, PTL


-----------------------------------------------------------------------------
(* No deadlock but one                                                     *)

(* The graphics lock is never held in a wait: "Ensure the thread doesn't   *)
(* hold the graphics lock".                                                *)
GfxInv ==
  /\ gfxOwner \in Sender \cup {NULL}
  /\ gfxOwner # NULL => pc[gfxOwner] \in {"idle", "push", "exit"}

(* Stop() runs in the handler of TMSG_QUIT, the innermost, until its end.  *)
StopInv ==
  /\ phase \in {"run", "cancel", "cleanup", "services", "stopped", "exited"}
  /\ m_bStop <=> phase # "run"
  /\ phase \in {"cancel", "cleanup", "services"} => Busy /\ Top.msg = quit

(* What each thread needs for its next step (the guards of SenderStep,     *)
(* AppStep, and of Process in the main loop).                              *)
SenderGoesOn(s) ==
  \/ pc[s] \in {"push", "exit"}
  \/ pc[s] = "wait" /\ msg[s] \in waitEvent
  \/ pc[s] = "waitLocked" /\ msg[s] \in waitEvent /\ gfxOwner = NULL
  \/ pc[s] = "idle" /\ gfxOwner = s
  \/ /\ pc[s] = "idle" /\ gfxOwner # s
     /\ \/ s \in JobThread /\ phase # "run"
        \/ s \in ServiceThread /\ phase \in {"services", "stopped"}
AppGoesOn ==
  \/ stack = <<>> /\ MayCall /\ ~m_bStop /\ \E k \in Queue : queue[k] # <<>>
  \/ stack # <<>> /\ Top.msg = NoMsg
  \/ Busy /\ gfxOwner = NULL /\ (Top.msg = quit => phase = "stopped")
  \/ Busy /\ Top.msg = quit /\ phase = "run"
  \/ phase = "cancel" /\ \A s \in JobThread : pc[s] = "gone"
  \/ phase = "cleanup"
  \/ phase = "services" /\ \A s \in ServiceThread : pc[s] = "gone"
  \/ phase = "stopped" /\ stack = <<>>

(* Whom a sender, or the application that it waits for, may have to wait   *)
(* for: who holds the graphics lock, and the threads that Stop() ends.     *)
InTheWay(t) ==
  \/ t = gfxOwner
  \/ phase = "cancel" /\ t \in JobThread
  \/ phase = "services" /\ t \in ServiceThread

(* A thread in SendMsg() goes on, or the application does, or whoever is   *)
(* in the way of the two; but for the exit that waits for its own caller.  *)
SendersAreNotStuck ==
  phase # "exited" =>
    \A s \in Sender : InSend(s) =>
      \/ SenderGoesOn(s) \/ AppGoesOn
      \/ \E t \in Sender : InTheWay(t) /\ SenderGoesOn(t)
      \/ ExitIsBlocked

(* No step takes the lock into a wait, or leaves Stop() before its end.    *)
LEMMA ExitStep ==
  ASSUME Types, GfxInv, StopInv, [MNext]_mvars
  PROVE  GfxInv' /\ StopInv'
<1> USE MessengerAssumption
<1>1. ASSUME NEW s \in Sender, SenderStep(s)
      PROVE  GfxInv' /\ StopInv'
  <2>1. UNCHANGED <<m_bStop, phase, stack, quit>>
    BY <1>1 DEF SenderStep, Push, ExitGfx, SendReturn, UnlockGfx, ThreadEnds, objectVars, appVars
  <2>2. StopInv'
    BY <2>1 DEF StopInv, Busy, Top
  <2>3. \A t \in Sender \ {s} : pc'[t] = pc[t]
    BY <1>1 DEF SenderStep, Push, ExitGfx, SendReturn, UnlockGfx, ThreadEnds, Types
  <2>4. /\ gfxOwner' \in {gfxOwner, s, NULL}
        /\ gfxOwner' = s => pc'[s] \in {"idle", "push", "exit"}
    <3>1. CASE \E k \in Queue : Push(s, k)
      BY <3>1 DEF Push, Types
    <3>2. CASE ExitGfx(s)
      BY <3>2 DEF ExitGfx, Types
    <3>3. CASE SendReturn(s)
      BY <3>3 DEF SendReturn, Types
    <3>4. CASE UnlockGfx(s)
      BY <3>4 DEF UnlockGfx
    <3>5. CASE ThreadEnds(s)
      BY <3>5 DEF ThreadEnds
    <3> QED BY <1>1, <3>1, <3>2, <3>3, <3>4, <3>5 DEF SenderStep
  <2>5. GfxInv'
    BY <2>3, <2>4 DEF GfxInv
  <2> QED BY <2>2, <2>5
<1>2. ASSUME NEW s \in Sender, NEW isQuit \in BOOLEAN, NEW wait \in BOOLEAN, NEW locked \in BOOLEAN,
             SendMsg(s, isQuit, wait, locked)
      PROVE  GfxInv' /\ StopInv'
  <2>1. ~m_bStop /\ UNCHANGED <<m_bStop, phase>>
    BY <1>2 DEF SendMsg, appVars
  <2>2. /\ gfxOwner' \in {gfxOwner, s} /\ pc'[s] = "push"
        /\ \A t \in Sender \ {s} : pc'[t] = pc[t]
    BY <1>2 DEF SendMsg, Types
  <2> QED BY <2>1, <2>2 DEF GfxInv, StopInv
<1>3. ASSUME UNCHANGED senderVars PROVE GfxInv'
  BY <1>3 DEF GfxInv, senderVars
<1>4. ASSUME AppStep PROVE GfxInv' /\ StopInv'
  <2>1. CASE \E k \in Queue : NextMessage(k) \/ ProcessReturn(k)
    BY <1>3, <2>1 DEF NextMessage, ProcessReturn, StopInv, Busy
  <2>2. CASE Handle
    BY <1>3, <2>2 DEF Handle, StopInv, Busy
  <2>3. CASE Stop
    BY <1>3, <2>3 DEF Stop, StopInv, Busy, Top, objectVars
  <2>4. CASE JobsCancelled
    BY <1>3, <2>4 DEF JobsCancelled, StopInv, Busy, Top, objectVars
  <2>5. CASE CleanupInStop
    BY <1>3, <2>5 DEF CleanupInStop, Cleanup, StopInv, Busy, Top
  <2>6. CASE ServicesStopped
    BY <1>3, <2>6 DEF ServicesStopped, StopInv
  <2>7. CASE Exit
    BY <1>3, <2>7 DEF Exit, StopInv
  <2> QED BY <1>4, <2>1, <2>2, <2>3, <2>4, <2>5, <2>6, <2>7 DEF AppStep
<1>5. CASE \E k \in Queue : Process(k) \/ \E isQuit \in BOOLEAN : PostByApp(k, isQuit)
  <2>1. ~m_bStop /\ UNCHANGED <<m_bStop, phase, senderVars>>
    BY <1>5 DEF Process, PostByApp, appVars
  <2> QED BY <1>3, <2>1 DEF StopInv
<1>6. CASE SendDirect
  BY <1>3, <1>6 DEF SendDirect, StopInv
<1>7. CASE UNCHANGED mvars
  BY <1>3, <1>7 DEF mvars, appVars, objectVars, StopInv, Busy, Top
<1> QED BY <1>1, <1>2, <1>4, <1>5, <1>6, <1>7 DEF MNext

(* Nothing is queued in empty queues.                                      *)
LEMMA NothingQueued ==
  ASSUME \A k \in Queue : queue[k] = <<>>
  PROVE  \A m : ~Queued(m)
BY DEF Queued, Contains

(* The safety half of CallsAreAnswered: whatever nests, locks and ends,    *)
(* the exit in ExitIsBlocked is the only deadlock of the messenger.  The   *)
(* bound MaxDepth must let the main loop handle a message.                 *)
THEOREM OnlyTheExitBlocks ==
  ASSUME MaxDepth # 0
  PROVE  MSpec => []SendersAreNotStuck
<1>1. MInv /\ GfxInv /\ StopInv => SendersAreNotStuck
  <2> SUFFICES ASSUME MInv, GfxInv, StopInv, phase # "exited", NEW s \in Sender, InSend(s),
                      ~SenderGoesOn(s), ~AppGoesOn, ~ExitIsBlocked,
                      \A t \in Sender : InTheWay(t) => ~SenderGoesOn(t)
               PROVE  FALSE
    BY DEF SendersAreNotStuck
  <2> USE MessengerAssumption
  <2>1. gfxOwner = NULL
    <3>1. CASE gfxOwner # NULL
      <4>1. InTheWay(gfxOwner) /\ gfxOwner \in Sender /\ SenderGoesOn(gfxOwner)
        BY <3>1 DEF InTheWay, SenderGoesOn, GfxInv
      <4> QED BY <4>1
    <3> QED BY <3>1
  <2>2. AwaitingAnswer(s)
    BY <2>1 DEF InSend, SenderGoesOn, AwaitingAnswer
  <2>3. Queued(msg[s]) \/ Handled(msg[s])
    BY <2>2 DEF MInv, WaiterIsKnown
  <2>4. CASE stack = <<>>
    <3>1. phase = "run" /\ ~m_bStop
      BY <2>4 DEF StopInv, Busy, AppGoesOn
    <3>2. \A k \in Queue : queue[k] = <<>>
      <4>1. MayCall
        BY <2>4, EmptySeq DEF MayCall
      <4> QED BY <2>4, <3>1, <4>1 DEF AppGoesOn
    <3>3. ~Queued(msg[s])
      BY <3>2, NothingQueued
    <3>4. ~Handled(msg[s])
      BY <2>4 DEF Handled
    <3> QED BY <2>3, <3>3, <3>4
  <2>5. CASE stack # <<>>
    <3>1. Busy /\ Top.msg = quit /\ phase \in {"cancel", "services"}
      BY <2>1, <2>5 DEF AppGoesOn, Busy, StopInv
    <3>2. PICK T \in SUBSET Sender : /\ T = IF phase = "cancel" THEN JobThread ELSE ServiceThread
                                     /\ \E t \in T : pc[t] # "gone"
      BY <3>1 DEF AppGoesOn
    <3>3. PICK t \in T : pc[t] # "gone"
      BY <3>2
    <3>4. ~SenderGoesOn(t) /\ t \in Sender
      BY <3>1, <3>2, <3>3 DEF InTheWay
    <3>5. AwaitingAnswer(t)
      <4>1. pc[t] \in {"idle", "push", "exit", "wait", "waitLocked"}
        BY <3>3, <3>4 DEF MInv, Types, SenderStates, Pushing, Waiting
      <4>2. pc[t] # "idle"
        BY <3>1, <3>2, <3>3, <3>4 DEF SenderGoesOn
      <4> QED BY <2>1, <3>4, <4>1, <4>2 DEF SenderGoesOn, AwaitingAnswer
    <3> QED BY <3>1, <3>2, <3>5 DEF ExitIsBlocked
  <2> QED BY <2>4, <2>5
<1>2. MInit => GfxInv /\ StopInv
  BY DEF MInit, GfxInv, StopInv
<1>3. MInv /\ GfxInv /\ StopInv /\ [MNext]_mvars => (GfxInv /\ StopInv)'
  BY ExitStep DEF MInv
<1> QED BY <1>1, <1>2, <1>3, MInvariance, PTL DEF MSpec
=============================================================================
