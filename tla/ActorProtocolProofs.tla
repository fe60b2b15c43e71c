------------------------- MODULE ActorProtocolProofs -------------------------
(***************************************************************************)
(* Proofs that no message is used after it was recycled, that none but     *)
(* the purged ones is lost, and that a caller gets the answer to its own   *)
(* call, for any clients, any number of messages and any number of calls.  *)
(***************************************************************************)
EXTENDS ActorProtocol, FiniteSetTheorems, SequenceTheorems, TLAPS

-----------------------------------------------------------------------------
(* The inductive invariant                                                 *)

Asking == {"sent sync", "wait", "late"}
ClientStates == {"idle", "sent", "release", "reply"} \cup Asking
Handling == {"have", "replied", "done"}
ActorStates == {"look", "wait", "stopped", "gone"} \cup Handling

MessageRecord ==
  [allocated : BOOLEAN, isSync : BOOLEAN, isSyncFini : BOOLEAN, isSyncTimeout : BOOLEAN,
   replyMessage : Id \cup {NoId}, event : {"none", "clear", "set"}, call : Nat]

Once(seq) == \A i, j \in 1 .. Len(seq) : seq[i] = seq[j] => i = j

ATypes ==
  /\ message \in [Id -> MessageRecord]
  /\ freeMessageQueue \in Seq(Id) /\ outMessages \in Seq(Id) /\ inMessages \in Seq(Id)
  /\ cpc \in [Client -> ClientStates]
  /\ cmsg \in [Client -> Id \cup {NoId}] /\ cret \in [Client -> Id \cup {NoId}]
  /\ given \in [Client -> Nat] /\ calls \in Nat
  /\ apc \in ActorStates /\ amsg \in Id \cup {NoId}
  /\ \A c \in Client : /\ cmsg[c] # NoId <=> cpc[c] \in Asking \cup {"release"}
                       /\ cret[c] # NoId => cpc[c] \in {"release", "reply"}
                       /\ cpc[c] = "reply" => cret[c] # NoId
  /\ amsg # NoId <=> apc \in Handling
  /\ purged \subseteq Id

(* Each list has a message once.                                           *)
ListedOnce == Once(freeMessageQueue) /\ Once(outMessages) /\ Once(inMessages)

(* The owners of a message: the actor's side, the one who sent it, and the *)
(* one who answers it.                                                     *)
Free == ToSet(freeMessageQueue)
Out  == ToSet(outMessages)
In   == ToSet(inMessages)
AtActor(i) == i \in Out \/ i = amsg
Answer(c) == IF cpc[c] \in Asking THEN message[cmsg[c]].replyMessage ELSE cret[c]
IsSent(i) == \E c \in Client : cmsg[c] = i
IsReply(i) == i \in In \/ \E c \in Client : Answer(c) = i

OwnedOnce ==
  /\ amsg \notin Out
  /\ \A c, d \in Client : cmsg[c] # NoId /\ cmsg[c] = cmsg[d] => c = d
  /\ \A c, d \in Client : Answer(c) # NoId /\ Answer(c) = Answer(d) => c = d
  /\ \A c \in Client : Answer(c) \notin In

Ownership ==
  \A i \in Id :
    /\ ~message[i].allocated \/ i \in Free =>
         ~AtActor(i) /\ ~IsSent(i) /\ ~IsReply(i) /\ i \notin purged
    /\ i \in Free => message[i].allocated
    /\ IsSent(i) => message[i].isSync
    /\ AtActor(i) /\ message[i].isSync => (message[i].isSyncFini <=> ~IsSent(i))
    /\ IsSent(i) => (message[i].isSyncFini <=> ~AtActor(i))
    /\ IsReply(i) => ~message[i].isSync /\ ~AtActor(i)
    /\ AtActor(i) \/ IsSent(i) \/ IsReply(i) => i \notin purged
    /\ message[i].allocated /\ i \notin Free /\ i \notin purged =>
         AtActor(i) \/ IsSent(i) \/ IsReply(i)

(* A call that the actor has not answered yet: somebody asks, or has given *)
(* up; and its event is there until the actor is done with it.             *)
Unanswered ==
  /\ \A i \in Id : i \in Out \/ (i = amsg /\ apc = "have") =>
       /\ message[i].isSync => message[i].event = "clear"
       /\ message[i].replyMessage = NoId
       /\ message[i].isSync /\ ~message[i].isSyncTimeout =>
            \E c \in Client : cmsg[c] = i /\ cpc[c] \in Asking
  /\ apc = "replied" => message[amsg].isSync /\ message[amsg].event # "none"

SameCall ==
  /\ \A c \in Client : cmsg[c] # NoId => message[cmsg[c]].call = given[c]
  /\ \A c \in Client : Answer(c) # NoId => message[Answer(c)].call = given[c]

AInv == ATypes /\ ListedOnce /\ OwnedOnce /\ Ownership /\ Unanswered /\ SameCall

-----------------------------------------------------------------------------
(* Lists                                                                   *)

(* A list's set, by its positions.                                         *)
LEMMA Positions ==
  ASSUME NEW S, NEW seq \in Seq(S)
  PROVE  /\ Len(seq) \in Nat
         /\ \A i \in 1 .. Len(seq) : seq[i] \in ToSet(seq) /\ seq[i] \in S
         /\ \A x : x \in ToSet(seq) <=> \E i \in 1 .. Len(seq) : seq[i] = x
BY LenProperties DEF ToSet

(* A list of messages.                                                     *)
LEMMA Listed ==
  ASSUME NEW seq \in Seq(Id)
  PROVE  ToSet(seq) \subseteq Id /\ NoId \notin ToSet(seq)
<1>1. \A i \in 1 .. Len(seq) : seq[i] \in Id
  BY Positions
<1>2. \A x \in ToSet(seq) : x \in Id
  BY <1>1, Positions
<1> QED BY <1>2 DEF Id, NoId

(* One more at the end of a list.                                          *)
LEMMA AppendOnce ==
  ASSUME NEW S, NEW seq \in Seq(S), NEW e \in S, Once(seq), e \notin ToSet(seq)
  PROVE  /\ Append(seq, e) \in Seq(S) /\ Once(Append(seq, e))
         /\ ToSet(Append(seq, e)) = ToSet(seq) \cup {e}
<1> DEFINE n == Len(seq)
           t == Append(seq, e)
<1>1. /\ t \in Seq(S) /\ Len(t) = n + 1 /\ n \in Nat /\ t[n + 1] = e
      /\ \A i \in 1 .. n : t[i] = seq[i]
  BY AppendProperties, LenProperties
<1> HIDE DEF t
<1>2. \A i \in 1 .. n + 1 : i \in 1 .. n \/ i = n + 1
  BY <1>1
<1>3. \A i \in 1 .. n : i \in 1 .. n + 1 /\ t[i] # e
  BY <1>1, Positions
<1>4. Once(t)
  BY <1>1, <1>2, <1>3 DEF Once
<1>5. n + 1 \in 1 .. n + 1
  BY <1>1
<1>6. \A x : x \in ToSet(t) <=> x \in ToSet(seq) \/ x = e
  BY <1>1, <1>2, <1>3, <1>5, Positions
<1>7. ToSet(t) = ToSet(seq) \cup {e}
  BY <1>6
<1> QED BY <1>1, <1>4, <1>7 DEF t

(* A list without its first.                                               *)
LEMMA TailOnce ==
  ASSUME NEW S, NEW seq \in Seq(S), seq # <<>>, Once(seq)
  PROVE  /\ Head(seq) \in S /\ Head(seq) \in ToSet(seq)
         /\ Tail(seq) \in Seq(S) /\ Once(Tail(seq))
         /\ ToSet(Tail(seq)) = ToSet(seq) \ {Head(seq)}
<1> DEFINE n == Len(seq)
           t == Tail(seq)
<1>1. /\ t \in Seq(S) /\ Len(t) = n - 1 /\ n \in Nat \ {0} /\ Head(seq) = seq[1]
      /\ \A i \in 1 .. n - 1 : t[i] = seq[i + 1]
  <2>1. n \in Nat \ {0} /\ Head(seq) = seq[1]
    BY SMT
  <2> QED BY <2>1, HeadTailProperties
<1> HIDE DEF t
<1>2. 1 \in 1 .. n /\ \A i \in 1 .. n - 1 : i \in Nat /\ i + 1 \in 1 .. n /\ i + 1 # 1
  BY <1>1
<1>3. \A i \in 1 .. n : i = 1 \/ (i - 1 \in 1 .. n - 1 /\ (i - 1) + 1 = i)
  BY <1>1
<1>4. Once(t)
  <2> SUFFICES ASSUME NEW i \in 1 .. n - 1, NEW j \in 1 .. n - 1, t[i] = t[j] PROVE i = j
    BY <1>1 DEF Once
  <2>1. i + 1 = j + 1
    BY <1>1, <1>2 DEF Once
  <2> QED BY <2>1, <1>2
<1>5. \A x : x \in ToSet(t) <=> \E i \in 1 .. n - 1 : t[i] = x
  BY <1>1, Positions
<1>6. ASSUME NEW x, x \in ToSet(t) PROVE x \in ToSet(seq) /\ x # seq[1]
  <2>1. PICK i \in 1 .. n - 1 : t[i] = x
    BY <1>5, <1>6
  <2> QED BY <1>1, <1>2, <2>1, Positions DEF Once
<1>7. ASSUME NEW x \in ToSet(seq), x # seq[1] PROVE x \in ToSet(t)
  <2>1. PICK i \in 1 .. n : seq[i] = x
    BY Positions
  <2>2. i - 1 \in 1 .. n - 1 /\ t[i - 1] = x
    BY <1>1, <1>3, <1>7, <2>1
  <2> QED BY <1>5, <2>2
<1>8. ToSet(t) = ToSet(seq) \ {seq[1]}
  BY <1>6, <1>7
<1> QED BY <1>1, <1>2, <1>4, <1>8, Positions DEF t

(* What PurgeOut leaves: the messages at the places it keeps.              *)
LEMMA KeepsOnlyKept ==
  ASSUME outMessages \in Seq(Id), Once(outMessages), NEW kept \in SUBSET (DOMAIN outMessages),
         KeepsOnly(kept)
  PROVE  /\ outMessages' \in Seq(Id) /\ Once(outMessages')
         /\ ToSet(outMessages') = {outMessages[k] : k \in kept}
<1>1. PICK n \in 0 .. Len(outMessages) : \E f \in [1 .. n -> kept] :
        /\ \A a, b \in 1 .. n : a < b => f[a] < f[b]
        /\ \A k \in kept : \E a \in 1 .. n : f[a] = k
        /\ outMessages' = [a \in 1 .. n |-> outMessages[f[a]]]
  BY DEF KeepsOnly
<1>2. PICK f \in [1 .. n -> kept] :
        /\ \A a, b \in 1 .. n : a < b => f[a] < f[b]
        /\ \A k \in kept : \E a \in 1 .. n : f[a] = k
        /\ outMessages' = [a \in 1 .. n |-> outMessages[f[a]]]
  BY <1>1
<1>3. /\ n \in Nat /\ Len(outMessages) \in Nat /\ DOMAIN outMessages = 1 .. Len(outMessages)
      /\ \A a \in 1 .. n : f[a] \in kept /\ f[a] \in 1 .. Len(outMessages)
  BY LenProperties
<1>4. outMessages' \in [1 .. n -> Id]
  BY <1>2, <1>3, Positions
<1>5. outMessages' \in Seq(Id) /\ Len(outMessages') = n
  <2>1. outMessages' \in Seq(Id)
    BY <1>3, <1>4, SeqDef
  <2>2. DOMAIN outMessages' = 1 .. n /\ DOMAIN outMessages' = 1 .. Len(outMessages')
    BY <1>4, <2>1, LenProperties
  <2>3. Len(outMessages') \in Nat
    BY <2>1, LenProperties
  <2>4. \A k \in Nat : k \in 1 .. n <=> k \in 1 .. Len(outMessages')
    BY <2>2
  <2>5. n >= 1 => n <= Len(outMessages')
    BY <1>3, <2>3, <2>4
  <2>6. Len(outMessages') >= 1 => Len(outMessages') <= n
    BY <1>3, <2>3, <2>4
  <2>7. n = Len(outMessages')
    BY <1>3, <2>3, <2>5, <2>6
  <2> QED BY <2>1, <2>7
<1>6. Once(outMessages')
  <2> SUFFICES ASSUME NEW a \in 1 .. n, NEW b \in 1 .. n, outMessages'[a] = outMessages'[b]
               PROVE  a = b
    BY <1>5 DEF Once
  <2>1. f[a] = f[b]
    BY <1>2, <1>3 DEF Once
  <2>2. f[a] \in Nat /\ f[b] \in Nat /\ a \in Nat /\ b \in Nat
    BY <1>3
  <2>3. ~(f[a] < f[b]) /\ ~(f[b] < f[a])
    BY <2>1, <2>2
  <2>4. ~(a < b) /\ ~(b < a)
    BY <1>2, <2>3
  <2> QED BY <2>2, <2>4
<1>7. \A x : x \in ToSet(outMessages') <=> \E a \in 1 .. n : outMessages[f[a]] = x
  <2>1. \A x : x \in ToSet(outMessages') <=> \E a \in 1 .. n : outMessages'[a] = x
    BY <1>5, Positions
  <2>2. \A a \in 1 .. n : outMessages'[a] = outMessages[f[a]]
    BY <1>2
  <2> QED BY <2>1, <2>2
<1>8. \A x : x \in ToSet(outMessages') <=> \E k \in kept : outMessages[k] = x
  BY <1>2, <1>3, <1>7
<1>9. ToSet(outMessages') = {outMessages[k] : k \in kept}
  BY <1>8
<1> QED BY <1>5, <1>6, <1>9

-----------------------------------------------------------------------------
(* What a message obtained and a message released are                      *)

(* GetMessage: nobody has the message, whether recycled or new.            *)
LEMMA GetMessageFresh ==
  ASSUME AInv, NEW i \in Id, GetMessage(i)
  PROVE  /\ ~AtActor(i) /\ ~IsSent(i) /\ ~IsReply(i) /\ i \notin purged
         /\ freeMessageQueue' \in Seq(Id) /\ Once(freeMessageQueue')
         /\ Free' = Free \ {i}
<1>0. freeMessageQueue \in Seq(Id) /\ Once(freeMessageQueue)
  BY DEF AInv, ATypes, ListedOnce
<1>1. CASE freeMessageQueue # <<>>
  <2>1. i = Head(freeMessageQueue) /\ freeMessageQueue' = Tail(freeMessageQueue)
    BY <1>1 DEF GetMessage
  <2>2. /\ i \in Free /\ freeMessageQueue' \in Seq(Id) /\ Once(freeMessageQueue')
        /\ Free' = Free \ {i}
    BY <1>0, <1>1, <2>1, TailOnce DEF Free
  <2> QED BY <2>2 DEF AInv, Ownership
<1>2. CASE freeMessageQueue = <<>>
  <2>1. ~message[i].allocated /\ freeMessageQueue' = <<>>
    BY <1>2 DEF GetMessage
  <2>2. freeMessageQueue' \in Seq(Id) /\ Once(freeMessageQueue') /\ Free = {} /\ Free' = {}
    BY <1>2, <2>1, EmptySeq DEF Once, Free, ToSet
  <2> QED BY <2>1, <2>2 DEF AInv, Ownership
<1> QED BY <1>1, <1>2

(* The answer of a client is a message.                                    *)
LEMMA AnswerTypes ==
  ASSUME ATypes, NEW c \in Client
  PROVE  /\ Answer(c) \in Id \cup {NoId}
         /\ cmsg[c] \in Id \cup {NoId}
         /\ cpc[c] \in Asking \cup {"release"} <=> cmsg[c] \in Id
<1>1. 0 \notin Id
  BY DEF Id
<1>2. cmsg[c] \in Id \cup {NoId} /\ (cpc[c] \in Asking \cup {"release"} <=> cmsg[c] \in Id)
  BY <1>1 DEF ATypes, NoId
<1>3. CASE cpc[c] \in Asking
  <2>1. message[cmsg[c]] \in MessageRecord
    BY <1>2, <1>3 DEF ATypes
  <2> QED BY <1>2, <1>3, <2>1 DEF Answer, MessageRecord
<1>4. CASE cpc[c] \notin Asking
  BY <1>2, <1>4 DEF Answer, ATypes
<1> QED BY <1>2, <1>3, <1>4

(* What is assigned to members of a message.                               *)
LEMMA MessageExcept ==
  ASSUME message \in [Id -> MessageRecord], NEW i \in Id
  PROVE  /\ [message EXCEPT ![i].isSyncFini = TRUE] \in [Id -> MessageRecord]
         /\ [message EXCEPT ![i].isSyncFini = TRUE, ![i].event = "none"] \in [Id -> MessageRecord]
         /\ \A late \in BOOLEAN : [message EXCEPT ![i].isSyncTimeout = late] \in [Id -> MessageRecord]
         /\ \A e \in {"none", "clear", "set"} :
              [message EXCEPT ![i].event = e] \in [Id -> MessageRecord]
         /\ \A j \in Id : [message EXCEPT ![i].replyMessage = j] \in [Id -> MessageRecord]
<1>1. message[i] \in MessageRecord
  OBVIOUS
<1>2. /\ [message[i] EXCEPT !.isSyncFini = TRUE] \in MessageRecord
      /\ [message[i] EXCEPT !.isSyncFini = TRUE, !.event = "none"] \in MessageRecord
  BY <1>1 DEF MessageRecord
<1>3. /\ \A late \in BOOLEAN : [message[i] EXCEPT !.isSyncTimeout = late] \in MessageRecord
      /\ \A e \in {"none", "clear", "set"} : [message[i] EXCEPT !.event = e] \in MessageRecord
      /\ \A j \in Id : [message[i] EXCEPT !.replyMessage = j] \in MessageRecord
  BY <1>1 DEF MessageRecord
<1> QED BY <1>1, <1>2, <1>3

(* Message::Release, by the first of two owners.                           *)
LEMMA ReleasesFirst ==
  ASSUME ATypes, NEW i \in Id, Releases(i), message[i].isSync, ~message[i].isSyncFini
  PROVE  /\ message' = [message EXCEPT ![i].isSyncFini = TRUE]
         /\ message' \in [Id -> MessageRecord]
         /\ UNCHANGED freeMessageQueue
<1>1. /\ message' = [message EXCEPT ![i].isSyncFini = TRUE]
      /\ UNCHANGED freeMessageQueue
  BY DEF Releases
<1>2. message' \in [Id -> MessageRecord]
  BY <1>1, MessageExcept DEF ATypes
<1> QED BY <1>1, <1>2

(* Message::Release, by the only or the last owner.                        *)
LEMMA ReleasesLast ==
  ASSUME ATypes, Once(freeMessageQueue), NEW i \in Id, Releases(i),
         ~message[i].isSync \/ message[i].isSyncFini, i \notin Free
  PROVE  /\ message' = [message EXCEPT ![i].isSyncFini = TRUE, ![i].event = "none"]
         /\ message' \in [Id -> MessageRecord]
         /\ freeMessageQueue' \in Seq(Id) /\ Once(freeMessageQueue')
         /\ Free' = Free \cup {i}
<1>1. /\ message' = [message EXCEPT ![i].isSyncFini = TRUE, ![i].event = "none"]
      /\ freeMessageQueue' = Append(freeMessageQueue, i)
  BY DEF Releases
<1>2. message' \in [Id -> MessageRecord]
  BY <1>1, MessageExcept DEF ATypes
<1>3. /\ freeMessageQueue' \in Seq(Id) /\ Once(freeMessageQueue')
      /\ Free' = Free \cup {i}
  BY <1>1, AppendOnce DEF ATypes, Free
<1> QED BY <1>1, <1>2, <1>3

-----------------------------------------------------------------------------
(* What clients do                                                         *)

(* SendOutMessage gives the actor a message that nobody had.               *)
LEMMA InvSendOutMessage ==
  ASSUME AInv, NEW c \in Client, SendOutMessage(c)
  PROVE  AInv'
<1>1. PICK i \in Id : /\ GetMessage(i)
                      /\ message' = [message EXCEPT ![i] = NewMessage(calls')]
                      /\ outMessages' = Append(outMessages, i)
  BY DEF SendOutMessage
<1>2. /\ ~AtActor(i) /\ ~IsSent(i) /\ ~IsReply(i) /\ i \notin purged
      /\ freeMessageQueue' \in Seq(Id) /\ Once(freeMessageQueue')
      /\ Free' = Free \ {i}
  BY <1>1, GetMessageFresh
<1>3. /\ cpc[c] = "idle" /\ cpc' = [cpc EXCEPT ![c] = "sent"]
      /\ calls' = calls + 1
      /\ UNCHANGED <<inMessages, cmsg, cret, given, apc, amsg, purged>>
  BY DEF SendOutMessage, actorVars
<1>4. NewMessage(calls') \in MessageRecord
  BY <1>3 DEF NewMessage, MessageRecord, AInv, ATypes, NoId
<1>5. /\ message' \in [Id -> MessageRecord]
      /\ message'[i] = NewMessage(calls') /\ \A j \in Id \ {i} : message'[j] = message[j]
  BY <1>1, <1>4 DEF AInv, ATypes
<1>6. outMessages' \in Seq(Id) /\ Once(outMessages') /\ Out' = Out \cup {i}
  BY <1>1, <1>2, AppendOnce DEF AInv, ATypes, ListedOnce, Out, AtActor
<1>7. \A d \in Client : /\ Answer(d)' = Answer(d)
                        /\ cpc'[d] \in Asking <=> cpc[d] \in Asking
  BY <1>2, <1>3, <1>5 DEF Answer, IsSent, AInv, ATypes, Asking
<1>8. \A j : /\ AtActor(j)' <=> AtActor(j) \/ j = i
             /\ IsSent(j)' <=> IsSent(j)
             /\ IsReply(j)' <=> IsReply(j)
  BY <1>3, <1>6, <1>7 DEF AtActor, IsSent, IsReply, In
<1>9. ATypes'
  <2>1. cpc' \in [Client -> ClientStates]
    BY <1>3 DEF AInv, ATypes, ClientStates
  <2>2. calls' \in Nat
    BY <1>3 DEF AInv, ATypes
  <2>3. \A d \in Client : cpc'[d] = cpc[d] \/ (d = c /\ cpc'[d] = "sent")
    BY <1>3 DEF AInv, ATypes
  <2> QED BY <1>2, <1>3, <1>5, <1>6, <2>1, <2>2, <2>3 DEF AInv, ATypes, Asking
<1>10. ListedOnce' /\ OwnedOnce'
  BY <1>2, <1>3, <1>6, <1>7, <1>8 DEF AInv, ListedOnce, OwnedOnce, AtActor, In, Out
<1>11. Ownership'
  BY <1>2, <1>3, <1>5, <1>8 DEF AInv, Ownership, NewMessage
<1>12. Unanswered'
  BY <1>2, <1>3, <1>5, <1>6, <1>7 DEF AInv, ATypes, Unanswered, NewMessage, AtActor, Handling
<1>13. SameCall'
  BY <1>2, <1>3, <1>5, <1>7, AnswerTypes DEF AInv, SameCall, IsSent, IsReply
<1> QED BY <1>9, <1>10, <1>11, <1>12, <1>13 DEF AInv

(* What a new message says.                                                *)
LEMMA NewMessages ==
  ASSUME NEW n \in Nat
  PROVE  /\ NewMessage(n) \in MessageRecord
         /\ [NewMessage(n) EXCEPT !.isSync = TRUE, !.event = "clear"] =
              [allocated |-> TRUE, isSync |-> TRUE, isSyncFini |-> FALSE, isSyncTimeout |-> FALSE,
               replyMessage |-> NoId, event |-> "clear", call |-> n]
<1> DEFINE m == NewMessage(n)
           e == [m EXCEPT !.isSync = TRUE, !.event = "clear"]
<1>1. m = [allocated |-> TRUE, isSync |-> FALSE, isSyncFini |-> FALSE, isSyncTimeout |-> FALSE,
           replyMessage |-> NoId, event |-> "none", call |-> n]
  BY DEF NewMessage
<1>2. m \in MessageRecord
  BY <1>1 DEF MessageRecord
<1> HIDE DEF m
<1>3. /\ e \in MessageRecord
      /\ e.allocated = m.allocated /\ e.isSync = TRUE /\ e.isSyncFini = m.isSyncFini
      /\ e.isSyncTimeout = m.isSyncTimeout /\ e.replyMessage = m.replyMessage
      /\ e.event = "clear" /\ e.call = m.call
  BY <1>2 DEF MessageRecord
<1> HIDE DEF e
<1>4. e = [allocated |-> e.allocated, isSync |-> e.isSync, isSyncFini |-> e.isSyncFini,
           isSyncTimeout |-> e.isSyncTimeout, replyMessage |-> e.replyMessage,
           event |-> e.event, call |-> e.call]
  BY <1>3 DEF MessageRecord
<1>5. e = [allocated |-> TRUE, isSync |-> TRUE, isSyncFini |-> FALSE, isSyncTimeout |-> FALSE,
           replyMessage |-> NoId, event |-> "clear", call |-> n]
  BY <1>1, <1>3, <1>4
<1> QED BY <1>2, <1>5 DEF e, m

(* SendOutMessageSync gives one to the actor and to the client that waits. *)
LEMMA InvSendOutMessageSync ==
  ASSUME AInv, NEW c \in Client, SendOutMessageSync(c)
  PROVE  AInv'
<1> DEFINE new == [NewMessage(calls') EXCEPT !.isSync = TRUE, !.event = "clear"]
<1>1. PICK i \in Id : /\ GetMessage(i)
                      /\ message' = [message EXCEPT ![i] = new]
                      /\ outMessages' = Append(outMessages, i)
                      /\ cmsg' = [cmsg EXCEPT ![c] = i]
  BY DEF SendOutMessageSync
<1>2. /\ ~AtActor(i) /\ ~IsSent(i) /\ ~IsReply(i) /\ i \notin purged
      /\ freeMessageQueue' \in Seq(Id) /\ Once(freeMessageQueue')
      /\ Free' = Free \ {i}
  BY <1>1, GetMessageFresh
<1> HIDE DEF new
<1>3. /\ cpc[c] = "idle" /\ cpc' = [cpc EXCEPT ![c] = "sent sync"]
      /\ UNCHANGED <<inMessages, cret, apc, amsg, purged>>
  BY DEF SendOutMessageSync, actorVars
<1>0. calls' \in Nat
  <2>1. calls' = calls + 1
    BY DEF SendOutMessageSync
  <2> QED BY <2>1 DEF AInv, ATypes
<1>g. /\ given' \in [Client -> Nat]
      /\ \A d \in Client : given'[d] = IF d = c THEN calls' ELSE given[d]
  <2>1. given' = [given EXCEPT ![c] = calls'] /\ given \in [Client -> Nat]
    BY DEF SendOutMessageSync, AInv, ATypes
  <2> QED BY <1>0, <2>1
<1>4. /\ new \in MessageRecord /\ new.allocated /\ new.isSync /\ ~new.isSyncFini
      /\ ~new.isSyncTimeout /\ new.event = "clear" /\ new.replyMessage = NoId
      /\ new.call = calls'
  <2>2. new = [allocated |-> TRUE, isSync |-> TRUE, isSyncFini |-> FALSE, isSyncTimeout |-> FALSE,
               replyMessage |-> NoId, event |-> "clear", call |-> calls']
    BY <1>0, NewMessages DEF new
  <2> QED BY <1>0, <2>2 DEF MessageRecord, NoId
<1>5. /\ message' \in [Id -> MessageRecord]
      /\ message'[i] = new /\ \A j \in Id \ {i} : message'[j] = message[j]
  BY <1>1, <1>4 DEF AInv, ATypes
<1>6. outMessages' \in Seq(Id) /\ Once(outMessages') /\ Out' = Out \cup {i}
  BY <1>1, <1>2, AppendOnce DEF AInv, ATypes, ListedOnce, Out, AtActor
<1>7. /\ cmsg' \in [Client -> Id \cup {NoId}] /\ cmsg'[c] = i /\ cpc'[c] = "sent sync"
      /\ \A d \in Client \ {c} : cmsg'[d] = cmsg[d] /\ cpc'[d] = cpc[d]
      /\ cpc' \in [Client -> ClientStates]
      /\ cmsg[c] = NoId /\ cret[c] = NoId /\ i # NoId
  <2>1. cmsg[c] = NoId /\ cret[c] = NoId
    BY <1>3 DEF AInv, ATypes, Asking
  <2>3. i # NoId
    BY DEF Id, NoId
  <2>2. cpc' \in [Client -> ClientStates]
    BY <1>3 DEF AInv, ATypes, ClientStates, Asking
  <2> QED BY <1>1, <1>3, <2>1, <2>2, <2>3 DEF AInv, ATypes
<1>8. /\ \A d \in Client : Answer(d)' = Answer(d)
      /\ Answer(c) = NoId
  <2>1. Answer(c) = NoId /\ Answer(c)' = NoId
    BY <1>3, <1>4, <1>5, <1>7 DEF Answer, Asking
  <2>2. ASSUME NEW d \in Client \ {c} PROVE Answer(d)' = Answer(d)
    BY <1>2, <1>3, <1>5, <1>7, AnswerTypes DEF Answer, IsSent, AInv
  <2> QED BY <2>1, <2>2
<1>9. \A j \in Id : /\ AtActor(j)' <=> AtActor(j) \/ j = i
                    /\ IsSent(j)' <=> IsSent(j) \/ j = i
                    /\ IsReply(j)' <=> IsReply(j)
  <2>1. \A j \in Id : j # NoId
    BY DEF Id, NoId
  <2>2. \A j \in Id : AtActor(j)' <=> AtActor(j) \/ j = i
    BY <1>3, <1>6 DEF AtActor
  <2>3. \A j \in Id : IsSent(j)' <=> IsSent(j) \/ j = i
    BY <1>7, <2>1 DEF IsSent
  <2>4. \A j \in Id : IsReply(j)' <=> IsReply(j)
    BY <1>3, <1>8 DEF IsReply, In
  <2> QED BY <2>2, <2>3, <2>4
<1>10. ATypes'
  <2> QED BY <1>0, <1>2, <1>3, <1>g, <1>5, <1>6, <1>7 DEF AInv, ATypes, Asking
<1>11. ListedOnce' /\ OwnedOnce'
  <2>1. \A d, e \in Client : cmsg'[d] # NoId /\ cmsg'[d] = cmsg'[e] => d = e
    BY <1>2, <1>7 DEF AInv, OwnedOnce, IsSent
  <2> QED BY <1>2, <1>3, <1>6, <1>8, <2>1 DEF AInv, ListedOnce, OwnedOnce, AtActor, In, Out
<1>12. Ownership'
  BY <1>2, <1>3, <1>4, <1>5, <1>9 DEF AInv, Ownership
<1>13. Unanswered'
  <2>1. ASSUME NEW j \in Id, j \in Out' \/ (j = amsg /\ apc = "have")
        PROVE  /\ message'[j].isSync => message'[j].event = "clear"
               /\ message'[j].replyMessage = NoId
               /\ message'[j].isSync /\ ~message'[j].isSyncTimeout =>
                    \E d \in Client : cmsg'[d] = j /\ cpc'[d] \in Asking
    <3>1. CASE j = i
      BY <1>4, <1>5, <1>7, <3>1 DEF Asking
    <3>2. CASE j # i
      <4>1. j \in Out \/ (j = amsg /\ apc = "have")
        BY <1>6, <2>1, <3>2
      <4>2. message'[j] = message[j] /\ j # NoId
        BY <1>5, <3>2 DEF Id, NoId
      <4>3. \A d \in Client : cmsg[d] = j => cmsg'[d] = j /\ cpc'[d] = cpc[d]
        BY <1>7, <4>2
      <4>4. /\ message[j].isSync => message[j].event = "clear"
            /\ message[j].replyMessage = NoId
            /\ message[j].isSync /\ ~message[j].isSyncTimeout =>
                 \E d \in Client : cmsg[d] = j /\ cpc[d] \in Asking
        BY <4>1 DEF AInv, Unanswered
      <4> QED BY <4>2, <4>3, <4>4
    <3> QED BY <3>1, <3>2
  <2>2. apc = "replied" => message'[amsg].isSync /\ message'[amsg].event # "none"
    BY <1>2, <1>5 DEF AInv, ATypes, Unanswered, AtActor, Handling
  <2> QED BY <1>3, <2>1, <2>2 DEF Unanswered
<1>14. SameCall'
  <2>2. ASSUME NEW d \in Client, cmsg'[d] # NoId PROVE message'[cmsg'[d]].call = given'[d]
    <3>1. CASE d = c
      BY <1>4, <1>5, <1>7, <1>g, <3>1
    <3>2. CASE d # c
      <4>1. cmsg[d] \in Id \ {i} /\ message[cmsg[d]].call = given[d]
        BY <1>2, <1>7, <2>2, <3>2, AnswerTypes DEF AInv, SameCall, IsSent
      <4> QED BY <1>5, <1>7, <1>g, <3>2, <4>1
    <3> QED BY <3>1, <3>2
  <2>3. ASSUME NEW d \in Client, Answer(d) # NoId PROVE message'[Answer(d)].call = given'[d]
    BY <1>2, <1>5, <1>8, <1>g, <2>3, AnswerTypes DEF AInv, SameCall, IsReply
  <2> QED BY <1>8, <2>2, <2>3 DEF SameCall
<1> QED BY <1>10, <1>11, <1>12, <1>13, <1>14 DEF AInv

(* A client that goes on, keeps its message and the answer to it.          *)
LEMMA ClientGoesOn ==
  ASSUME AInv, NEW c \in Client,
         UNCHANGED <<freeMessageQueue, outMessages, inMessages, cmsg, given, calls, apc, amsg, purged>>,
         message' \in [Id -> MessageRecord],
         \A i \in Id :
           /\ message'[i].allocated = message[i].allocated
           /\ message'[i].isSync = message[i].isSync
           /\ message'[i].isSyncFini = message[i].isSyncFini
           /\ message'[i].replyMessage = message[i].replyMessage
           /\ message'[i].event = message[i].event
           /\ message'[i].call = message[i].call
           /\ i # cmsg[c] => message'[i].isSyncTimeout = message[i].isSyncTimeout,
         cpc' \in [Client -> ClientStates], \A d \in Client \ {c} : cpc'[d] = cpc[d],
         cret' \in [Client -> Id \cup {NoId}], \A d \in Client \ {c} : cret'[d] = cret[d],
         cpc'[c] \in Asking \cup {"release"} <=> cpc[c] \in Asking \cup {"release"},
         cret'[c] # NoId => cpc'[c] = "release",
         cpc'[c] # "reply",
         Answer(c)' = Answer(c),
         \/ cpc'[c] \in Asking \/ cpc[c] \notin Asking
         \/ message[cmsg[c]].event # "clear" \/ message[cmsg[c]].replyMessage # NoId
         \/ message'[cmsg[c]].isSyncTimeout,
         cpc'[c] \in Asking => cpc[c] \in Asking,
         cpc'[c] \in Asking \/ cpc[c] \notin Asking => UNCHANGED message
  PROVE  AInv'
<1>1. \A d \in Client : Answer(d)' = Answer(d)
  <2>1. ASSUME NEW d \in Client \ {c} PROVE Answer(d)' = Answer(d)
    BY AnswerTypes DEF Answer, AInv
  <2> QED BY <2>1
<1>2. \A j : /\ AtActor(j)' <=> AtActor(j)
             /\ IsSent(j)' <=> IsSent(j)
             /\ IsReply(j)' <=> IsReply(j)
  BY <1>1 DEF AtActor, IsSent, IsReply, In, Out
<1>3. ATypes'
  BY DEF AInv, ATypes
<1>4. ListedOnce' /\ OwnedOnce'
  BY <1>1 DEF AInv, ListedOnce, OwnedOnce, Once, In, Out
<1>5. Ownership'
  BY <1>2 DEF AInv, Ownership, Free
<1>6. Unanswered'
  <2>1. ASSUME NEW j \in Id, j \in Out \/ (j = amsg /\ apc = "have")
        PROVE  /\ message'[j].isSync => message'[j].event = "clear"
               /\ message'[j].replyMessage = NoId
               /\ message'[j].isSync /\ ~message'[j].isSyncTimeout =>
                    \E d \in Client : cmsg[d] = j /\ cpc'[d] \in Asking
    <3>1. /\ message[j].isSync => message[j].event = "clear"
          /\ message[j].replyMessage = NoId
          /\ message[j].isSync /\ ~message[j].isSyncTimeout =>
               \E d \in Client : cmsg[d] = j /\ cpc[d] \in Asking
      BY <2>1 DEF AInv, Unanswered
    <3>2. CASE j = cmsg[c]
      <4>1. message[j].isSync /\ ~message[j].isSyncTimeout => cpc[c] \in Asking
        <5>1. j # NoId
          BY DEF Id, NoId
        <5>2. \A d \in Client : cmsg[d] = j => d = c
          BY <3>2, <5>1 DEF AInv, OwnedOnce
        <5> QED BY <3>1, <5>2
      <4>2. CASE cpc'[c] \in Asking
        BY <3>1, <3>2, <4>2
      <4>3. CASE cpc'[c] \notin Asking
        <5>1. /\ message'[j].isSync = message[j].isSync /\ message'[j].event = message[j].event
              /\ message'[j].replyMessage = message[j].replyMessage
          OBVIOUS
        <5>2. message[j].isSync => message[j].event = "clear"
          BY <3>1
        <5>3. message[j].isSync => cpc[c] \notin Asking \/ message'[j].isSyncTimeout
          BY <3>1, <3>2, <4>3
        <5>4. cpc[c] \notin Asking => message'[j].isSyncTimeout = message[j].isSyncTimeout
          BY <3>2, <4>3
        <5> QED BY <3>1, <4>1, <5>1, <5>2, <5>3, <5>4
      <4> QED BY <4>2, <4>3
    <3>3. CASE j # cmsg[c]
      <4>1. \A d \in Client : cmsg[d] = j => cpc'[d] = cpc[d]
        BY <3>3
      <4>2. /\ message'[j].isSync = message[j].isSync /\ message'[j].event = message[j].event
            /\ message'[j].replyMessage = message[j].replyMessage
            /\ message'[j].isSyncTimeout = message[j].isSyncTimeout
        BY <3>3
      <4> QED BY ONLY <3>1, <4>1, <4>2
    <3> QED BY <3>2, <3>3
  <2>2. apc = "replied" => message'[amsg].isSync /\ message'[amsg].event # "none"
    BY DEF AInv, ATypes, Unanswered, Handling
  <2> QED BY <2>1, <2>2 DEF Unanswered, Out
<1>7. SameCall'
  BY <1>1, AnswerTypes DEF AInv, SameCall
<1> QED BY <1>3, <1>4, <1>5, <1>6, <1>7 DEF AInv

(* The event of the actor, the one of the message, and the timeout.        *)
LEMMA InvClientWaits ==
  ASSUME AInv, NEW c \in Client,
         WakeActor(c) \/ Answered(c) \/ TimesOut(c) \/ GivesUp(c)
  PROVE  AInv'
<1>0. /\ ATypes /\ message \in [Id -> MessageRecord]
      /\ cpc \in [Client -> ClientStates] /\ cret \in [Client -> Id \cup {NoId}]
      /\ cret[c] # NoId => cpc[c] \in {"release", "reply"}
      /\ cpc[c] \in Asking => cmsg[c] \in Id
  BY AnswerTypes DEF AInv, ATypes
<1>1. CASE WakeActor(c)
  <2>1. /\ UNCHANGED <<message, freeMessageQueue, outMessages, inMessages, cmsg, cret, given, calls,
                       apc, amsg, purged>>
        /\ \/ cpc[c] = "sent" /\ cpc' = [cpc EXCEPT ![c] = "idle"]
           \/ cpc[c] = "sent sync" /\ cpc' = [cpc EXCEPT ![c] = "wait"]
    BY <1>1 DEF WakeActor, poolVars, actorVars
  <2>2. /\ cpc' \in [Client -> ClientStates] /\ \A d \in Client \ {c} : cpc'[d] = cpc[d]
        /\ \/ cpc[c] = "sent" /\ cpc'[c] = "idle"
           \/ cpc[c] = "sent sync" /\ cpc'[c] = "wait"
    BY <1>0, <2>1 DEF ClientStates, Asking
  <2>3. Answer(c)' = Answer(c)
    BY <2>1, <2>2 DEF Answer, Asking
  <2> QED BY <1>0, <2>1, <2>2, <2>3, ClientGoesOn DEF Asking
<1>2. CASE TimesOut(c)
  <2>1. /\ UNCHANGED <<message, freeMessageQueue, outMessages, inMessages, cmsg, cret, given, calls,
                       apc, amsg, purged>>
        /\ cpc[c] = "wait" /\ cpc' = [cpc EXCEPT ![c] = "late"]
    BY <1>2 DEF TimesOut, poolVars, portVars, actorVars
  <2>2. /\ cpc' \in [Client -> ClientStates] /\ \A d \in Client \ {c} : cpc'[d] = cpc[d]
        /\ cpc'[c] = "late"
    BY <1>0, <2>1 DEF ClientStates, Asking
  <2>3. Answer(c)' = Answer(c)
    BY <2>1, <2>2 DEF Answer, Asking
  <2> QED BY <1>0, <2>1, <2>2, <2>3, ClientGoesOn DEF Asking
<1>3. CASE Answered(c)
  <2>1. /\ UNCHANGED <<message, freeMessageQueue, outMessages, inMessages, cmsg, given, calls,
                       apc, amsg, purged>>
        /\ cpc[c] = "wait" /\ cpc' = [cpc EXCEPT ![c] = "release"]
        /\ cret' = [cret EXCEPT ![c] = message[cmsg[c]].replyMessage]
        /\ message[cmsg[c]].event # "clear"
    BY <1>3 DEF Answered, poolVars, portVars, actorVars
  <2>2. message[cmsg[c]].replyMessage \in Id \cup {NoId}
    BY <1>0, <2>1 DEF MessageRecord, Asking
  <2>3. /\ cpc' \in [Client -> ClientStates] /\ \A d \in Client \ {c} : cpc'[d] = cpc[d]
        /\ cpc'[c] = "release"
    BY <1>0, <2>1 DEF ClientStates, Asking
  <2>4. /\ cret' \in [Client -> Id \cup {NoId}] /\ \A d \in Client \ {c} : cret'[d] = cret[d]
        /\ Answer(c)' = Answer(c)
    BY <1>0, <2>1, <2>2, <2>3 DEF Answer, Asking
  <2> QED BY <1>0, <2>1, <2>3, <2>4, ClientGoesOn DEF Asking
<1>4. CASE GivesUp(c)
  <2> DEFINE answer == message[cmsg[c]].replyMessage
  <2>1. /\ UNCHANGED <<freeMessageQueue, outMessages, inMessages, cmsg, given, calls, apc, amsg, purged>>
        /\ cpc[c] = "late" /\ cpc' = [cpc EXCEPT ![c] = "release"]
        /\ cret' = [cret EXCEPT ![c] = answer]
        /\ message' = [message EXCEPT ![cmsg[c]].isSyncTimeout = (answer = NoId)]
    BY <1>4 DEF GivesUp, portVars, actorVars
  <2>2. cmsg[c] \in Id /\ message[cmsg[c]] \in MessageRecord /\ answer \in Id \cup {NoId}
    BY <1>0, <2>1 DEF MessageRecord, Asking
  <2>3. /\ cpc' \in [Client -> ClientStates] /\ \A d \in Client \ {c} : cpc'[d] = cpc[d]
        /\ cpc'[c] = "release"
    BY <1>0, <2>1 DEF ClientStates, Asking
  <2>4. /\ cret' \in [Client -> Id \cup {NoId}] /\ \A d \in Client \ {c} : cret'[d] = cret[d]
        /\ Answer(c)' = Answer(c)
    BY <1>0, <2>1, <2>2, <2>3 DEF Answer, Asking
  <2>5. message' \in [Id -> MessageRecord]
    <3>1. (answer = NoId) \in BOOLEAN
      OBVIOUS
    <3> HIDE DEF answer
    <3> QED BY <1>0, <2>1, <2>2, <3>1, MessageExcept
  <2>6. \A i \in Id :
           /\ message'[i].allocated = message[i].allocated
           /\ message'[i].isSync = message[i].isSync
           /\ message'[i].isSyncFini = message[i].isSyncFini
           /\ message'[i].replyMessage = message[i].replyMessage
           /\ message'[i].event = message[i].event
           /\ message'[i].call = message[i].call
           /\ i # cmsg[c] => message'[i].isSyncTimeout = message[i].isSyncTimeout
    BY <1>0, <2>1, <2>2 DEF MessageRecord
  <2>7. answer # NoId \/ message'[cmsg[c]].isSyncTimeout
    BY <1>0, <2>1, <2>2 DEF MessageRecord
  <2> QED BY <1>0, <2>1, <2>3, <2>4, <2>5, <2>6, <2>7, ClientGoesOn DEF Asking
<1> QED BY <1>1, <1>2, <1>3, <1>4

-----------------------------------------------------------------------------
(* Releases                                                                *)

(* A release leaves the answer.                                            *)
LEMMA ReleasesKeepsReply ==
  ASSUME message \in [Id -> MessageRecord], NEW i \in Id, Releases(i)
  PROVE  \A j \in Id : message'[j].replyMessage = message[j].replyMessage
<1>1. \/ message' = [message EXCEPT ![i].isSyncFini = TRUE]
      \/ message' = [message EXCEPT ![i].isSyncFini = TRUE, ![i].event = "none"]
  BY DEF Releases
<1>2. message[i] \in MessageRecord
  OBVIOUS
<1> QED BY <1>1, <1>2 DEF MessageRecord

(* The owner that gives a message up leaves it to the other one, or to     *)
(* the free list.                                                          *)
LEMMA OwnershipReleased ==
  ASSUME AInv, NEW i \in Id, Releases(i), UNCHANGED purged,
         \A j \in Id \ {i} : /\ AtActor(j)' <=> AtActor(j)
                             /\ IsSent(j)' <=> IsSent(j)
                             /\ IsReply(j)' <=> IsReply(j),
         \/ AtActor(i) /\ ~AtActor(i)' /\ (IsSent(i)' <=> IsSent(i)) /\ (IsReply(i)' <=> IsReply(i))
         \/ IsSent(i) /\ ~IsSent(i)' /\ (AtActor(i)' <=> AtActor(i)) /\ (IsReply(i)' <=> IsReply(i))
         \/ IsReply(i) /\ ~IsReply(i)' /\ (AtActor(i)' <=> AtActor(i)) /\ (IsSent(i)' <=> IsSent(i))
  PROVE  /\ Ownership'
         /\ message' \in [Id -> MessageRecord]
         /\ freeMessageQueue' \in Seq(Id) /\ Once(freeMessageQueue')
         /\ \A j \in Id : /\ message'[j].isSync = message[j].isSync
                          /\ message'[j].isSyncTimeout = message[j].isSyncTimeout
                          /\ message'[j].replyMessage = message[j].replyMessage
                          /\ message'[j].call = message[j].call
                          /\ message'[j].event = message[j].event \/ (j = i /\ ~AtActor(i)')
<1>0. ATypes /\ Once(freeMessageQueue) /\ message \in [Id -> MessageRecord] /\ i \notin Free
  BY DEF AInv, ATypes, ListedOnce, Ownership
<1>1. /\ ~message[i].allocated \/ i \in Free =>
           ~AtActor(i) /\ ~IsSent(i) /\ ~IsReply(i) /\ i \notin purged
      /\ IsSent(i) => message[i].isSync
      /\ AtActor(i) /\ message[i].isSync => (message[i].isSyncFini <=> ~IsSent(i))
      /\ IsSent(i) => (message[i].isSyncFini <=> ~AtActor(i))
      /\ IsReply(i) => ~message[i].isSync /\ ~AtActor(i)
      /\ AtActor(i) \/ IsSent(i) \/ IsReply(i) => i \notin purged
  BY DEF AInv, Ownership
<1>2. CASE message[i].isSync /\ ~message[i].isSyncFini
  <2>1. /\ message' = [message EXCEPT ![i].isSyncFini = TRUE]
        /\ message' \in [Id -> MessageRecord]
        /\ freeMessageQueue' = freeMessageQueue /\ Free' = Free
    BY <1>0, <1>2, ReleasesFirst DEF Free
  <2>2. /\ \A j \in Id \ {i} : message'[j] = message[j]
        /\ message'[i].isSyncFini /\ message'[i].allocated = message[i].allocated
        /\ message'[i].isSync = message[i].isSync
        /\ message'[i].isSyncTimeout = message[i].isSyncTimeout
        /\ message'[i].replyMessage = message[i].replyMessage
        /\ message'[i].event = message[i].event /\ message'[i].call = message[i].call
    BY <1>0, <2>1 DEF MessageRecord
  <2>3. Ownership'
    BY <1>1, <1>2, <2>1, <2>2 DEF AInv, Ownership
  <2>4. freeMessageQueue' \in Seq(Id) /\ Once(freeMessageQueue')
    BY <1>0, <2>1 DEF ATypes
  <2> QED BY <2>1, <2>2, <2>3, <2>4
<1>3. CASE ~message[i].isSync \/ message[i].isSyncFini
  <2>1. /\ message' = [message EXCEPT ![i].isSyncFini = TRUE, ![i].event = "none"]
        /\ message' \in [Id -> MessageRecord]
        /\ freeMessageQueue' \in Seq(Id) /\ Once(freeMessageQueue')
        /\ Free' = Free \cup {i}
    BY <1>0, <1>3, ReleasesLast
  <2>2. /\ \A j \in Id \ {i} : message'[j] = message[j]
        /\ message'[i].isSyncFini /\ message'[i].allocated = message[i].allocated
        /\ message'[i].isSync = message[i].isSync
        /\ message'[i].isSyncTimeout = message[i].isSyncTimeout
        /\ message'[i].replyMessage = message[i].replyMessage
        /\ message'[i].call = message[i].call
    BY <1>0, <2>1 DEF MessageRecord
  <2>3. ~AtActor(i)' /\ ~IsSent(i)' /\ ~IsReply(i)'
    BY <1>1, <1>3
  <2>4. Ownership'
    BY <1>1, <2>1, <2>2, <2>3 DEF AInv, Ownership
  <2> QED BY <2>1, <2>2, <2>3, <2>4
<1> QED BY <1>2, <1>3

(* What the actor has not answered yet stays so, whatever becomes of other *)
(* messages.                                                               *)
LEMMA UnansweredKept ==
  ASSUME AInv, UNCHANGED <<outMessages, apc, amsg>>,
         \A j \in Id : AtActor(j) => /\ message'[j].isSync = message[j].isSync
                                   /\ message'[j].isSyncTimeout = message[j].isSyncTimeout
                                   /\ message'[j].replyMessage = message[j].replyMessage
                                   /\ message'[j].event = message[j].event,
         \A d \in Client : cpc[d] \in Asking => cmsg'[d] = cmsg[d] /\ cpc'[d] \in Asking
  PROVE  Unanswered'
<1>1. ASSUME NEW j \in Id, j \in Out \/ (j = amsg /\ apc = "have")
      PROVE  /\ message'[j].isSync => message'[j].event = "clear"
             /\ message'[j].replyMessage = NoId
             /\ message'[j].isSync /\ ~message'[j].isSyncTimeout =>
                  \E d \in Client : cmsg'[d] = j /\ cpc'[d] \in Asking
  <2>1. /\ message[j].isSync => message[j].event = "clear"
        /\ message[j].replyMessage = NoId
        /\ message[j].isSync /\ ~message[j].isSyncTimeout =>
             \E d \in Client : cmsg[d] = j /\ cpc[d] \in Asking
    BY <1>1 DEF AInv, Unanswered
  <2>2. AtActor(j)
    BY <1>1 DEF AtActor
  <2> QED BY <2>1, <2>2
<1>2. apc = "replied" => message'[amsg].isSync /\ message'[amsg].event # "none"
  BY DEF AInv, ATypes, Unanswered, AtActor, Handling
<1> QED BY <1>1, <1>2 DEF Unanswered, Out

(* A message from the actor, read by a client or discarded in the end.     *)
LEMMA InReleased ==
  ASSUME AInv, NEW i \in Id, inMessages # <<>>, i = Head(inMessages), Releases(i),
         inMessages' = Tail(inMessages),
         UNCHANGED <<outMessages, cpc, cmsg, cret, given, apc, amsg, calls, purged>>
  PROVE  AInv'
<1>1. /\ inMessages' \in Seq(Id) /\ Once(inMessages')
      /\ i \in In /\ In' = In \ {i}
  BY TailOnce DEF AInv, ATypes, ListedOnce, In
<1>2. \A d \in Client : Answer(d)' = Answer(d)
  <2>1. \A j \in Id : message'[j].replyMessage = message[j].replyMessage
    BY ReleasesKeepsReply DEF AInv, ATypes
  <2> QED BY <2>1, AnswerTypes DEF Answer, AInv
<1>3. \A j \in Id : IsReply(j)' <=> IsReply(j) /\ j # i
  BY <1>1, <1>2 DEF IsReply, AInv, OwnedOnce
<1>4. \A j : (AtActor(j)' <=> AtActor(j)) /\ (IsSent(j)' <=> IsSent(j))
  BY DEF AtActor, IsSent, Out
<1>5. IsReply(i)
  BY <1>1 DEF IsReply
<1>7. /\ Ownership'
      /\ message' \in [Id -> MessageRecord]
      /\ freeMessageQueue' \in Seq(Id) /\ Once(freeMessageQueue')
      /\ \A j \in Id : /\ message'[j].isSync = message[j].isSync
                       /\ message'[j].isSyncTimeout = message[j].isSyncTimeout
                       /\ message'[j].replyMessage = message[j].replyMessage
                       /\ message'[j].call = message[j].call
                       /\ message'[j].event = message[j].event \/ (j = i /\ ~AtActor(i)')
  BY <1>3, <1>4, <1>5, OwnershipReleased
<1>8. ATypes'
  BY <1>1, <1>7 DEF AInv, ATypes
<1>9. ListedOnce' /\ OwnedOnce'
  BY <1>1, <1>2, <1>7 DEF AInv, ListedOnce, OwnedOnce, Out
<1>10. Unanswered'
  BY <1>4, <1>7, UnansweredKept
<1>11. SameCall'
  BY <1>2, <1>7, AnswerTypes DEF AInv, SameCall
<1> QED BY <1>7, <1>8, <1>9, <1>10, <1>11 DEF AInv

(* The caller releases its message, the actor may have it still.           *)
LEMMA InvCallerReleases ==
  ASSUME AInv, NEW c \in Client, CallerReleases(c)
  PROVE  AInv'
<1>0. PICK i \in Id : i = cmsg[c] /\ IsSent(i)
  <2>1. cpc[c] = "release"
    BY DEF CallerReleases
  <2> QED BY <2>1, AnswerTypes DEF AInv, IsSent
<1>1. /\ UNCHANGED <<outMessages, inMessages, cret, given, apc, amsg, calls, purged>>
      /\ cpc[c] = "release" /\ Releases(i)
      /\ cmsg' = [cmsg EXCEPT ![c] = NoId]
      /\ cpc' = [cpc EXCEPT ![c] = IF cret[c] = NoId THEN "idle" ELSE "reply"]
  BY <1>0 DEF CallerReleases, portVars, actorVars
<1>3. /\ cmsg' \in [Client -> Id \cup {NoId}] /\ cmsg'[c] = NoId
      /\ \A d \in Client \ {c} : cmsg'[d] = cmsg[d] /\ cpc'[d] = cpc[d]
      /\ cpc' \in [Client -> ClientStates]
      /\ \/ cret[c] = NoId /\ cpc'[c] = "idle"
         \/ cret[c] # NoId /\ cpc'[c] = "reply"
  BY <1>1 DEF AInv, ATypes, ClientStates
<1>4. \A j \in Id : IsSent(j)' <=> IsSent(j) /\ j # i
  <2>1. \A j \in Id : j # NoId
    BY DEF Id, NoId
  <2>2. \A d \in Client : cmsg[d] = i => d = c
    BY <1>0, <2>1 DEF AInv, OwnedOnce
  <2> QED BY <1>0, <1>3, <2>1, <2>2 DEF IsSent
<1>5. \A d \in Client : Answer(d)' = Answer(d)
  <2>1. Answer(c)' = Answer(c)
    BY <1>1, <1>3 DEF Answer, Asking
  <2>2. ASSUME NEW d \in Client \ {c}, \A j \in Id : message'[j].replyMessage = message[j].replyMessage
        PROVE Answer(d)' = Answer(d)
    BY <1>1, <1>3, <2>2, AnswerTypes DEF Answer, AInv
  <2>3. \A j \in Id : message'[j].replyMessage = message[j].replyMessage
    BY <1>1, ReleasesKeepsReply DEF AInv, ATypes
  <2> QED BY <2>1, <2>2, <2>3
<1>6. \A j : (AtActor(j)' <=> AtActor(j)) /\ (IsReply(j)' <=> IsReply(j))
  BY <1>1, <1>5 DEF AtActor, IsReply, Out, In
<1>7. /\ Ownership'
      /\ message' \in [Id -> MessageRecord]
      /\ freeMessageQueue' \in Seq(Id) /\ Once(freeMessageQueue')
      /\ \A j \in Id : /\ message'[j].isSync = message[j].isSync
                       /\ message'[j].isSyncTimeout = message[j].isSyncTimeout
                       /\ message'[j].replyMessage = message[j].replyMessage
                       /\ message'[j].call = message[j].call
                       /\ message'[j].event = message[j].event \/ (j = i /\ ~AtActor(i)')
  BY <1>0, <1>1, <1>4, <1>6, OwnershipReleased
<1>8. ATypes'
  BY <1>1, <1>3, <1>7 DEF AInv, ATypes, Asking
<1>9. ListedOnce' /\ OwnedOnce'
  BY <1>1, <1>3, <1>5, <1>7 DEF AInv, ListedOnce, OwnedOnce, In, Out
<1>10. Unanswered'
  <2>1. \A d \in Client : cpc[d] \in Asking => cmsg'[d] = cmsg[d] /\ cpc'[d] \in Asking
    BY <1>1, <1>3 DEF Asking
  <2> QED BY <1>1, <1>6, <1>7, <2>1, UnansweredKept
<1>11. SameCall'
  BY <1>1, <1>3, <1>5, <1>7, AnswerTypes DEF AInv, SameCall
<1> QED BY <1>7, <1>8, <1>9, <1>10, <1>11 DEF AInv

(* And the answer, which nobody else has.                                  *)
LEMMA InvReleasesReply ==
  ASSUME AInv, NEW c \in Client, ReleasesReply(c)
  PROVE  AInv'
<1>0. PICK i \in Id : i = cret[c] /\ i = Answer(c) /\ IsReply(i)
  <2>1. cpc[c] = "reply" /\ cret[c] \in Id \cup {NoId} /\ cret[c] # NoId
    BY DEF ReleasesReply, AInv, ATypes
  <2> QED BY <2>1 DEF Answer, Asking, IsReply
<1>1. /\ UNCHANGED <<outMessages, inMessages, cmsg, given, apc, amsg, calls, purged>>
      /\ cpc[c] = "reply" /\ Releases(i)
      /\ cret' = [cret EXCEPT ![c] = NoId]
      /\ cpc' = [cpc EXCEPT ![c] = "idle"]
  BY <1>0 DEF ReleasesReply, portVars, actorVars
<1>2. \A j \in Id : j # NoId
  BY DEF Id, NoId
<1>3. /\ cret' \in [Client -> Id \cup {NoId}] /\ cret'[c] = NoId
      /\ \A d \in Client \ {c} : cret'[d] = cret[d] /\ cpc'[d] = cpc[d]
      /\ cpc' \in [Client -> ClientStates] /\ cpc'[c] = "idle"
  BY <1>1 DEF AInv, ATypes, ClientStates
<1>4. /\ Answer(c)' = NoId
      /\ \A d \in Client \ {c} : Answer(d)' = Answer(d)
  <2>1. Answer(c)' = NoId
    BY <1>3 DEF Answer, Asking
  <2>2. \A j \in Id : message'[j].replyMessage = message[j].replyMessage
    BY <1>1, ReleasesKeepsReply DEF AInv, ATypes
  <2>3. ASSUME NEW d \in Client \ {c} PROVE Answer(d)' = Answer(d)
    BY <1>1, <1>3, <2>2, AnswerTypes DEF Answer, AInv
  <2> QED BY <2>1, <2>3
<1>5. \A j \in Id : IsReply(j)' <=> IsReply(j) /\ j # i
  <2>1. \A d \in Client : Answer(d) = i => d = c
    BY <1>0, <1>2 DEF AInv, OwnedOnce
  <2>2. i \notin In
    BY <1>0 DEF AInv, OwnedOnce
  <2> QED BY <1>0, <1>1, <1>2, <1>4, <2>1, <2>2 DEF IsReply, In
<1>6. \A j : (AtActor(j)' <=> AtActor(j)) /\ (IsSent(j)' <=> IsSent(j))
  BY <1>1 DEF AtActor, IsSent, Out
<1>7. /\ Ownership'
      /\ message' \in [Id -> MessageRecord]
      /\ freeMessageQueue' \in Seq(Id) /\ Once(freeMessageQueue')
      /\ \A j \in Id : /\ message'[j].isSync = message[j].isSync
                       /\ message'[j].isSyncTimeout = message[j].isSyncTimeout
                       /\ message'[j].replyMessage = message[j].replyMessage
                       /\ message'[j].call = message[j].call
                       /\ message'[j].event = message[j].event \/ (j = i /\ ~AtActor(i)')
  BY <1>0, <1>1, <1>5, <1>6, OwnershipReleased
<1>8. ATypes'
  BY <1>1, <1>3, <1>7 DEF AInv, ATypes, Asking
<1>9. ListedOnce' /\ OwnedOnce'
  <2>1. NoId \notin In
    BY Listed DEF AInv, ATypes, In
  <2>2. \A d, e \in Client : Answer(d)' # NoId /\ Answer(d)' = Answer(e)' => d = e
    BY <1>4 DEF AInv, OwnedOnce
  <2>3. \A d \in Client : Answer(d)' \notin In
    BY <1>4, <2>1 DEF AInv, OwnedOnce
  <2> QED BY <1>1, <1>7, <2>2, <2>3 DEF AInv, ListedOnce, OwnedOnce, In, Out
<1>10. Unanswered'
  <2>1. \A d \in Client : cpc[d] \in Asking => cmsg'[d] = cmsg[d] /\ cpc'[d] \in Asking
    BY <1>1, <1>3 DEF Asking
  <2> QED BY <1>1, <1>6, <1>7, <2>1, UnansweredKept
<1>11. SameCall'
  BY <1>1, <1>3, <1>4, <1>7, AnswerTypes DEF AInv, SameCall
<1> QED BY <1>7, <1>8, <1>9, <1>10, <1>11 DEF AInv

(* A message from the actor.                                               *)
LEMMA InvReceiveInMessage ==
  ASSUME AInv, NEW c \in Client, ReceiveInMessage(c)
  PROVE  AInv'
<1>0. inMessages \in Seq(Id) /\ Once(inMessages) /\ inMessages # <<>>
  BY DEF AInv, ATypes, ListedOnce, ReceiveInMessage
<1>1. PICK i \in Id : i = Head(inMessages) /\ i \in In
  BY <1>0, TailOnce DEF In
<1>2. /\ UNCHANGED <<outMessages, cpc, cmsg, cret, given, apc, amsg, calls, purged>>
      /\ inMessages' = Tail(inMessages) /\ Releases(i)
  BY <1>1 DEF ReceiveInMessage, clientVars, actorVars
<1> QED BY <1>0, <1>1, <1>2, InReleased

-----------------------------------------------------------------------------
(* What the actor does                                                     *)

(* A step that only says where the actor is.                               *)
LEMMA ActorGoesOn ==
  ASSUME AInv,
         UNCHANGED <<poolVars, outMessages, inMessages, clientVars, amsg, calls, purged>>,
         apc' \in ActorStates, apc' \in Handling <=> apc \in Handling,
         apc' = "have" => apc = "have",
         apc' = "replied" => message[amsg].isSync /\ message[amsg].event # "none"
  PROVE  AInv'
<1>1. UNCHANGED <<message, freeMessageQueue, outMessages, inMessages, cpc, cmsg, cret, given, amsg,
                  calls, purged>>
  BY DEF poolVars, clientVars
<1>2. \A d \in Client : Answer(d)' = Answer(d)
  BY <1>1 DEF Answer
<1>3. \A j : /\ AtActor(j)' <=> AtActor(j)
             /\ IsSent(j)' <=> IsSent(j)
             /\ IsReply(j)' <=> IsReply(j)
  BY <1>1, <1>2 DEF AtActor, IsSent, IsReply, In, Out
<1>4. ATypes'
  BY <1>1 DEF AInv, ATypes
<1>5. ListedOnce' /\ OwnedOnce'
  BY <1>1, <1>2 DEF AInv, ListedOnce, OwnedOnce, In, Out
<1>6. Ownership'
  BY <1>1, <1>3 DEF AInv, Ownership, Free
<1>7. Unanswered'
  BY <1>1 DEF AInv, Unanswered, Out
<1>8. SameCall'
  BY <1>1, <1>2 DEF AInv, SameCall
<1> QED BY <1>4, <1>5, <1>6, <1>7, <1>8 DEF AInv

(* It looks, waits, leaves a message without an answer, or stops.          *)
LEMMA InvActorIdles ==
  ASSUME AInv, NoMessage \/ Wakes \/ NoReply \/ Stop
  PROVE  AInv'
<1>1. /\ UNCHANGED <<poolVars, outMessages, inMessages, clientVars, amsg, calls, purged>>
      /\ \/ apc = "look" /\ apc' = "wait"
         \/ apc = "wait" /\ apc' = "look"
         \/ apc = "have" /\ apc' = "done"
         \/ apc \in {"look", "wait"} /\ apc' = "stopped"
  BY DEF NoMessage, Wakes, NoReply, Stop, portVars
<1>2. /\ apc' \in ActorStates /\ (apc' \in Handling <=> apc \in Handling)
      /\ apc' # "have" /\ apc' # "replied"
  BY <1>1 DEF ActorStates, Handling
<1> QED BY <1>1, <1>2, ActorGoesOn

(* The message the actor takes stays with it.                              *)
LEMMA InvReceiveOutMessage ==
  ASSUME AInv, ReceiveOutMessage
  PROVE  AInv'
<1>0. outMessages \in Seq(Id) /\ Once(outMessages) /\ outMessages # <<>>
  BY DEF AInv, ATypes, ListedOnce, ReceiveOutMessage
<1>1. PICK i \in Id : /\ i = Head(outMessages) /\ i \in Out
                      /\ outMessages' \in Seq(Id) /\ Once(outMessages') /\ Out' = Out \ {i}
  BY <1>0, TailOnce DEF Out, ReceiveOutMessage
<1>2. /\ UNCHANGED <<message, freeMessageQueue, inMessages, cpc, cmsg, cret, given, calls, purged>>
      /\ apc = "look" /\ apc' = "have" /\ amsg' = i
  BY <1>1 DEF ReceiveOutMessage, poolVars, clientVars
<1>3. amsg = NoId /\ i # NoId
  BY <1>2 DEF AInv, ATypes, Handling, Id, NoId
<1>4. \A d \in Client : Answer(d)' = Answer(d)
  BY <1>2 DEF Answer
<1>5. \A j \in Id : /\ AtActor(j)' <=> AtActor(j)
                    /\ IsSent(j)' <=> IsSent(j)
                    /\ IsReply(j)' <=> IsReply(j)
  BY <1>1, <1>2, <1>3, <1>4 DEF AtActor, IsSent, IsReply, In, Id, NoId
<1>6. ATypes'
  BY <1>1, <1>2, <1>3 DEF AInv, ATypes, ActorStates, Handling
<1>7. ListedOnce' /\ OwnedOnce'
  BY <1>1, <1>2, <1>4 DEF AInv, ListedOnce, OwnedOnce, In
<1>8. Ownership'
  BY <1>2, <1>5 DEF AInv, Ownership, Free
<1>9. Unanswered'
  BY <1>1, <1>2 DEF AInv, Unanswered
<1>10. SameCall'
  BY <1>2, <1>4 DEF AInv, SameCall
<1> QED BY <1>6, <1>7, <1>8, <1>9, <1>10 DEF AInv

(* The event of a message tells the caller that waits for it.              *)
LEMMA InvSetEvent ==
  ASSUME AInv, SetEvent
  PROVE  AInv'
<1>1. /\ UNCHANGED <<freeMessageQueue, outMessages, inMessages, cpc, cmsg, cret, given, amsg, calls, purged>>
      /\ apc = "replied" /\ apc' = "done"
      /\ message' = [message EXCEPT ![amsg].event = IF @ = "none" THEN @ ELSE "set"]
  BY DEF SetEvent, portVars, clientVars
<1>2. PICK i \in Id : i = amsg /\ i \notin Out /\ message[i] \in MessageRecord
  BY <1>1 DEF AInv, ATypes, OwnedOnce, Handling
<1>3. /\ message' \in [Id -> MessageRecord]
      /\ \A j \in Id : /\ message'[j].allocated = message[j].allocated
                       /\ message'[j].isSync = message[j].isSync
                       /\ message'[j].isSyncFini = message[j].isSyncFini
                       /\ message'[j].isSyncTimeout = message[j].isSyncTimeout
                       /\ message'[j].replyMessage = message[j].replyMessage
                       /\ message'[j].call = message[j].call
                       /\ j # i => message'[j].event = message[j].event
  <2>1. PICK e \in {"none", "clear", "set"} : message' = [message EXCEPT ![i].event = e]
    BY <1>1, <1>2 DEF MessageRecord
  <2>2. message \in [Id -> MessageRecord]
    BY DEF AInv, ATypes
  <2>3. message' \in [Id -> MessageRecord]
    BY <2>1, <2>2, MessageExcept
  <2> QED BY <1>2, <2>1, <2>2, <2>3 DEF MessageRecord
<1>4. \A d \in Client : Answer(d)' = Answer(d)
  BY <1>1, <1>3, AnswerTypes DEF Answer, AInv
<1>5. \A j : /\ AtActor(j)' <=> AtActor(j)
             /\ IsSent(j)' <=> IsSent(j)
             /\ IsReply(j)' <=> IsReply(j)
  BY <1>1, <1>4 DEF AtActor, IsSent, IsReply, In, Out
<1>6. ATypes'
  BY <1>1, <1>3 DEF AInv, ATypes, ActorStates, Handling
<1>7. ListedOnce' /\ OwnedOnce'
  BY <1>1, <1>4 DEF AInv, ListedOnce, OwnedOnce, In, Out
<1>8. Ownership'
  BY <1>1, <1>3, <1>5 DEF AInv, Ownership, Free
<1>9. Unanswered'
  <2>1. ASSUME NEW j \in Id, j \in Out
        PROVE  /\ message'[j].isSync => message'[j].event = "clear"
               /\ message'[j].replyMessage = NoId
               /\ message'[j].isSync /\ ~message'[j].isSyncTimeout =>
                    \E d \in Client : cmsg[d] = j /\ cpc[d] \in Asking
    BY <1>2, <1>3, <2>1 DEF AInv, Unanswered
  <2> QED BY <1>1, <2>1 DEF Unanswered, Out
<1>10. SameCall'
  BY <1>1, <1>3, <1>4, AnswerTypes DEF AInv, SameCall
<1> QED BY <1>6, <1>7, <1>8, <1>9, <1>10 DEF AInv

(* The answer to a message that is not synchronous goes to whoever reads.  *)
LEMMA InvReplyIn ==
  ASSUME AInv, ReplyIn
  PROVE  AInv'
<1>0. amsg \in Id /\ message[amsg].call \in Nat
  BY DEF ReplyIn, AInv, ATypes, Handling, MessageRecord
<1>1. PICK i \in Id : /\ GetMessage(i)
                      /\ message' = [message EXCEPT ![i] = NewMessage(message[amsg].call)]
                      /\ inMessages' = Append(inMessages, i)
  BY DEF ReplyIn
<1>2. /\ ~AtActor(i) /\ ~IsSent(i) /\ ~IsReply(i) /\ i \notin purged
      /\ freeMessageQueue' \in Seq(Id) /\ Once(freeMessageQueue')
      /\ Free' = Free \ {i}
  BY <1>1, GetMessageFresh
<1>3. /\ apc = "have" /\ apc' = "done"
      /\ UNCHANGED <<outMessages, cpc, cmsg, cret, given, amsg, calls, purged>>
  BY DEF ReplyIn, clientVars
<1>4. NewMessage(message[amsg].call) \in MessageRecord
  BY <1>0, NewMessages
<1>5. /\ message' \in [Id -> MessageRecord]
      /\ message'[i].allocated /\ ~message'[i].isSync
      /\ \A j \in Id \ {i} : message'[j] = message[j]
  BY <1>1, <1>4 DEF AInv, ATypes, NewMessage
<1>6. inMessages' \in Seq(Id) /\ Once(inMessages') /\ In' = In \cup {i}
  BY <1>1, <1>2, AppendOnce DEF AInv, ATypes, ListedOnce, In, IsReply
<1>7. \A d \in Client : Answer(d)' = Answer(d)
  BY <1>2, <1>3, <1>5, AnswerTypes DEF Answer, IsSent, AInv
<1>8. \A j : /\ AtActor(j)' <=> AtActor(j)
             /\ IsSent(j)' <=> IsSent(j)
             /\ IsReply(j)' <=> IsReply(j) \/ j = i
  BY <1>3, <1>6, <1>7 DEF AtActor, IsSent, IsReply, Out
<1>9. ATypes'
  BY <1>2, <1>3, <1>5, <1>6 DEF AInv, ATypes, ActorStates, Handling
<1>10. ListedOnce' /\ OwnedOnce'
  BY <1>2, <1>3, <1>6, <1>7 DEF AInv, ListedOnce, OwnedOnce, Out, IsReply
<1>11. Ownership'
  BY <1>2, <1>3, <1>5, <1>8 DEF AInv, Ownership
<1>12. Unanswered'
  BY <1>2, <1>3, <1>5 DEF AInv, Unanswered, AtActor, Out
<1>13. SameCall'
  BY <1>2, <1>3, <1>5, <1>7, AnswerTypes DEF AInv, SameCall, IsSent, IsReply
<1> QED BY <1>9, <1>10, <1>11, <1>12, <1>13 DEF AInv

(* An answer is made only while the caller still asks, and is its answer.  *)
LEMMA InvReplyAnswer ==
  ASSUME AInv, apc = "have", apc' = "replied", message[amsg].isSync, ~message[amsg].isSyncTimeout,
         NEW i \in Id, GetMessage(i),
         message' = [message EXCEPT ![i] = NewMessage(message[amsg].call), ![amsg].replyMessage = i],
         UNCHANGED <<outMessages, inMessages, cpc, cmsg, cret, given, amsg, calls, purged>>
  PROVE  AInv'
<1>0. PICK a \in Id : a = amsg /\ AtActor(a) /\ a \notin Out
  BY DEF AInv, ATypes, OwnedOnce, Handling, AtActor
<1>1. message \in [Id -> MessageRecord] /\ message[a] \in MessageRecord /\ message[a].call \in Nat
  BY <1>0 DEF AInv, ATypes, MessageRecord
<1>2. /\ ~AtActor(i) /\ ~IsSent(i) /\ ~IsReply(i) /\ i \notin purged
      /\ freeMessageQueue' \in Seq(Id) /\ Once(freeMessageQueue')
      /\ Free' = Free \ {i}
  BY GetMessageFresh
<1>3. a # i
  BY <1>0, <1>2
<1> DEFINE new == NewMessage(message[a].call)
           replied == [message[a] EXCEPT !.replyMessage = i]
<1>4. new \in MessageRecord /\ replied \in MessageRecord
  BY <1>1, NewMessages DEF MessageRecord
<1>5. new.allocated /\ ~new.isSync /\ new.call = message[a].call
  BY DEF NewMessage
<1>6. /\ replied.allocated = message[a].allocated /\ replied.isSync = message[a].isSync
      /\ replied.isSyncFini = message[a].isSyncFini /\ replied.event = message[a].event
      /\ replied.isSyncTimeout = message[a].isSyncTimeout /\ replied.call = message[a].call
      /\ replied.replyMessage = i
  BY <1>1 DEF MessageRecord
<1> HIDE DEF new, replied
<1>7. /\ message' \in [Id -> MessageRecord] /\ message'[i] = new /\ message'[a] = replied
      /\ \A j \in Id \ {i, a} : message'[j] = message[j]
  <2>1. message' = [[message EXCEPT ![i] = new] EXCEPT ![a] = replied]
    BY <1>0, <1>1, <1>3 DEF new, replied
  <2> QED BY <1>1, <1>3, <1>4, <2>1
<1>8. PICK c \in Client : cmsg[c] = a /\ cpc[c] \in Asking /\ Answer(c) = NoId
  <2>1. message[a].replyMessage = NoId /\ \E c \in Client : cmsg[c] = a /\ cpc[c] \in Asking
    BY <1>0 DEF AInv, Unanswered
  <2> QED BY <2>1 DEF Answer
<1>9. Answer(c)' = i /\ \A d \in Client \ {c} : Answer(d)' = Answer(d)
  <2>1. Answer(c)' = i
    BY <1>6, <1>7, <1>8 DEF Answer
  <2>2. ASSUME NEW d \in Client \ {c} PROVE Answer(d)' = Answer(d)
    <3>1. CASE cpc[d] \in Asking
      <4>1. cmsg[d] \in Id /\ cmsg[d] # i /\ cmsg[d] # a
        <5>1. cmsg[d] \in Id
          BY <3>1, AnswerTypes DEF AInv
        <5>2. cmsg[d] # NoId
          BY <5>1 DEF Id, NoId
        <5> QED BY <1>2, <1>8, <5>1, <5>2 DEF AInv, OwnedOnce, IsSent
      <4>2. message'[cmsg[d]] = message[cmsg[d]]
        BY <1>7, <4>1
      <4>3. cpc' = cpc /\ cmsg' = cmsg
        OBVIOUS
      <4> QED BY ONLY <3>1, <4>2, <4>3 DEF Answer
    <3>2. CASE cpc[d] \notin Asking
      BY <3>2 DEF Answer
    <3> QED BY <3>1, <3>2
  <2> QED BY <2>1, <2>2
<1>10. \A j \in Id : /\ AtActor(j)' <=> AtActor(j)
                     /\ IsSent(j)' <=> IsSent(j)
                     /\ IsReply(j)' <=> IsReply(j) \/ j = i
  <2>1. \A j \in Id : j # NoId
    BY DEF Id, NoId
  <2>2. \A j \in Id : IsReply(j)' <=> IsReply(j) \/ j = i
    BY <1>8, <1>9, <2>1 DEF IsReply, In
  <2> QED BY <2>2 DEF AtActor, IsSent, Out
<1>11. ATypes'
  BY <1>2, <1>7 DEF AInv, ATypes, ActorStates, Handling
<1>12. ListedOnce' /\ OwnedOnce'
  <2>1. \A d, e \in Client : Answer(d)' # NoId /\ Answer(d)' = Answer(e)' => d = e
    BY <1>2, <1>9 DEF AInv, OwnedOnce, IsReply
  <2>2. \A d \in Client : Answer(d)' \notin In
    BY <1>2, <1>9 DEF AInv, OwnedOnce, IsReply
  <2> QED BY <1>2, <2>1, <2>2 DEF AInv, ListedOnce, OwnedOnce, In, Out
<1>13. Ownership'
  <2>1. \A j \in Id \ {i} : /\ message'[j].allocated = message[j].allocated
                            /\ message'[j].isSync = message[j].isSync
                            /\ message'[j].isSyncFini = message[j].isSyncFini
    BY <1>6, <1>7
  <2> QED BY <1>2, <1>5, <1>7, <1>10, <2>1 DEF AInv, Ownership
<1>14. Unanswered'
  <2>1. ASSUME NEW j \in Id, j \in Out PROVE message'[j] = message[j]
    BY <1>0, <1>2, <1>7, <2>1 DEF AtActor
  <2>2. message'[amsg].isSync /\ message'[amsg].event # "none"
    BY <1>0, <1>6, <1>7 DEF AInv, Unanswered
  <2> QED BY <2>1, <2>2 DEF AInv, Unanswered, Out
<1>15. SameCall'
  <2>1. \A j \in Id \ {i} : message'[j].call = message[j].call
    BY <1>6, <1>7
  <2>2. \A d \in Client : cmsg[d] # NoId => message'[cmsg[d]].call = given[d]
    BY <1>2, <2>1, AnswerTypes DEF AInv, SameCall, IsSent
  <2>3. ASSUME NEW d \in Client, Answer(d)' # NoId PROVE message'[Answer(d)'].call = given[d]
    <3>1. CASE d = c
      <4>1. message[a].call = given[c]
        BY <1>8 DEF AInv, SameCall, Id, NoId
      <4> QED BY <1>5, <1>7, <1>9, <3>1, <4>1
    <3>2. CASE d # c
      <4>1. Answer(d)' = Answer(d) /\ Answer(d) \in Id \cup {NoId} /\ Answer(d) # NoId
        BY <1>9, <2>3, <3>2, AnswerTypes DEF AInv
      <4>2. Answer(d) # i /\ message[Answer(d)].call = given[d]
        BY <1>2, <4>1 DEF AInv, SameCall, IsReply
      <4> QED BY <2>1, <4>1, <4>2
    <3> QED BY <3>1, <3>2
  <2> QED BY <2>2, <2>3 DEF SameCall
<1> QED BY <1>11, <1>12, <1>13, <1>14, <1>15 DEF AInv

(* Reply to a synchronous message, in time or too late.                    *)
LEMMA InvReply ==
  ASSUME AInv, Reply
  PROVE  AInv'
<1>1. /\ apc = "have" /\ apc' = "replied" /\ message[amsg].isSync
      /\ UNCHANGED <<outMessages, inMessages, cpc, cmsg, cret, given, amsg, calls, purged>>
  BY DEF Reply, portVars, clientVars
<1>2. CASE message[amsg].isSyncTimeout
  <2>1. UNCHANGED <<poolVars, outMessages, inMessages, clientVars, amsg, calls, purged>>
    BY <1>2 DEF Reply, portVars
  <2>2. message[amsg].event # "none"
    BY <1>1 DEF AInv, ATypes, Unanswered, Handling
  <2> QED BY <1>1, <2>1, <2>2, ActorGoesOn DEF ActorStates, Handling
<1>3. CASE ~message[amsg].isSyncTimeout
  <2>1. PICK i \in Id : /\ GetMessage(i)
                        /\ message' = [message EXCEPT ![i] = NewMessage(message[amsg].call),
                                                      ![amsg].replyMessage = i]
    BY <1>3 DEF Reply
  <2> QED BY <1>1, <1>3, <2>1, InvReplyAnswer
<1> QED BY <1>2, <1>3

(* The actor is done with its message, which the caller may have still.    *)
LEMMA InvActorReleases ==
  ASSUME AInv, ActorReleases
  PROVE  AInv'
<1>0. PICK i \in Id : i = amsg /\ AtActor(i) /\ i \notin Out
  BY DEF ActorReleases, AInv, ATypes, OwnedOnce, Handling, AtActor
<1>1. /\ UNCHANGED <<outMessages, inMessages, cpc, cmsg, cret, given, calls, purged>>
      /\ apc = "done" /\ apc' = "look" /\ amsg' = NoId
      /\ Releases(i)
  BY <1>0 DEF ActorReleases, portVars, clientVars
<1>2. NoId \notin Out /\ \A j \in Id : j # NoId
  BY Listed DEF AInv, ATypes, Out, Id, NoId
<1>3. \A d \in Client : Answer(d)' = Answer(d)
  <2>1. \A j \in Id : message'[j].replyMessage = message[j].replyMessage
    BY <1>1, ReleasesKeepsReply DEF AInv, ATypes
  <2> QED BY <1>1, <2>1, AnswerTypes DEF Answer, AInv
<1>4. /\ \A j \in Id : AtActor(j)' <=> AtActor(j) /\ j # i
      /\ \A j : (IsSent(j)' <=> IsSent(j)) /\ (IsReply(j)' <=> IsReply(j))
  BY <1>0, <1>1, <1>2, <1>3 DEF AtActor, IsSent, IsReply, In, Out
<1>5. /\ Ownership'
      /\ message' \in [Id -> MessageRecord]
      /\ freeMessageQueue' \in Seq(Id) /\ Once(freeMessageQueue')
      /\ \A j \in Id : /\ message'[j].isSync = message[j].isSync
                       /\ message'[j].isSyncTimeout = message[j].isSyncTimeout
                       /\ message'[j].replyMessage = message[j].replyMessage
                       /\ message'[j].call = message[j].call
                       /\ message'[j].event = message[j].event \/ (j = i /\ ~AtActor(i)')
  BY <1>0, <1>1, <1>4, OwnershipReleased
<1>6. ATypes'
  BY <1>1, <1>5 DEF AInv, ATypes, ActorStates, Handling
<1>7. ListedOnce' /\ OwnedOnce'
  BY <1>1, <1>2, <1>3, <1>5 DEF AInv, ListedOnce, OwnedOnce, In, Out
<1>8. Unanswered'
  <2>1. \A j \in Out : j # i
    BY <1>0
  <2> QED BY <1>1, <1>5, <2>1 DEF AInv, Unanswered, Out
<1>9. SameCall'
  BY <1>1, <1>3, <1>5, AnswerTypes DEF AInv, SameCall
<1> QED BY <1>5, <1>6, <1>7, <1>8, <1>9 DEF AInv

(* PurgeOut drops what only the list has.                                  *)
LEMMA InvPurgeOut ==
  ASSUME AInv, PurgeOut
  PROVE  AInv'
<1>0. outMessages \in Seq(Id) /\ Once(outMessages)
  BY DEF AInv, ATypes, ListedOnce
<1>1. PICK drop \in SUBSET {k \in DOMAIN outMessages : ~message[outMessages[k]].isSync} :
        /\ KeepsOnly(DOMAIN outMessages \ drop)
        /\ purged' = purged \cup {outMessages[k] : k \in drop}
  BY DEF PurgeOut
<1>2. /\ UNCHANGED <<message, freeMessageQueue, inMessages, cpc, cmsg, cret, given, apc, amsg, calls>>
      /\ apc = "have"
  BY DEF PurgeOut, poolVars, clientVars, actorVars
<1> DEFINE dropped == {outMessages[k] : k \in drop}
<1>3. /\ outMessages' \in Seq(Id) /\ Once(outMessages')
      /\ ToSet(outMessages') = {outMessages[k] : k \in DOMAIN outMessages \ drop}
  BY <1>0, <1>1, KeepsOnlyKept
<1>4. /\ dropped \subseteq Out /\ Out' = Out \ dropped
      /\ \A j \in dropped : j \in Id /\ ~message[j].isSync
  <2>1. DOMAIN outMessages = 1 .. Len(outMessages)
    BY <1>0, LenProperties
  <2>2. \A x : x \in Out <=> \E k \in DOMAIN outMessages : outMessages[k] = x
    BY <1>0, <2>1, Positions DEF Out
  <2>3. \A k, l \in DOMAIN outMessages : outMessages[k] = outMessages[l] => k = l
    BY <1>0, <2>1 DEF Once
  <2>4. \A x : x \in Out' <=> \E k \in DOMAIN outMessages \ drop : outMessages[k] = x
    BY <1>3 DEF Out
  <2>5. \A x : x \in Out' <=> x \in Out /\ x \notin dropped
    BY <2>2, <2>3, <2>4
  <2>6. \A j \in dropped : j \in Out /\ ~message[j].isSync
    BY <2>2
  <2> QED BY <1>0, <2>5, <2>6, Listed DEF Out
<1> HIDE DEF dropped
<1>5. purged' = purged \cup dropped
  BY <1>1 DEF dropped
<1>6. amsg \notin dropped
  BY <1>4 DEF AInv, OwnedOnce
<1>7. \A d \in Client : Answer(d)' = Answer(d)
  BY <1>2 DEF Answer
<1>8. \A j : /\ AtActor(j)' <=> AtActor(j) /\ j \notin dropped
             /\ IsSent(j)' <=> IsSent(j)
             /\ IsReply(j)' <=> IsReply(j)
  BY <1>2, <1>4, <1>6, <1>7 DEF AtActor, IsSent, IsReply, In
<1>9. ATypes'
  BY <1>2, <1>3, <1>4, <1>5 DEF AInv, ATypes
<1>10. ListedOnce' /\ OwnedOnce'
  BY <1>2, <1>3, <1>4, <1>7 DEF AInv, ListedOnce, OwnedOnce, In
<1>11. Ownership'
  <2>1. \A j \in dropped : AtActor(j) /\ ~message[j].isSync
    BY <1>4 DEF AtActor
  <2> QED BY <1>2, <1>5, <1>8, <2>1 DEF AInv, Ownership, Free
<1>12. Unanswered'
  BY <1>2, <1>4 DEF AInv, Unanswered
<1>13. SameCall'
  BY <1>2, <1>7 DEF AInv, SameCall
<1> QED BY <1>9, <1>10, <1>11, <1>12, <1>13 DEF AInv

(* Purge releases what is left, once nobody handles it.                    *)
LEMMA InvPurge ==
  ASSUME AInv, Purge
  PROVE  AInv'
<1>0. /\ apc = "stopped" /\ UNCHANGED <<cpc, cmsg, cret, given, amsg, calls, purged>>
      /\ amsg = NoId
  BY DEF Purge, clientVars, AInv, ATypes, Handling
<1>1. CASE /\ inMessages # <<>> /\ inMessages' = Tail(inMessages)
           /\ Releases(Head(inMessages)) /\ UNCHANGED <<outMessages, apc>>
  <2>1. Head(inMessages) \in Id
    BY <1>1, TailOnce DEF AInv, ATypes, ListedOnce
  <2> QED BY <1>0, <1>1, <2>1, InReleased
<1>2. CASE /\ inMessages = <<>> /\ outMessages # <<>> /\ outMessages' = Tail(outMessages)
           /\ Releases(Head(outMessages)) /\ UNCHANGED <<inMessages, apc>>
  <2>1. PICK i \in Id : /\ i = Head(outMessages) /\ i \in Out /\ AtActor(i)
                        /\ outMessages' \in Seq(Id) /\ Once(outMessages') /\ Out' = Out \ {i}
    BY <1>2, TailOnce DEF AInv, ATypes, ListedOnce, Out, AtActor
  <2>2. Releases(i) /\ \A j \in Id : j # NoId
    BY <1>2, <2>1 DEF Id, NoId
  <2>3. \A d \in Client : Answer(d)' = Answer(d)
    <3>1. \A j \in Id : message'[j].replyMessage = message[j].replyMessage
      BY <2>2, ReleasesKeepsReply DEF AInv, ATypes
    <3> QED BY <1>0, <3>1, AnswerTypes DEF Answer, AInv
  <2>4. /\ \A j \in Id : AtActor(j)' <=> AtActor(j) /\ j # i
        /\ \A j : (IsSent(j)' <=> IsSent(j)) /\ (IsReply(j)' <=> IsReply(j))
    BY <1>0, <1>2, <2>1, <2>2, <2>3 DEF AtActor, IsSent, IsReply, In
  <2>5. /\ Ownership'
        /\ message' \in [Id -> MessageRecord]
        /\ freeMessageQueue' \in Seq(Id) /\ Once(freeMessageQueue')
        /\ \A j \in Id : /\ message'[j].isSync = message[j].isSync
                         /\ message'[j].isSyncTimeout = message[j].isSyncTimeout
                         /\ message'[j].replyMessage = message[j].replyMessage
                         /\ message'[j].call = message[j].call
                         /\ message'[j].event = message[j].event \/ (j = i /\ ~AtActor(i)')
    BY <1>0, <2>1, <2>2, <2>4, OwnershipReleased
  <2>6. ATypes'
    BY <1>0, <1>2, <2>1, <2>5 DEF AInv, ATypes
  <2>7. ListedOnce' /\ OwnedOnce'
    BY <1>0, <1>2, <2>1, <2>3, <2>5 DEF AInv, ListedOnce, OwnedOnce, In
  <2>8. Unanswered'
    BY <1>0, <1>2, <2>1, <2>5 DEF AInv, Unanswered
  <2>9. SameCall'
    BY <1>0, <2>3, <2>5, AnswerTypes DEF AInv, SameCall
  <2> QED BY <2>5, <2>6, <2>7, <2>8, <2>9 DEF AInv
<1>3. CASE apc' = "gone" /\ UNCHANGED <<poolVars, inMessages, outMessages>>
  <2>1. UNCHANGED <<poolVars, outMessages, inMessages, clientVars, amsg, calls, purged>>
    BY <1>3 DEF Purge
  <2> QED BY <1>0, <1>3, <2>1, ActorGoesOn DEF ActorStates, Handling
<1> QED BY <1>1, <1>2, <1>3 DEF Purge

-----------------------------------------------------------------------------
(* The theorems                                                            *)

(* At first there is no message.                                           *)
LEMMA InitAInv == AInit => AInv
<1> SUFFICES ASSUME AInit PROVE AInv
  OBVIOUS
<1>1. NewMessage(0) \in MessageRecord
  BY NewMessages
<1>2. [NewMessage(0) EXCEPT !.allocated = FALSE] \in MessageRecord
  BY <1>1 DEF MessageRecord
<1>3. [NewMessage(0) EXCEPT !.allocated = FALSE].allocated = FALSE
  BY <1>1 DEF MessageRecord
<1>4. /\ message \in [Id -> MessageRecord] /\ \A i \in Id : message[i].allocated = FALSE
      /\ freeMessageQueue = <<>> /\ outMessages = <<>> /\ inMessages = <<>>
      /\ cpc = [c \in Client |-> "idle"] /\ cmsg = [c \in Client |-> NoId]
      /\ cret = [c \in Client |-> NoId] /\ given = [c \in Client |-> 0]
      /\ apc = "look" /\ amsg = NoId /\ calls = 0 /\ purged = {}
  BY <1>2, <1>3 DEF AInit
<1>5. /\ Free = {} /\ Out = {} /\ In = {} /\ \A c \in Client : Answer(c) = NoId
      /\ \A i \in Id : i # NoId
  BY <1>4, EmptySeq DEF Free, Out, In, ToSet, Answer, Asking, Id, NoId
<1>6. \A i \in Id : ~AtActor(i) /\ ~IsSent(i) /\ ~IsReply(i)
  BY <1>4, <1>5 DEF AtActor, IsSent, IsReply
<1>7. ATypes
  BY <1>4, EmptySeq DEF ATypes, ClientStates, Asking, ActorStates, Handling
<1>8. ListedOnce /\ OwnedOnce
  BY <1>4, <1>5, EmptySeq DEF ListedOnce, Once, OwnedOnce
<1>9. Ownership /\ Unanswered /\ SameCall
  BY <1>4, <1>5, <1>6 DEF Ownership, Unanswered, SameCall
<1> QED BY <1>7, <1>8, <1>9 DEF AInv

(* Every step keeps the invariant.                                         *)
LEMMA StepAInv == AInv /\ [ANext]_avars => AInv'
<1> SUFFICES ASSUME AInv, [ANext]_avars PROVE AInv'
  OBVIOUS
<1>1. ASSUME NEW c \in Client, ClientStep(c) PROVE AInv'
  BY <1>1, InvSendOutMessage, InvSendOutMessageSync, InvClientWaits, InvCallerReleases,
     InvReleasesReply, InvReceiveInMessage DEF ClientStep
<1>2. CASE ActorStep
  BY <1>2, InvReceiveOutMessage, InvActorIdles, InvReply, InvSetEvent, InvReplyIn,
     InvActorReleases, InvPurgeOut, InvPurge DEF ActorStep
<1>3. CASE UNCHANGED avars
  <2>1. UNCHANGED <<poolVars, outMessages, inMessages, clientVars, apc, amsg, calls, purged>>
    BY <1>3 DEF avars, portVars, actorVars
  <2>2. apc \in ActorStates /\ (apc = "replied" => message[amsg].isSync /\ message[amsg].event # "none")
    BY DEF AInv, ATypes, Unanswered
  <2> QED BY <2>1, <2>2, ActorGoesOn
<1> QED BY <1>1, <1>2, <1>3 DEF ANext

(* The invariant holds in every state the port reaches.                    *)
THEOREM AInvariance == ASpec => []AInv
BY InitAInv, StepAInv, PTL DEF ASpec

(* The length of a list that has each member once.                         *)
LEMMA OnceCardinality ==
  ASSUME NEW S, NEW seq \in Seq(S), Once(seq)
  PROVE  Len(seq) = Cardinality(ToSet(seq))
<1> DEFINE n == Len(seq)
<1>1. n \in Nat /\ seq \in [1 .. n -> ToSet(seq)]
  BY LenProperties, Positions
<1>2. ExistsBijection(1 .. n, ToSet(seq))
  <2>1. seq \in Surjection(1 .. n, ToSet(seq))
    BY <1>1, Positions DEF Surjection
  <2>2. seq \in Injection(1 .. n, ToSet(seq))
    BY <1>1 DEF Injection, IsInjective, Once
  <2> QED BY <2>1, <2>2 DEF Bijection, ExistsBijection
<1> QED BY <1>1, <1>2, FS_CountingElements

(* What was recycled belongs to nobody, whoever gives up whenever; and the *)
(* event that the actor sets exists.                                       *)
THEOREM RecycledIsUnused == ASpec => []FreeIsUnused
<1>1. AInv => FreeIsUnused
  <2> SUFFICES ASSUME AInv PROVE FreeIsUnused
    OBVIOUS
  <2>1. freeMessageQueue \in Seq(Id) /\ Once(freeMessageQueue)
    BY DEF AInv, ATypes, ListedOnce
  <2>2. ASSUME NEW i \in ToSet(freeMessageQueue) PROVE ~Reached(i) /\ ~Pending(i)
    <3>1. i \in Id /\ i # NoId
      BY <2>1, Listed DEF Id, NoId
    <3>2. ~AtActor(i) /\ ~IsSent(i) /\ ~IsReply(i)
      BY <3>1 DEF AInv, Ownership, Free
    <3>3. ASSUME NEW c \in Client PROVE cmsg[c] # i /\ cret[c] # i
      BY <3>1, <3>2 DEF IsSent, IsReply, Answer, AInv, ATypes, Asking
    <3>4. ~Pending(i)
      BY <3>2 DEF Pending, IsReply, Answer, Asking
    <3> QED BY <3>2, <3>3, <3>4 DEF Reached, AtActor, IsReply, Out, In
  <2>3. Len(freeMessageQueue) = Cardinality(ToSet(freeMessageQueue))
    BY <2>1, OnceCardinality
  <2> QED BY <2>2, <2>3 DEF FreeIsUnused, AInv, Unanswered
<1> QED BY <1>1, AInvariance, PTL

(* No message but a purged one is out of everybody's reach.                *)
THEOREM NoneIsLost == ASpec => []NoMessageIsLost
<1>1. AInv => NoMessageIsLost
  <2> SUFFICES ASSUME AInv, NEW i \in Id, message[i].allocated, i \notin purged, i \notin Free
               PROVE  Reached(i) \/ Pending(i)
    BY DEF NoMessageIsLost, Free
  <2>1. AtActor(i) \/ IsSent(i) \/ IsReply(i)
    BY DEF AInv, Ownership
  <2>2. CASE AtActor(i) \/ IsSent(i) \/ i \in In
    BY <2>2 DEF Reached, AtActor, IsSent, Out, In
  <2>3. CASE \E c \in Client : Answer(c) = i
    BY <2>3 DEF Reached, Pending, Answer, Asking
  <2> QED BY <2>1, <2>2, <2>3 DEF IsReply
<1> QED BY <1>1, AInvariance, PTL

(* A caller gets the answer to its own call, or none.                      *)
THEOREM AnswerIsToTheCall == ASpec => []AnswersTheCall
<1>1. AInv => AnswersTheCall
  BY DEF AInv, ATypes, SameCall, AnswersTheCall, Answer, Asking
<1> QED BY <1>1, AInvariance, PTL

(* Whoever put a message into the list has woken the actor, or will.       *)
THEOREM ActorIsAlwaysWoken == ASpec => []ActorIsWoken
<1>1. AInit => ActorIsWoken
  BY DEF AInit, ActorIsWoken
<1>2. AInv /\ ActorIsWoken /\ [ANext]_avars => ActorIsWoken'
  <2> SUFFICES ASSUME AInv, ActorIsWoken, [ANext]_avars,
                      apc' = "wait", ~outEvent', outMessages' # <<>>
               PROVE  \E c \in Client : cpc'[c] \in {"sent", "sent sync"}
    BY DEF ActorIsWoken
  <2>0. cpc \in [Client -> ClientStates]
    BY DEF AInv, ATypes
  <2>1. ASSUME NEW c \in Client, SendOutMessage(c) \/ SendOutMessageSync(c)
        PROVE  cpc'[c] \in {"sent", "sent sync"}
    BY <2>0, <2>1 DEF SendOutMessage, SendOutMessageSync
  <2>2. ASSUME NEW c \in Client, WakeActor(c) PROVE FALSE
    BY <2>2 DEF WakeActor
  <2>3. ASSUME NEW c \in Client,
               \/ Answered(c) \/ TimesOut(c) \/ GivesUp(c)
               \/ CallerReleases(c) \/ ReleasesReply(c) \/ ReceiveInMessage(c)
        PROVE  \E d \in Client : cpc'[d] \in {"sent", "sent sync"}
    <3>1. /\ UNCHANGED <<outMessages, outEvent, apc>>
          /\ \A d \in Client \ {c} : cpc'[d] = cpc[d]
          /\ cpc[c] \notin {"sent", "sent sync"}
      BY <2>0, <2>3 DEF Answered, TimesOut, GivesUp, CallerReleases, ReleasesReply, ReceiveInMessage,
           portVars, actorVars, clientVars
    <3> QED BY <3>1 DEF ActorIsWoken
  <2>4. CASE ActorStep
    <3>1. ~NoMessage
      BY DEF NoMessage, portVars
    <3>2. apc' # "wait"
      BY <2>4, <3>1 DEF ActorStep, ReceiveOutMessage, Wakes, Reply, SetEvent, ReplyIn, NoReply,
           ActorReleases, PurgeOut, Stop, Purge, actorVars
    <3> QED BY <3>2
  <2>5. CASE UNCHANGED avars
    BY <2>5 DEF avars, portVars, clientVars, actorVars, ActorIsWoken
  <2> QED BY <2>1, <2>2, <2>3, <2>4, <2>5 DEF ANext, ClientStep
<1> QED BY <1>1, <1>2, AInvariance, PTL DEF ASpec

=============================================================================
