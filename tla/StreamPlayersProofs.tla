------------------------- MODULE StreamPlayersProofs -------------------------
(***************************************************************************)
(* Proofs about the player's threads for any number of packets, of opened  *)
(* streams, of flushes and of lost displays, and for a decoder that needs  *)
(* any number of packets to recover: what TLC checks of StreamPlayers on a *)
(* few of them.                                                            *)
(***************************************************************************)
EXTENDS StreamPlayers, SequenceTheorems, WellFoundedInduction, TLAPS

-----------------------------------------------------------------------------
(* The inductive invariant                                                 *)

(* What is in which list: packets and the markers of a drain in the one,   *)
(* without priority, and in the other everything else, and the packets that*)
(* are sent again.                                                         *)
SyncMessage == [kind : {"sync"}, n : 1 .. MaxSyncs]
Setting     == [kind : {"pause", "resume", "flush"}]
PlainItem   == [msg : Packet \cup SyncMessage, priority : {0}]
PrioItem    == [msg : SyncMessage \cup Setting, priority : {1}]
                 \cup [msg : Packet, priority : {10}]

Queues == [m_messages : Seq(PlainItem), m_prioMessages : Seq(PrioItem), m_iDataSize : Int,
           m_bInitialized : BOOLEAN, m_bAbortRequest : BOOLEAN, m_drain : BOOLEAN,
           m_hEvent : BOOLEAN]

Sources    == Stream \cup {"any"}
Rendezvous == [sources : {Stream, {"any"}}, reached : SUBSET Sources, expired : BOOLEAN]

Flushing == {"flush", "tell", "ask", "meet", "flushed"}
Closing  == {"drain", "draining", "drained", "abort", "stop", "join"}

TypeInv ==
  /\ queue \in [Stream -> Queues]
  /\ thread \in [Stream -> {"none", "get", "wait", "have", "sync", "recover"}]
  /\ pMsg \in [Stream -> Message \cup {NoMessage}]
  /\ m_bStop \in [Stream -> BOOLEAN] /\ onlyPrioMsgs \in [Stream -> BOOLEAN]
  /\ m_paused \in [Stream -> BOOLEAN]
  /\ codec \in [Stream -> SUBSET Nat] /\ m_packets \in [Stream -> Seq(Packet)]
  /\ decoded \in [Stream -> SUBSET Nat] /\ putBack \in [Stream -> SUBSET Nat]
  /\ sent \in [Stream -> Nat] /\ opened \in [Stream -> Nat]
  /\ pc \in {"run", "exit", "gone"} \cup Flushing \cup Closing
  /\ leaving \in BOOLEAN /\ target \in Stream
  /\ syncs \in Seq(Rendezvous) /\ Len(syncs) <= MaxSyncs
  /\ m_displayLost \in BOOLEAN /\ m_bAbortRequest \in BOOLEAN /\ toggles \in Nat

Sync(k) == [kind |-> "sync", n |-> k]
Plain(s) == queue[s].m_messages
Prio(s)  == queue[s].m_prioMessages
Newest   == Len(syncs)

(* A stream player has a message in its hands while it handles it; it      *)
(* waits for the others after it has arrived itself.                       *)
HandsInv(s) ==
  /\ thread[s] \in {"have", "sync"} <=> pMsg[s] # NoMessage
  /\ thread[s] = "sync" =>
       /\ pMsg[s].kind = "sync"
       /\ syncs[pMsg[s].n].sources \cap {s, "any"} \subseteq syncs[pMsg[s].n].reached

(* A closed stream has no thread, nothing to get, and no packet to output. *)
ClosedInv(s) ==
  ~Open(s) => thread[s] = "none" /\ Plain(s) = <<>> /\ Prio(s) = <<>> /\ codec[s] = {}

(* Every rendezvous anybody is asked to has been announced.                *)
Known(m, last) == m.kind = "sync" => m.n <= last
KnownInv(s) ==
  /\ Known(pMsg[s], Newest)
  /\ \A i \in 1 .. Len(Plain(s)) : Known(Plain(s)[i].msg, Newest)
  /\ \A i \in 1 .. Len(Prio(s)) : Known(Prio(s)[i].msg, Newest)

(* The packets in a list, in the player's hands, and those it remembers.   *)
PacketsIn(list) == {list[i].msg.n : i \in {i \in 1 .. Len(list) : IsPacket(list[i])}}
HasPacket(s) == pMsg[s].kind = "packet"
IsFlush(m) == m.kind = "flush"
InHands(s)   == IF HasPacket(s) THEN {pMsg[s].n} ELSE {}
Numbers(list) == {list[i].n : i \in 1 .. Len(list)}
Kept(s)      == Numbers(m_packets[s])

(* A list without priority is in order, but for what the decoder had; one  *)
(* with priority has the packets at its end.  No packet is there twice.    *)
InTurn(list, had) ==
  \A i, j \in 1 .. Len(list) : IsPacket(list[i]) /\ IsPacket(list[j]) /\ i < j =>
    list[i].msg.n # list[j].msg.n /\ (list[j].msg.n \in had \/ list[j].msg.n < list[i].msg.n)
PacketsLast(list) ==
  \A i, j \in 1 .. Len(list) : IsPacket(list[i]) /\ i < j =>
    IsPacket(list[j]) /\ list[i].msg.n # list[j].msg.n
Distinct(list) == \A i, j \in 1 .. Len(list) : i < j => list[i].n # list[j].n

(* Each packet is in one place only.  The decoder had what was sent again; *)
(* what it never had comes after all it had, and is taken in order; so is  *)
(* that, and the order to flush, when nothing that was sent again is there.*)
PacketInv(s) ==
  /\ decoded[s] \cup PacketsIn(Plain(s)) \cup InHands(s) \subseteq 1 .. sent[s]
  /\ codec[s] \cup PacketsIn(Prio(s)) \cup Kept(s) \subseteq decoded[s]
  /\ InTurn(Plain(s), decoded[s]) /\ PacketsLast(Prio(s)) /\ Distinct(m_packets[s])
  /\ PacketsIn(Plain(s)) \cap PacketsIn(Prio(s)) = {}
  /\ InHands(s) \cap (PacketsIn(Plain(s)) \cup PacketsIn(Prio(s))) = {}
  /\ \A n \in (PacketsIn(Plain(s)) \cup InHands(s)) \ decoded[s] : \A old \in decoded[s] : old < n
  /\ \A n \in InHands(s) \ decoded[s] :
       PacketsIn(Prio(s)) = {} /\ \A other \in PacketsIn(Plain(s)) : n < other
  /\ IsFlush(pMsg[s]) => PacketsIn(Prio(s)) = {}

(* What is remembered was given to the decoder, and nothing that it has    *)
(* comes again: but for what it recovers with, which is nowhere else.      *)
DecoderInv(s) ==
  /\ thread[s] \notin {"none", "recover"} => Kept(s) \subseteq codec[s]
  /\ thread[s] # "recover" =>
       codec[s] \cap (PacketsIn(Plain(s)) \cup PacketsIn(Prio(s)) \cup InHands(s)) = {}
  /\ thread[s] = "recover" =>
       Kept(s) \cap (PacketsIn(Plain(s)) \cup PacketsIn(Prio(s))) = {}

(* A flush is at work on a stream: its queue was emptied, it was told, and *)
(* it was asked to meet the other one.                                     *)
Emptied(s) ==
  \/ pc \in {"ask", "meet", "flushed"}
  \/ pc = "tell" /\ s \in {target, "audio"}
  \/ pc = "flush" /\ target = "video" /\ s = "audio"
Told(s) ==
  \/ pc \in {"ask", "meet", "flushed"}
  \/ pc \in {"flush", "tell"} /\ target = "video" /\ s = "audio"
Invited(s) ==
  \/ pc \in {"meet", "flushed"}
  \/ pc = "ask" /\ target = "video" /\ s = "audio"
AskedNext(s) == pc = "ask" /\ target = "video" /\ s = "video"

FlushPending(s) ==
  IsFlush(pMsg[s]) \/ \E i \in 1 .. Len(Prio(s)) : IsFlush(Prio(s)[i].msg)

(* Once the queue was emptied, no packet but those put back is there; once *)
(* the player has obeyed, it has and gets only what was put back.          *)
FlushInv(s) ==
  /\ Emptied(s) => PacketsIn(Plain(s)) \subseteq putBack[s]
  /\ Told(s) /\ Open(s) =>
       \/ FlushPending(s)
       \/ codec[s] \cup Kept(s) \cup PacketsIn(Prio(s)) \cup InHands(s) \subseteq putBack[s]

(* Whether a stream player still has a message.                            *)
Holds(s, m) ==
  \/ pMsg[s] = m
  \/ \E i \in 1 .. Len(Prio(s)) : Prio(s)[i].msg = m
  \/ \E i \in 1 .. Len(Plain(s)) : Plain(s)[i].msg = m

(* The invitation is behind the order to flush, wherever it is put back,   *)
(* and is lost by no stream player.                                        *)
MeetInv(s) ==
  /\ Invited(s) =>
       /\ \A i \in 1 .. Len(Plain(s)) : Plain(s)[i].msg # Sync(Newest)
       /\ \A i, j \in 1 .. Len(Prio(s)) :
            Prio(s)[i].msg = Sync(Newest) /\ IsFlush(Prio(s)[j].msg) => i < j
       /\ pMsg[s] = Sync(Newest) \/ s \in syncs[Newest].reached => ~FlushPending(s)
       /\ Open(s) => s \in syncs[Newest].reached \/ Holds(s, Sync(Newest))
       /\ s \in syncs[Newest].reached => Open(s)
  /\ AskedNext(s) => ~Holds(s, Sync(Newest)) /\ s \notin syncs[Newest].reached

(* The marker of a drain is behind all packets the decoder never had, in   *)
(* the queue of the stream that is drained and nowhere else, until it      *)
(* arrives.                                                                *)
AllHad(s) == PacketsIn(Plain(s)) \cup InHands(s) \subseteq decoded[s]
DrainInv(s) ==
  /\ pc = "draining" /\ s = target =>
       /\ \A i \in 1 .. Len(Prio(s)) : Prio(s)[i].msg # Sync(Newest)
       /\ \A i, j \in 1 .. Len(Plain(s)) :
            Plain(s)[i].msg = Sync(Newest) /\ IsPacket(Plain(s)[j]) => i < j
       /\ pMsg[s] = Sync(Newest) \/ syncs[Newest].reached # {} => AllHad(s)
       /\ Met(Newest) \/ Holds(s, Sync(Newest))
  /\ pc = "draining" /\ s # target => ~Holds(s, Sync(Newest))
  /\ pc = "drained" /\ s = target => syncs[Newest].expired \/ AllHad(s)

(* A thread that waits without a signal has nothing to get.                *)
AwakeInv(s) ==
  thread[s] = "wait" /\ ~queue[s].m_hEvent =>
    /\ Prio(s) = <<>> /\ (onlyPrioMsgs[s] \/ m_paused[s] \/ Plain(s) = <<>>)
    /\ ~queue[s].m_bAbortRequest

ExactInv(s) == SizeIsExact(queue[s])

StreamInv(s) ==
  /\ HandsInv(s) /\ ClosedInv(s) /\ KnownInv(s) /\ PacketInv(s) /\ DecoderInv(s) /\ FlushInv(s)
  /\ MeetInv(s) /\ DrainInv(s) /\ AwakeInv(s) /\ ExactInv(s)

(* What the player's thread has announced, and may announce, where; what   *)
(* it closes is open.                                                      *)
MainInv ==
  /\ \A k \in 1 .. Newest : syncs[k].reached \subseteq syncs[k].sources
  /\ pc \in {"flush", "tell", "drain"} \/ (pc = "ask" /\ target = "audio") => Newest < MaxSyncs
  /\ pc \in {"meet", "flushed"} \/ (pc = "ask" /\ target = "video") =>
       Newest > 0 /\ syncs[Newest].sources = Stream
  /\ pc \in {"draining", "drained"} => Newest > 0 /\ syncs[Newest].sources = {"any"}
  /\ pc = "flushed" => Met(Newest) \/ m_bAbortRequest
  /\ pc \in Closing => Open(target)

SInv == TypeInv /\ MainInv /\ \A s \in Stream : StreamInv(s)

-----------------------------------------------------------------------------
(* Messages and lists                                                      *)

(* A message is of the kind its field says.                                *)
LEMMA Kinds ==
  /\ \A m \in Packet : m.kind = "packet" /\ m.n \in Nat /\ m.n > 0
  /\ \A m \in SyncMessage : m.kind = "sync" /\ m.n \in 1 .. MaxSyncs /\ m = Sync(m.n)
  /\ \A m \in Setting : m.kind \in {"pause", "resume", "flush"}
  /\ NoMessage.kind = "none"
  /\ Message = Packet \cup SyncMessage \cup Setting
<1>1. \A m \in Packet : m.kind = "packet" /\ m.n \in Nat /\ m.n > 0
  <2>1. \A s \in Stream : MaxPackets[s] \in Nat
    BY BoundsAssumption, SMT
  <2>2. \A n \in UNION {1 .. MaxPackets[s] : s \in Stream} : n \in Nat /\ n > 0
    BY <2>1, SMT
  <2> QED BY <2>2, SMT DEF Packet
<1>2. \A m \in SyncMessage : m.kind = "sync" /\ m.n \in 1 .. MaxSyncs /\ m = Sync(m.n)
  BY SMT DEF SyncMessage, Sync
<1>3. \A m \in Setting : m.kind \in {"pause", "resume", "flush"}
  BY SMT DEF Setting
<1>4. NoMessage.kind = "none"
  BY SMT DEF NoMessage
<1>5. Message = Packet \cup SyncMessage \cup Setting
  BY Zenon DEF Message, SyncMessage, Setting
<1> QED BY <1>1, <1>2, <1>3, <1>4, <1>5

(* A message of some kind is in the set of that kind.                      *)
LEMMA KindOf ==
  ASSUME NEW m \in Message
  PROVE  /\ m # NoMessage
         /\ m.kind \in {"packet", "sync", "pause", "resume", "flush"}
         /\ m.kind = "packet" => m \in Packet
         /\ m.kind = "sync" => m \in SyncMessage
         /\ m.kind \in {"pause", "resume", "flush"} => m \in Setting
<1>1. CASE m \in Packet
  BY <1>1, Kinds, SMT
<1>2. CASE m \in SyncMessage
  BY <1>2, Kinds, SMT
<1>3. CASE m \in Setting
  BY <1>3, Kinds, SMT
<1> QED BY <1>1, <1>2, <1>3, Kinds

(* A list with one more element in front.                                  *)
LEMMA ConsAt ==
  ASSUME NEW S, NEW l \in Seq(S), NEW e \in S
  PROVE  /\ <<e>> \o l \in Seq(S) /\ Len(<<e>> \o l) = Len(l) + 1
         /\ (<<e>> \o l)[1] = e
         /\ \A i \in 2 .. Len(l) + 1 : (<<e>> \o l)[i] = l[i - 1]
         /\ \A i \in 1 .. Len(l) : (<<e>> \o l)[i + 1] = l[i]
  BY SMT

(* A list with one more element at its end.                                *)
LEMMA AppendAt ==
  ASSUME NEW S, NEW l \in Seq(S), NEW e \in S
  PROVE  /\ Append(l, e) \in Seq(S) /\ Len(Append(l, e)) = Len(l) + 1
         /\ Append(l, e)[Len(l) + 1] = e
         /\ \A i \in 1 .. Len(l) : Append(l, e)[i] = l[i]
  BY SMT

(* Two lists one after the other.                                          *)
Joined(r, k, l) ==
  /\ Len(r) = Len(k) + Len(l)
  /\ \A i \in 1 .. Len(k) : r[i] = k[i]
  /\ \A i \in 1 .. Len(l) : r[Len(k) + i] = l[i]

(* Where the elements of two lists are when one is put behind the other.   *)
LEMMA ConcatAt ==
  ASSUME NEW S, NEW k \in Seq(S), NEW l \in Seq(S)
  PROVE  k \o l \in Seq(S) /\ Joined(k \o l, k, l)
<1>1. PICK r : r = k \o l
  OBVIOUS
<1>2. r \in Seq(S) /\ Joined(r, k, l)
  BY <1>1, SMT DEF Joined
<1> QED BY <1>1, <1>2, Zenon

(* A list without its last element.                                        *)
LEMMA FrontAt ==
  ASSUME NEW S, NEW l \in Seq(S), l # <<>>
  PROVE  /\ Len(l) \in Nat /\ Len(l) > 0
         /\ Front(l) \in Seq(S) /\ Len(Front(l)) = Len(l) - 1
         /\ Last(l) = l[Len(l)] /\ Last(l) \in S
         /\ \A i \in 1 .. Len(l) - 1 : Front(l)[i] = l[i]
<1>1. Len(l) \in Nat /\ Len(l) > 0
  BY SMT
<1>2. Front(l) \in Seq(S) /\ Len(Front(l)) = Len(l) - 1
  <2>1. \A i \in 1 .. Len(l) - 1 : l[i] \in S
    BY <1>1, SMT
  <2>2. Front(l) \in Seq(S) /\ Len(Front(l)) = IF 1 <= Len(l) - 1 THEN Len(l) - 1 - 1 + 1 ELSE 0
    BY <1>1, <2>1, SubSeqProperties DEF Front
  <2>3. PICK n \in Nat : n = Len(l)
    BY <1>1
  <2>4. PICK m : m = Len(Front(l))
    OBVIOUS
  <2>5. m = IF 1 <= n - 1 THEN n - 1 - 1 + 1 ELSE 0
    BY <2>2, <2>3, <2>4, Zenon
  <2>6. m = n - 1
    BY <1>1, <2>3, <2>5, SMT
  <2> QED BY <2>2, <2>3, <2>4, <2>6, Zenon
<1>3. Last(l) = l[Len(l)] /\ Last(l) \in S
  BY <1>1, SMT DEF Last
<1>4. \A i \in 1 .. Len(l) - 1 : Front(l)[i] = l[i]
  BY <1>1, SMT DEF Front
<1> QED BY <1>1, <1>2, <1>3, <1>4

(* A set of numbers has a smallest: the order of the numbers as a set of   *)
(* pairs, since the theorem about it takes the order as an operator, ...   *)
LEMMA OrderOfNumbers ==
  \E R : /\ R = {ss \in Nat \X Nat : ss[1] < ss[2]}
         /\ \A T \in SUBSET Nat : T # {} => \E x \in T : \A y \in T : <<y, x>> \notin R
<1>1. IsWellFoundedOn(OpToRel(<, Nat), Nat)
  BY NatLessThanWellFounded
<1>2. OpToRel(<, Nat) = {ss \in Nat \X Nat : ss[1] < ss[2]}
  BY Zenon DEF OpToRel
<1>3. \A T \in SUBSET Nat :
        T # {} => \E x \in T : \A y \in T : <<y, x>> \notin OpToRel(<, Nat)
  BY <1>1, WFMin, Zenon
<1> QED BY <1>2, <1>3, Zenon

(* ... and its smallest element.                                           *)
LEMMA SmallestNumber ==
  ASSUME NEW T \in SUBSET Nat, T # {}
  PROVE  \E x \in T : \A y \in T : x <= y
<1>1. PICK R : /\ R = {ss \in Nat \X Nat : ss[1] < ss[2]}
               /\ \A U \in SUBSET Nat : U # {} => \E x \in U : \A y \in U : <<y, x>> \notin R
  BY OrderOfNumbers
<1>2. PICK x \in T : \A y \in T : <<y, x>> \notin R
  BY <1>1, Zenon
<1>3. \A y \in T : ~(y < x)
  BY <1>1, <1>2, Zenon
<1> QED BY <1>3, SMT

(* Where std::find_if stops in a list all of whose elements have the       *)
(* priority of the new one: at its front.                                  *)
LEMMA InsertedInFront ==
  ASSUME NEW l \in Seq(PrioItem), NEW e \in PrioItem
  PROVE  InsertedAt(l, e, 1) = <<e>> \o l
<1>1. PICK I : I = {i \in 1 .. Len(l) : 1 <= l[i].priority}
  OBVIOUS
<1>2. PICK place : place = IF I # {} THEN Min(I) ELSE 0
  OBVIOUS
<1>3. InsertedAt(l, e, 1) = InsertAt(l, IF place = 0 THEN Len(l) + 1 ELSE place, e)
  BY <1>1, <1>2 DEF InsertedAt, SelectInSeq
<1>4. CASE l = <<>>
  <2>1. I = {} /\ Len(l) = 0
    BY <1>1, <1>4, SMT
  <2>2. InsertedAt(l, e, 1) = InsertAt(l, 1, e)
    BY <1>2, <1>3, <2>1, SMT
  <2> QED BY <1>4, <2>2, SMT DEF InsertAt
<1>5. CASE l # <<>>
  <2>1. Len(l) \in Nat /\ Len(l) > 0 /\ I = 1 .. Len(l)
    <3>1. \A i \in 1 .. Len(l) : l[i] \in PrioItem
      BY SMT
    <3>2. \A i \in 1 .. Len(l) : 1 <= l[i].priority
      BY <3>1, SMT DEF PrioItem
    <3> QED BY <1>1, <1>5, <3>2, SMT
  <2>2. place = 1
    <3>1. \E x \in I : \A y \in I : x <= y
      BY <2>1, SMT
    <3>2. Min(I) \in I /\ \A y \in I : Min(I) <= y
      BY <3>1 DEF Min
    <3>3. 1 \in 1 .. Len(l)
      BY <2>1, SMT
    <3>4. 1 \in I /\ I # {}
      BY <2>1, <3>3, Zenon
    <3> QED BY <1>2, <2>1, <3>2, <3>4, SMT
  <2>3. InsertedAt(l, e, 1) = InsertAt(l, 1, e)
    BY <1>3, <2>2, SMT
  <2> QED BY <2>1, <2>3, SMT DEF InsertAt
<1> QED BY <1>4, <1>5

(* A list with one more element somewhere; where the others are then.      *)
Moved(i, p) == IF i < p THEN i ELSE i + 1
Inserted(r, l, e, p) ==
  /\ Len(l) \in Nat /\ Len(r) = Len(l) + 1 /\ p \in 1 .. Len(l) + 1
  /\ r[p] = e /\ \A i \in 1 .. Len(l) : r[Moved(i, p)] = l[i]

(* In front, at the end, or before it is taken from the end.               *)
LEMMA InsertedAtEnds ==
  ASSUME NEW S, NEW l \in Seq(S)
  PROVE  /\ \A e \in S : Inserted(<<e>> \o l, l, e, 1)
         /\ \A e \in S : Inserted(Append(l, e), l, e, Len(l) + 1)
         /\ l # <<>> => Inserted(l, Front(l), Last(l), Len(l))
<1>1. PICK n \in Nat : n = Len(l)
  BY SMT
<1>2. ASSUME NEW e \in S
      PROVE  Inserted(<<e>> \o l, l, e, 1)
  <2>1. PICK r : r = <<e>> \o l
    OBVIOUS
  <2>2. Len(r) = n + 1 /\ r[1] = e /\ \A i \in 1 .. n : r[i + 1] = l[i]
    BY <1>1, <2>1, ConsAt
  <2>3. 1 \in 1 .. n + 1 /\ \A i \in 1 .. n : Moved(i, 1) = i + 1
    BY SMT DEF Moved
  <2> QED BY <1>1, <2>1, <2>2, <2>3 DEF Inserted
<1>3. ASSUME NEW e \in S
      PROVE  Inserted(Append(l, e), l, e, Len(l) + 1)
  <2>1. PICK r : r = Append(l, e)
    OBVIOUS
  <2>2. Len(r) = n + 1 /\ r[n + 1] = e /\ \A i \in 1 .. n : r[i] = l[i]
    BY <1>1, <2>1, AppendAt
  <2>3. n + 1 \in 1 .. n + 1 /\ \A i \in 1 .. n : Moved(i, n + 1) = i
    BY SMT DEF Moved
  <2> QED BY <1>1, <2>1, <2>2, <2>3 DEF Inserted
<1>4. ASSUME l # <<>>
      PROVE  Inserted(l, Front(l), Last(l), Len(l))
  <2>1. PICK f : f = Front(l)
    OBVIOUS
  <2>2. n > 0 /\ Len(f) = n - 1 /\ Last(l) = l[n] /\ \A i \in 1 .. n - 1 : f[i] = l[i]
    BY <1>1, <1>4, <2>1, FrontAt
  <2>3. /\ n - 1 \in Nat /\ n = (n - 1) + 1 /\ n \in 1 .. (n - 1) + 1
        /\ \A i \in 1 .. n - 1 : Moved(i, n) = i
    BY <2>2, SMT DEF Moved
  <2> QED BY <1>1, <2>1, <2>2, <2>3 DEF Inserted
<1> QED BY <1>2, <1>3, <1>4

(* Where an element of the longer list was, and in which order.            *)
LEMMA Places ==
  ASSUME NEW r, NEW l, NEW e, NEW p, Inserted(r, l, e, p)
  PROVE  /\ \A i \in 1 .. Len(l) : Moved(i, p) \in 1 .. Len(r) /\ Moved(i, p) # p
         /\ p \in 1 .. Len(r)
         /\ \A a \in 1 .. Len(r) : a = p \/ \E i \in 1 .. Len(l) : a = Moved(i, p)
         /\ \A i, j \in 1 .. Len(l) : i < j <=> Moved(i, p) < Moved(j, p)
         /\ \A i \in 1 .. Len(l) : (i < p <=> Moved(i, p) < p) /\ (i < p <=> ~(p < Moved(i, p)))
<1>1. PICK n \in Nat : n = Len(l) /\ Len(r) = n + 1 /\ p \in 1 .. n + 1
  BY DEF Inserted
<1>2. \A i \in 1 .. n : Moved(i, p) \in 1 .. n + 1 /\ Moved(i, p) # p
  BY <1>1, SMT DEF Moved
<1>3. ASSUME NEW a \in 1 .. n + 1, a # p
      PROVE  \E i \in 1 .. n : a = Moved(i, p)
  <2>1. CASE a < p
    <3>1. a \in 1 .. n /\ a = Moved(a, p)
      BY <1>1, <2>1, SMT DEF Moved
    <3> QED BY <3>1
  <2>2. CASE ~(a < p)
    <3>1. a - 1 \in 1 .. n /\ a = Moved(a - 1, p)
      BY <1>1, <1>3, <2>2, SMT DEF Moved
    <3> QED BY <3>1
  <2> QED BY <2>1, <2>2
<1>4. \A i, j \in 1 .. n : i < j <=> Moved(i, p) < Moved(j, p)
  BY <1>1, SMT DEF Moved
<1>5. \A i \in 1 .. n : (i < p <=> Moved(i, p) < p) /\ (i < p <=> ~(p < Moved(i, p)))
  BY <1>1, SMT DEF Moved
<1> QED BY <1>1, <1>2, <1>3, <1>4, <1>5

(* The packets of the longer list.                                         *)
PacketOf(e) == IF IsPacket(e) THEN {e.msg.n} ELSE {}

(* They are those of the shorter one and what was inserted.                *)
LEMMA PacketsInserted ==
  ASSUME NEW r, NEW l, NEW e, NEW p, Inserted(r, l, e, p)
  PROVE  PacketsIn(r) = PacketsIn(l) \cup PacketOf(e)
<1>1. /\ \A i \in 1 .. Len(l) : Moved(i, p) \in 1 .. Len(r) /\ r[Moved(i, p)] = l[i]
      /\ p \in 1 .. Len(r) /\ r[p] = e
      /\ \A a \in 1 .. Len(r) : a = p \/ \E i \in 1 .. Len(l) : a = Moved(i, p)
  <2>1. /\ \A i \in 1 .. Len(l) : Moved(i, p) \in 1 .. Len(r)
        /\ p \in 1 .. Len(r)
        /\ \A a \in 1 .. Len(r) : a = p \/ \E i \in 1 .. Len(l) : a = Moved(i, p)
    BY Places
  <2>2. r[p] = e /\ \A i \in 1 .. Len(l) : r[Moved(i, p)] = l[i]
    BY DEF Inserted
  <2> QED BY <2>1, <2>2, Zenon
<1>2. ASSUME NEW a \in 1 .. Len(r), IsPacket(r[a])
      PROVE  r[a].msg.n \in PacketsIn(l) \cup PacketOf(e)
  BY <1>1, <1>2 DEF PacketsIn, PacketOf
<1>3. ASSUME NEW i \in 1 .. Len(l), IsPacket(l[i])
      PROVE  l[i].msg.n \in PacketsIn(r)
  BY <1>1, <1>3 DEF PacketsIn
<1>4. IsPacket(e) => e.msg.n \in PacketsIn(r)
  BY <1>1 DEF PacketsIn
<1>5. PacketsIn(r) \subseteq PacketsIn(l) \cup PacketOf(e)
  BY <1>2 DEF PacketsIn
<1>6. PacketsIn(l) \subseteq PacketsIn(r)
  BY <1>3 DEF PacketsIn
<1>7. PacketOf(e) \subseteq PacketsIn(r)
  BY <1>4 DEF PacketOf
<1> QED BY <1>5, <1>6, <1>7

(* A list without packets, or without anything.                            *)
LEMMA NoPacketIn ==
  ASSUME NEW l
  PROVE  /\ PacketsIn(l) = {} <=> \A i \in 1 .. Len(l) : ~IsPacket(l[i])
         /\ l = <<>> => PacketsIn(l) = {}
<1>1. PacketsIn(l) = {} <=> \A i \in 1 .. Len(l) : ~IsPacket(l[i])
  BY DEF PacketsIn
<1>2. 1 .. Len(<<>>) = {}
  BY SMT
<1> QED BY <1>1, <1>2

(* What is in order stays so without an element, which was in its place;   *)
LEMMA InTurnWithout ==
  ASSUME NEW r, NEW l, NEW e, Inserted(r, l, e, Len(r)), NEW had, InTurn(r, had)
  PROVE  /\ InTurn(l, had)
         /\ IsPacket(e) => /\ e.msg.n \notin PacketsIn(l)
                           /\ e.msg.n \in had \/ \A n \in PacketsIn(l) : e.msg.n < n
<1>1. PICK p : p = Len(r)
  OBVIOUS
<1>2. /\ \A i \in 1 .. Len(l) : Moved(i, p) \in 1 .. Len(r) /\ r[Moved(i, p)] = l[i]
      /\ p \in 1 .. Len(r) /\ r[p] = e
      /\ \A i, j \in 1 .. Len(l) : i < j <=> Moved(i, p) < Moved(j, p)
  BY <1>1, Places DEF Inserted
<1>3. \A i \in 1 .. Len(l) : Moved(i, p) < p
  BY <1>1, SMT DEF Moved, Inserted
<1>4. InTurn(l, had)
  <2> SUFFICES ASSUME NEW i \in 1 .. Len(l), NEW j \in 1 .. Len(l), i < j,
                      IsPacket(l[i]), IsPacket(l[j])
               PROVE  l[i].msg.n # l[j].msg.n /\ (l[j].msg.n \in had \/ l[j].msg.n < l[i].msg.n)
    BY DEF InTurn
  <2>1. PICK a : a = Moved(i, p)
    OBVIOUS
  <2>2. PICK b : b = Moved(j, p)
    OBVIOUS
  <2>3. a \in 1 .. Len(r) /\ b \in 1 .. Len(r) /\ a < b /\ r[a] = l[i] /\ r[b] = l[j]
    BY <1>2, <2>1, <2>2
  <2>4. r[a].msg.n # r[b].msg.n /\ (r[b].msg.n \in had \/ r[b].msg.n < r[a].msg.n)
    BY <2>3, Zenon DEF InTurn
  <2> QED BY <2>3, <2>4
<1>5. ASSUME IsPacket(e), NEW i \in 1 .. Len(l), IsPacket(l[i])
      PROVE  e.msg.n # l[i].msg.n /\ (e.msg.n \in had \/ e.msg.n < l[i].msg.n)
  BY <1>2, <1>3, <1>5 DEF InTurn
<1> QED BY <1>4, <1>5 DEF PacketsIn

(* and with one more in front, or at the end.                              *)
LEMMA InTurnWith ==
  ASSUME NEW r, NEW l, NEW e, NEW p \in {1, Len(r)}, Inserted(r, l, e, p), NEW had, InTurn(l, had),
         IsPacket(e) => e.msg.n \notin PacketsIn(l),
         IsPacket(e) /\ p # 1 => e.msg.n \in had \/ \A n \in PacketsIn(l) : e.msg.n < n,
         IsPacket(e) /\ p = 1 => \A n \in PacketsIn(l) : n \in had \/ n < e.msg.n
  PROVE  InTurn(r, had)
<1>1. /\ \A i \in 1 .. Len(l) : Moved(i, p) \in 1 .. Len(r) /\ r[Moved(i, p)] = l[i]
      /\ p \in 1 .. Len(r) /\ r[p] = e
      /\ \A a \in 1 .. Len(r) : a = p \/ \E i \in 1 .. Len(l) : a = Moved(i, p)
      /\ \A i, j \in 1 .. Len(l) : i < j <=> Moved(i, p) < Moved(j, p)
  BY Places DEF Inserted
<1>2. \A a, b \in 1 .. Len(r) : a < b => (b = p => p # 1) /\ (a = p => p = 1) /\ ~(a = p /\ b = p)
  BY <1>1, SMT DEF Inserted
<1>3. \A i \in 1 .. Len(l) : IsPacket(l[i]) => l[i].msg.n \in PacketsIn(l)
  BY DEF PacketsIn
<1> SUFFICES ASSUME NEW a \in 1 .. Len(r), NEW b \in 1 .. Len(r), a < b,
                    IsPacket(r[a]), IsPacket(r[b])
             PROVE  r[a].msg.n # r[b].msg.n /\ (r[b].msg.n \in had \/ r[b].msg.n < r[a].msg.n)
  BY DEF InTurn
<1>4. CASE a = p
  <2>1. PICK j \in 1 .. Len(l) : b = Moved(j, p)
    BY <1>1, <1>2, <1>4
  <2> QED BY <1>1, <1>2, <1>3, <1>4, <2>1
<1>5. CASE b = p
  <2>1. PICK j \in 1 .. Len(l) : a = Moved(j, p)
    BY <1>1, <1>2, <1>5
  <2> QED BY <1>1, <1>2, <1>3, <1>5, <2>1
<1>6. CASE a # p /\ b # p
  <2>1. PICK i \in 1 .. Len(l) : a = Moved(i, p)
    BY <1>1, <1>6, Zenon
  <2>2. PICK j \in 1 .. Len(l) : b = Moved(j, p)
    BY <1>1, <1>6, Zenon
  <2>3. i < j /\ r[a] = l[i] /\ r[b] = l[j]
    BY <1>1, <2>1, <2>2
  <2>4. IsPacket(l[i]) /\ IsPacket(l[j])
    BY <2>3
  <2>5. l[i].msg.n # l[j].msg.n /\ (l[j].msg.n \in had \/ l[j].msg.n < l[i].msg.n)
    BY <2>3, <2>4, Zenon DEF InTurn
  <2> QED BY <2>3, <2>5
<1> QED BY <1>4, <1>5, <1>6

(* The same of a list with the packets last, when the last is taken,       *)
LEMMA PacketsLastWithout ==
  ASSUME NEW r, NEW l, NEW e, Inserted(r, l, e, Len(r)), PacketsLast(r)
  PROVE  /\ PacketsLast(l)
         /\ IsPacket(e) => e.msg.n \notin PacketsIn(l)
         /\ ~IsPacket(e) => PacketsIn(l) = {}
<1>1. PICK p : p = Len(r)
  OBVIOUS
<1>2. /\ \A i \in 1 .. Len(l) : Moved(i, p) \in 1 .. Len(r) /\ r[Moved(i, p)] = l[i]
      /\ p \in 1 .. Len(r) /\ r[p] = e
      /\ \A i, j \in 1 .. Len(l) : i < j <=> Moved(i, p) < Moved(j, p)
  BY <1>1, Places DEF Inserted
<1>3. \A i \in 1 .. Len(l) : Moved(i, p) < p
  BY <1>1, SMT DEF Moved, Inserted
<1>4. PacketsLast(l)
  BY <1>2 DEF PacketsLast
<1>5. ASSUME NEW i \in 1 .. Len(l), IsPacket(l[i])
      PROVE  IsPacket(e) /\ e.msg.n # l[i].msg.n
  BY <1>2, <1>3, <1>5 DEF PacketsLast
<1> QED BY <1>4, <1>5 DEF PacketsIn

(* and when one is inserted: another message in front, or a packet between *)
(* the others and the packets.                                             *)
LEMMA PacketsLastWith ==
  ASSUME NEW r, NEW l, NEW e, NEW p, Inserted(r, l, e, p), PacketsLast(l),
         ~IsPacket(e) => p = 1,
         IsPacket(e) => /\ e.msg.n \notin PacketsIn(l)
                        /\ \A i \in 1 .. Len(l) : i < p <=> ~IsPacket(l[i])
  PROVE  PacketsLast(r)
<1>1. /\ \A i \in 1 .. Len(l) : Moved(i, p) \in 1 .. Len(r) /\ r[Moved(i, p)] = l[i]
      /\ p \in 1 .. Len(r) /\ r[p] = e
      /\ \A a \in 1 .. Len(r) : a = p \/ \E i \in 1 .. Len(l) : a = Moved(i, p)
      /\ \A i, j \in 1 .. Len(l) : i < j <=> Moved(i, p) < Moved(j, p)
      /\ \A i \in 1 .. Len(l) : (i < p <=> Moved(i, p) < p) /\ (i < p <=> ~(p < Moved(i, p)))
  BY Places DEF Inserted
<1>2. \A a, b \in 1 .. Len(r) : a < b => ~(a = p /\ b = p) /\ (b = p => p # 1)
  BY <1>1, SMT DEF Inserted
<1>3. \A i \in 1 .. Len(l) : IsPacket(l[i]) => l[i].msg.n \in PacketsIn(l)
  BY DEF PacketsIn
<1> SUFFICES ASSUME NEW a \in 1 .. Len(r), NEW b \in 1 .. Len(r), a < b, IsPacket(r[a])
             PROVE  IsPacket(r[b]) /\ r[a].msg.n # r[b].msg.n
  BY DEF PacketsLast
<1>4. CASE a = p
  <2>1. PICK j \in 1 .. Len(l) : b = Moved(j, p)
    BY <1>1, <1>2, <1>4
  <2> QED BY <1>1, <1>3, <1>4, <2>1
<1>5. CASE b = p
  <2>1. PICK j \in 1 .. Len(l) : a = Moved(j, p)
    BY <1>1, <1>2, <1>5
  <2> QED BY <1>1, <1>2, <1>5, <2>1
<1>6. CASE a # p /\ b # p
  <2>1. PICK i \in 1 .. Len(l) : a = Moved(i, p)
    BY <1>1, <1>6, Zenon
  <2>2. PICK j \in 1 .. Len(l) : b = Moved(j, p)
    BY <1>1, <1>6, Zenon
  <2>3. i < j /\ r[a] = l[i] /\ r[b] = l[j]
    BY <1>1, <2>1, <2>2
  <2>4. IsPacket(l[i])
    BY <2>3
  <2> QED BY <2>3, <2>4, Zenon DEF PacketsLast
<1> QED BY <1>4, <1>5, <1>6

(* An element inserted anywhere.                                           *)
LEMMA InsertedAtPlace ==
  ASSUME NEW S, NEW l \in Seq(S), NEW e \in S, NEW p \in 1 .. Len(l) + 1,
         NEW r, r = InsertAt(l, p, e)
  PROVE  r \in Seq(S) /\ Inserted(r, l, e, p)
<1>1. PICK n \in Nat : n = Len(l) /\ \A i \in 1 .. n : l[i] \in S
  BY LenProperties, ElementOfSeq
<1>2. PICK a : a = SubSeq(l, 1, p - 1)
  OBVIOUS
<1>3. PICK b : b = SubSeq(l, p, n)
  OBVIOUS
<1>4. a \in Seq(S) /\ Len(a) = p - 1 /\ \A i \in 1 .. p - 1 : a[i] = l[i]
  <2>1. 1 \in Int /\ p - 1 \in Int /\ \A i \in 1 .. p - 1 : l[i] \in S
    BY <1>1, SMT
  <2>2. /\ a \in Seq(S) /\ Len(a) = (IF 1 <= p - 1 THEN (p - 1) - 1 + 1 ELSE 0)
        /\ \A i \in 1 .. (p - 1) - 1 + 1 : a[i] = l[1 + i - 1]
    BY <1>2, <2>1, SubSeqProperties
  <2> QED BY <1>1, <2>2, SMT
<1>5. b \in Seq(S) /\ Len(b) = n + 1 - p /\ \A i \in 1 .. n + 1 - p : b[i] = l[p + i - 1]
  <2>1. p \in Int /\ n \in Int /\ \A i \in p .. n : l[i] \in S
    BY <1>1, SMT
  <2>2. /\ b \in Seq(S) /\ Len(b) = (IF p <= n THEN n - p + 1 ELSE 0)
        /\ \A i \in 1 .. n - p + 1 : b[i] = l[p + i - 1]
    BY <1>3, <2>1, SubSeqProperties
  <2> QED BY <1>1, <2>2, SMT
<1>6. PICK d : d = a \o <<e>>
  OBVIOUS
<1>7. d \in Seq(S) /\ Len(d) = p /\ d[p] = e /\ \A i \in 1 .. p - 1 : d[i] = l[i]
  <2>1. /\ d \in Seq(S) /\ Len(d) = Len(a) + 1 /\ d[Len(a) + 1] = e
        /\ \A i \in 1 .. Len(a) : d[i] = a[i]
    BY <1>4, <1>6, SMT
  <2>2. (p - 1) + 1 = p
    BY <1>1, SMT
  <2> QED BY <1>4, <2>1, <2>2
<1>8. r = d \o b
  BY <1>1, <1>2, <1>3, <1>6, Zenon DEF InsertAt
<1>9. r \in Seq(S) /\ Joined(r, d, b)
  <2>1. d \in Seq(S) /\ b \in Seq(S)
    BY <1>5, <1>7
  <2>2. d \o b \in Seq(S) /\ Joined(d \o b, d, b)
    BY <2>1, ConcatAt, Zenon
  <2> QED BY <1>8, <2>2, Zenon
<1>10. /\ Len(r) = n + 1 /\ \A i \in 1 .. p : r[i] = d[i]
       /\ \A i \in 1 .. n + 1 - p : r[p + i] = b[i]
  <2>1. p + (n + 1 - p) = n + 1
    BY <1>1, SMT
  <2> QED BY <1>5, <1>7, <1>9, <2>1 DEF Joined
<1>11. r[p] = e
  <2>1. p \in 1 .. p
    BY <1>1, SMT
  <2> QED BY <1>7, <1>10, <2>1
<1>12. ASSUME NEW i \in 1 .. n
       PROVE  r[Moved(i, p)] = l[i]
  <2>1. CASE i < p
    <3>1. Moved(i, p) = i /\ i \in 1 .. p /\ i \in 1 .. p - 1
      BY <1>1, <2>1, SMT DEF Moved
    <3> QED BY <1>7, <1>10, <3>1
  <2>2. CASE ~(i < p)
    <3>1. /\ Moved(i, p) = p + (i + 1 - p) /\ i + 1 - p \in 1 .. n + 1 - p
          /\ p + (i + 1 - p) - 1 = i
      BY <1>1, <2>2, SMT DEF Moved
    <3>2. r[p + (i + 1 - p)] = b[i + 1 - p]
      BY <1>10, <3>1
    <3> QED BY <1>5, <3>1, <3>2
  <2> QED BY <2>1, <2>2
<1> QED BY <1>1, <1>9, <1>10, <1>11, <1>12 DEF Inserted

(* Where it stops for the priority of packets: at the first of them.       *)
LEMMA InsertedBeforePackets ==
  ASSUME NEW l \in Seq(PrioItem), PacketsLast(l), NEW e \in PrioItem, NEW r,
         r = InsertedAt(l, e, 10), \A x \in PrioItem : IsPacket(x) <=> 10 <= x.priority
  PROVE  /\ r \in Seq(PrioItem)
         /\ \E p : Inserted(r, l, e, p) /\ \A i \in 1 .. Len(l) : i < p <=> ~IsPacket(l[i])
<1>1. PICK I : I = {i \in 1 .. Len(l) : 10 <= l[i].priority}
  OBVIOUS
<1>2. PICK n \in Nat : n = Len(l) /\ \A i \in 1 .. n : l[i] \in PrioItem
  BY LenProperties, ElementOfSeq
<1>3. \A i \in 1 .. n : i \in I <=> IsPacket(l[i])
  BY <1>1, <1>2
<1>4. PICK p : p = IF I = {} THEN n + 1 ELSE Min(I)
  OBVIOUS
<1>5. p \in 1 .. n + 1 /\ \A i \in 1 .. n : i < p <=> ~IsPacket(l[i])
  <2>1. CASE I = {}
    BY <1>3, <1>4, <2>1, SMT
  <2>2. CASE I # {}
    <3>1. I \in SUBSET Nat /\ I \subseteq 1 .. n
      BY <1>1, <1>2, SMT
    <3>2. PICK x \in I : \A y \in I : x <= y
      BY <2>2, <3>1, SmallestNumber
    <3>3. Min(I) \in I /\ \A y \in I : Min(I) <= y
      BY <3>2, Zenon DEF Min
    <3>4. p \in I /\ p \in 1 .. n /\ \A y \in I : p <= y
      BY <1>4, <2>2, <3>1, <3>3
    <3>5. \A i \in 1 .. n : i < p => ~IsPacket(l[i])
      BY <1>3, <3>4, SMT
    <3>6. \A i \in 1 .. n : p < i => IsPacket(l[i])
      BY <1>2, <1>3, <3>4 DEF PacketsLast
    <3>7. \A i \in 1 .. n : ~(i < p) => IsPacket(l[i])
      BY <1>3, <3>4, <3>6, SMT
    <3> QED BY <3>4, <3>5, <3>7, SMT
  <2> QED BY <2>1, <2>2
<1>6. r = InsertAt(l, p, e)
  <2>1. r = InsertAt(l, IF (IF I # {} THEN Min(I) ELSE 0) = 0 THEN Len(l) + 1
                        ELSE (IF I # {} THEN Min(I) ELSE 0), e)
    BY <1>1, Zenon DEF InsertedAt, SelectInSeq
  <2>2. p # 0
    BY <1>5, SMT
  <2>3. (IF (IF I # {} THEN Min(I) ELSE 0) = 0 THEN Len(l) + 1
         ELSE (IF I # {} THEN Min(I) ELSE 0)) = p
    BY <1>2, <1>4, <2>2, Zenon
  <2> QED BY <2>1, <2>3, Zenon
<1>7. r \in Seq(PrioItem) /\ Inserted(r, l, e, p)
  BY <1>2, <1>5, <1>6, InsertedAtPlace
<1> QED BY <1>2, <1>5, <1>7

(* The packets a player remembers: none, ...                               *)
LEMMA NothingRemembered == Numbers(<<>>) = {} /\ Distinct(<<>>)
<1>1. 1 .. Len(<<>>) = {}
  BY SMT
<1> QED BY <1>1 DEF Numbers, Distinct

(* ... one more, ...                                                       *)
LEMMA OneMore ==
  ASSUME NEW l \in Seq(Packet), Distinct(l), NEW m \in Packet, m.n \notin Numbers(l),
         NEW r, r = Append(l, m)
  PROVE  /\ r \in Seq(Packet) /\ r # <<>> /\ Distinct(r) /\ Numbers(r) = Numbers(l) \cup {m.n}
<1>1. PICK n \in Nat : n = Len(l)
  BY SMT
<1>2. r \in Seq(Packet) /\ Len(r) = n + 1 /\ r[n + 1] = m /\ \A i \in 1 .. n : r[i] = l[i]
  BY <1>1, AppendAt
<1>3. /\ \A i \in 1 .. n : i \in 1 .. n + 1 /\ i < n + 1
      /\ \A i \in 1 .. n + 1 : i \in 1 .. n \/ i = n + 1
      /\ n + 1 \in 1 .. n + 1
  BY SMT
<1>4. \A i \in 1 .. n : l[i].n \in Numbers(l)
  BY <1>1 DEF Numbers
<1>5. Distinct(r)
  <2> SUFFICES ASSUME NEW i \in 1 .. n + 1, NEW j \in 1 .. n + 1, i < j
               PROVE  r[i].n # r[j].n
    BY <1>2 DEF Distinct
  <2>1. i \in 1 .. n
    BY SMT
  <2>2. CASE j = n + 1
    BY <1>2, <1>4, <2>1, <2>2
  <2>3. CASE j \in 1 .. n
    BY <1>1, <1>2, <2>1, <2>3 DEF Distinct
  <2> QED BY <1>3, <2>2, <2>3
<1>6. Numbers(r) \subseteq Numbers(l) \cup {m.n}
  BY <1>1, <1>2, <1>3, <1>4 DEF Numbers
<1>7. Numbers(l) \cup {m.n} \subseteq Numbers(r)
  BY <1>1, <1>2, <1>3 DEF Numbers
<1>8. r # <<>>
  BY <1>2, SMT
<1> QED BY <1>2, <1>5, <1>6, <1>7, <1>8

(* ... or without the oldest.                                              *)
LEMMA OneLess ==
  ASSUME NEW l \in Seq(Packet), l # <<>>, Distinct(l), NEW r, r = Tail(l)
  PROVE  /\ r \in Seq(Packet) /\ Head(l) \in Packet /\ Distinct(r)
         /\ Numbers(l) = Numbers(r) \cup {Head(l).n} /\ Head(l).n \notin Numbers(r)
<1>1. PICK n \in Nat : n = Len(r)
  BY SMT
<1>2. /\ r \in Seq(Packet) /\ Len(l) = n + 1 /\ Head(l) = l[1] /\ Head(l) \in Packet
      /\ \A i \in 1 .. n : r[i] = l[i + 1]
  BY <1>1, SMT
<1>3. /\ \A i \in 1 .. n : i + 1 \in 1 .. n + 1 /\ 1 < i + 1
      /\ \A i \in 1 .. n + 1 : i = 1 \/ (i - 1 \in 1 .. n /\ (i - 1) + 1 = i)
      /\ 1 \in 1 .. n + 1
      /\ \A i, j \in 1 .. n : i < j => i + 1 < j + 1
  BY SMT
<1>4. Distinct(r)
  BY <1>1, <1>2, <1>3 DEF Distinct
<1>5. Numbers(l) \subseteq Numbers(r) \cup {Head(l).n}
  BY <1>1, <1>2, <1>3 DEF Numbers
<1>6. Numbers(r) \cup {Head(l).n} \subseteq Numbers(l)
  BY <1>1, <1>2, <1>3 DEF Numbers
<1>7. Head(l).n \notin Numbers(r)
  BY <1>1, <1>2, <1>3 DEF Numbers, Distinct
<1> QED BY <1>2, <1>4, <1>5, <1>6, <1>7

(***************************************************************************)
(* Recursion over a list                                                   *)

(* Induction over numbers up to n, with the property as a set.             *)
LEMMA InductionUpTo ==
  ASSUME NEW n \in Nat, NEW T, 0 \in T,
         \A i \in 1 .. n : i - 1 \in T => i \in T
  PROVE  \A i \in 0 .. n : i \in T
<1> SUFFICES ASSUME NEW m \in 0 .. n, m \notin T
             PROVE  FALSE
  OBVIOUS
<1>1. PICK U : U = {i \in 0 .. n : i \notin T}
  OBVIOUS
<1>2. U \in SUBSET Nat /\ U # {}
  BY <1>1, SMT
<1>3. PICK k \in U : \A y \in U : k <= y
  BY <1>2, SmallestNumber
<1>4. k \in 1 .. n /\ k - 1 \notin U
  BY <1>1, <1>3, SMT
<1>5. k - 1 \in T
  BY <1>1, <1>4, SMT
<1> QED BY <1>1, <1>3, <1>4, <1>5

(* A recursion over a list of n elements: what it begins with, what each   *)
(* element makes of what came before, and the values one after the other.  *)
Steps(n, S) == [(1 .. n) \X S -> S]

Follows(f, n, S, a, step) ==
  /\ f \in [0 .. n -> S]
  /\ f[0] = a /\ \A i \in 1 .. n : f[i] = step[<<i, f[i - 1]>>]

(* There is what such a recursion defines.                                 *)
LEMMA RecursionExists ==
  ASSUME NEW n \in Nat, NEW S, NEW a \in S, NEW step \in Steps(n, S)
  PROVE  \E f : Follows(f, n, S, a, step)
<1>0. step \in [(1 .. n) \X S -> S]
  BY DEF Steps
<1>1. PICK T : T = {k \in 0 .. n : \E f \in [0 .. k -> S] :
                      f[0] = a /\ \A i \in 1 .. k : f[i] = step[<<i, f[i - 1]>>]}
  OBVIOUS
<1>2. 0 \in T
  <2>1. PICK f : f = [i \in 0 .. 0 |-> a]
    OBVIOUS
  <2>2. f \in [0 .. 0 -> S] /\ f[0] = a /\ \A i \in 1 .. 0 : f[i] = step[<<i, f[i - 1]>>]
    BY <2>1, SMT
  <2> QED BY <1>1, <2>2, SMT
<1>3. ASSUME NEW k \in 1 .. n, k - 1 \in T
      PROVE  k \in T
  <2>1. PICK f \in [0 .. k - 1 -> S] :
          f[0] = a /\ \A i \in 1 .. k - 1 : f[i] = step[<<i, f[i - 1]>>]
    BY <1>1, <1>3
  <2>2. PICK g : g = [i \in 0 .. k |-> IF i < k THEN f[i] ELSE step[<<k, f[k - 1]>>]]
    OBVIOUS
  <2>3. f[k - 1] \in S /\ step[<<k, f[k - 1]>>] \in S
    BY <1>0, <2>1, SMT
  <2>4. g \in [0 .. k -> S]
    BY <1>0, <2>1, <2>2, <2>3, SMT
  <2>5. g[0] = a /\ g[k - 1] = f[k - 1] /\ g[k] = step[<<k, f[k - 1]>>]
    <3>1. 0 \in 0 .. k /\ k - 1 \in 0 .. k /\ k \in 0 .. k /\ 0 < k /\ k - 1 < k /\ ~(k < k)
      BY SMT
    <3> QED BY <2>1, <2>2, <3>1, Zenon
  <2>6. \A i \in 1 .. k - 1 : g[i] = step[<<i, g[i - 1]>>]
    BY <2>1, <2>2, SMT
  <2>7. \A i \in 1 .. k : g[i] = step[<<i, g[i - 1]>>]
    <3>1. \A i \in 1 .. k : i \in 1 .. k - 1 \/ i = k
      BY SMT
    <3> QED BY <2>5, <2>6, <3>1, Zenon
  <2> QED BY <1>1, <2>4, <2>5, <2>7, SMT
<1>4. n \in T
  BY <1>2, <1>3, InductionUpTo, SMT
<1> QED BY <1>1, <1>4 DEF Follows

(* What is left of a list without its packets are others that were in it.  *)
LEMMA OthersAreKept ==
  ASSUME NEW S, NEW l \in Seq(S)
  PROVE  WithoutPackets(l) \in Seq({x \in S : ~IsPacket(x)})
<1>1. PICK n \in Nat : n = Len(l) /\ \A i \in 1 .. n : l[i] \in S
  BY LenProperties
<1>2. PICK K : K = {x \in S : ~IsPacket(x)}
  OBVIOUS
<1>3. PICK L : L = Seq(K)
  OBVIOUS
<1>4. PICK step : step = [p \in (1 .. n) \X L |->
                            IF IsPacket(l[p[1]]) THEN p[2] ELSE Append(p[2], l[p[1]])]
  OBVIOUS
<1>5. step \in [(1 .. n) \X L -> L]
  <2> SUFFICES ASSUME NEW i \in 1 .. n, NEW x \in L
               PROVE  (IF IsPacket(l[i]) THEN x ELSE Append(x, l[i])) \in L
    BY <1>4, SMT
  <2>1. CASE IsPacket(l[i])
    BY <2>1
  <2>2. CASE ~IsPacket(l[i])
    <3>1. l[i] \in K
      BY <1>1, <1>2, <2>2
    <3>2. Append(x, l[i]) \in L
      BY <1>3, <3>1, SMT
    <3> QED BY <2>2, <3>2
  <2> QED BY <2>1, <2>2
<1>6. <<>> \in L
  BY <1>3, SMT
<1>7. PICK f : Follows(f, n, L, <<>>, step)
  <2>1. step \in Steps(n, L)
    BY <1>5, Zenon DEF Steps
  <2> QED BY <2>1, <1>6, RecursionExists, Zenon
<1>8. \A i \in 1 .. n : f[i] = (IF IsPacket(l[i]) THEN f[i - 1] ELSE Append(f[i - 1], l[i]))
  <2> SUFFICES ASSUME NEW i \in 1 .. n
               PROVE  f[i] = (IF IsPacket(l[i]) THEN f[i - 1] ELSE Append(f[i - 1], l[i]))
    OBVIOUS
  <2>1. f[i - 1] \in L
    BY <1>7, SMT DEF Follows
  <2>2. step[<<i, f[i - 1]>>] = (IF IsPacket(l[i]) THEN f[i - 1] ELSE Append(f[i - 1], l[i]))
    BY <1>4, <2>1, SMT
  <2> QED BY <1>7, <2>2 DEF Follows
<1>9. f = [i \in 0 .. n |-> IF i = 0 THEN <<>>
                           ELSE IF IsPacket(l[i]) THEN f[i - 1] ELSE Append(f[i - 1], l[i])]
  <2>1. \A i \in 0 .. n : i # 0 => i \in 1 .. n
    BY SMT
  <2>2. \A i \in 0 .. n : f[i] = (IF i = 0 THEN <<>>
                           ELSE IF IsPacket(l[i]) THEN f[i - 1] ELSE Append(f[i - 1], l[i]))
    BY <1>7, <1>8, <2>1, Zenon DEF Follows
  <2>3. f \in [0 .. n -> L]
    BY <1>7 DEF Follows
  <2> QED BY <2>2, <2>3, SMT
<1>10. PICK h : h = CHOOSE g :
         g = [i \in 0 .. n |-> IF i = 0 THEN <<>>
                           ELSE IF IsPacket(l[i]) THEN g[i - 1] ELSE Append(g[i - 1], l[i])]
  OBVIOUS
<1>11. h = [i \in 0 .. n |-> IF i = 0 THEN <<>>
                           ELSE IF IsPacket(l[i]) THEN h[i - 1] ELSE Append(h[i - 1], l[i])]
  BY <1>9, <1>10, Zenon
<1>12. WithoutPackets(l) = h[n]
  BY <1>1, <1>10, Zenon DEF WithoutPackets
<1>13. h[0] = <<>> /\ \A i \in 1 .. n :
         h[i] = (IF IsPacket(l[i]) THEN h[i - 1] ELSE Append(h[i - 1], l[i]))
  <2>1. 0 \in 0 .. n /\ \A i \in 1 .. n : i \in 0 .. n /\ i # 0
    BY SMT
  <2> QED BY <1>11, <2>1, Zenon
<1>14. \A i \in 0 .. n : h[i] \in L
  <2>1. PICK T : T = {i \in 0 .. n : h[i] \in L}
    OBVIOUS
  <2>2. ASSUME NEW i \in 1 .. n, i - 1 \in T
        PROVE  i \in T
    <3>1. h[i - 1] \in L /\ step[<<i, h[i - 1]>>] \in L
      BY <1>5, <2>1, <2>2, SMT
    <3>2. step[<<i, h[i - 1]>>] = h[i]
      BY <1>4, <1>13, <3>1, SMT
    <3> QED BY <2>1, <3>1, <3>2, SMT
  <2>3. 0 \in T
    BY <1>6, <1>13, <2>1, SMT
  <2>4. \A i \in 0 .. n : i \in T
    BY <2>2, <2>3, InductionUpTo, Zenon
  <2> QED BY <2>1, <2>4
<1> QED
  <2>1. n \in 0 .. n
    BY SMT
  <2> QED BY <1>2, <1>3, <1>12, <1>14, <2>1

(* The size of a list adds up its messages one by one.                     *)
LEMMA TotalSizeUnfolds ==
  ASSUME NEW l, Len(l) \in Nat, \A i \in 1 .. Len(l) : Size(l[i].msg) \in Int
  PROVE  \E f \in [0 .. Len(l) -> Int] :
           /\ f[0] = 0
           /\ \A i \in 1 .. Len(l) : f[i] = f[i - 1] + Size(l[i].msg)
           /\ TotalSize(l) = f[Len(l)]
<1>1. PICK n \in Nat : n = Len(l)
  OBVIOUS
<1>2. PICK step : step = [p \in (1 .. n) \X Int |-> p[2] + Size(l[p[1]].msg)]
  OBVIOUS
<1>3. step \in [(1 .. n) \X Int -> Int]
  BY <1>1, <1>2, SMT
<1>4. PICK f : Follows(f, n, Int, 0, step)
  <2>1. step \in Steps(n, Int) /\ 0 \in Int
    BY <1>3, SMT DEF Steps
  <2> QED BY <2>1, RecursionExists, Zenon
<1>5. \A i \in 1 .. n : f[i] = f[i - 1] + Size(l[i].msg)
  <2> SUFFICES ASSUME NEW i \in 1 .. n PROVE f[i] = f[i - 1] + Size(l[i].msg)
    OBVIOUS
  <2>1. f[i - 1] \in Int
    BY <1>4, SMT DEF Follows
  <2>2. step[<<i, f[i - 1]>>] = f[i - 1] + Size(l[i].msg)
    BY <1>2, <2>1, SMT
  <2> QED BY <1>4, <2>2 DEF Follows
<1>6. \A i \in 0 .. n : f[i] = (IF i = 0 THEN 0 ELSE f[i - 1] + Size(l[i].msg))
  <2>1. \A i \in 0 .. n : i # 0 => i \in 1 .. n
    BY SMT
  <2> QED BY <1>4, <1>5, <2>1, Zenon DEF Follows
<1>7. f = [i \in 0 .. n |-> IF i = 0 THEN 0 ELSE f[i - 1] + Size(l[i].msg)]
  <2>1. f \in [0 .. n -> Int]
    BY <1>4 DEF Follows
  <2> QED BY <1>6, <2>1, SMT
<1>8. PICK h : h = CHOOSE g : g = [i \in 0 .. n |-> IF i = 0 THEN 0 ELSE g[i - 1] + Size(l[i].msg)]
  OBVIOUS
<1>9. h = [i \in 0 .. n |-> IF i = 0 THEN 0 ELSE h[i - 1] + Size(l[i].msg)]
  BY <1>7, <1>8, Zenon
<1>10. TotalSize(l) = h[n]
  BY <1>1, <1>8, Zenon DEF TotalSize
<1>11. h[0] = 0 /\ \A i \in 1 .. n : h[i] = h[i - 1] + Size(l[i].msg)
  <2>1. 0 \in 0 .. n /\ \A i \in 1 .. n : i \in 0 .. n /\ i # 0
    BY SMT
  <2> QED BY <1>9, <2>1, Zenon
<1>12. h \in [0 .. n -> Int]
  <2>1. PICK T : T = {i \in 0 .. n : h[i] \in Int}
    OBVIOUS
  <2>2. 0 \in T /\ \A i \in 1 .. n : i - 1 \in T => i \in T
    BY <1>1, <1>11, <2>1, SMT
  <2>3. \A i \in 0 .. n : i \in T
    BY <2>2, InductionUpTo, Zenon
  <2>4. \A i \in 0 .. n : h[i] \in Int
    BY <2>1, <2>3, SMT
  <2> QED BY <1>9, <2>4, Zenon
<1> QED BY <1>1, <1>10, <1>11, <1>12

(* An item of the list without priority is a packet or a marker.           *)
LEMMA PlainItems ==
  ASSUME NEW e \in PlainItem
  PROVE  /\ e.msg \in Packet \cup SyncMessage /\ e.priority = 0
         /\ Size(e.msg) \in Nat
         /\ ~IsPacket(e) => Size(e.msg) = 0
<1>1. e.msg \in Packet \cup SyncMessage /\ e.priority = 0
  BY SMT DEF PlainItem
<1>2. Size(e.msg) \in Nat
  BY <1>1, Kinds, SMT DEF Size
<1>3. ~IsPacket(e) => Size(e.msg) = 0
  BY DEF IsPacket, Size
<1> QED BY <1>1, <1>2, <1>3

(* The sizes of the first elements of a list, 0 of them, 1 of them, ...    *)
Sums(f, l, n) ==
  /\ f \in [0 .. n -> Int]
  /\ f[0] = 0
  /\ \A i \in 1 .. n : f[i] = f[i - 1] + Size(l[i].msg)

(* The size of a list is the sum of what its elements add to it.           *)
LEMMA Sizes ==
  ASSUME NEW l \in Seq(PlainItem), NEW n \in Nat, Len(l) = n
  PROVE  \E f : Sums(f, l, n) /\ TotalSize(l) = f[n]
<1>1. Len(l) \in Nat /\ \A i \in 1 .. Len(l) : l[i] \in PlainItem
  BY SMT
<1>2. \A i \in 1 .. Len(l) : Size(l[i].msg) \in Int
  <2> SUFFICES ASSUME NEW i \in 1 .. Len(l)
               PROVE  Size(l[i].msg) \in Int
    OBVIOUS
  <2>1. Size(l[i].msg) \in Nat
    BY <1>1, PlainItems
  <2> QED BY <2>1, SMT
<1> QED BY <1>1, <1>2, TotalSizeUnfolds DEF Sums

(* The size of a list to which an element is put at its end, ...           *)
LEMMA SizeOfAppended ==
  ASSUME NEW l \in Seq(PlainItem), NEW e \in PlainItem
  PROVE  /\ TotalSize(l) \in Int
         /\ TotalSize(Append(l, e)) = TotalSize(l) + Size(e.msg)
<1>1. PICK n \in Nat : n = Len(l)
  BY SMT
<1>2. PICK m : m = Append(l, e)
  OBVIOUS
<1>3. m \in Seq(PlainItem) /\ Len(m) = n + 1 /\ m[n + 1] = e /\ \A i \in 1 .. n : m[i] = l[i]
  BY <1>1, <1>2, AppendAt
<1>4. PICK f : Sums(f, l, n) /\ TotalSize(l) = f[n]
  BY <1>1, Sizes
<1>5. PICK g : Sums(g, m, n + 1) /\ TotalSize(m) = g[n + 1]
  <2>1. n + 1 \in Nat
    BY SMT
  <2> QED BY <1>3, <2>1, Sizes
<1>6. PICK T : T = {i \in 0 .. n : g[i] = f[i]}
  OBVIOUS
<1>7. 0 \in T
  BY <1>4, <1>5, <1>6, SMT DEF Sums
<1>8. ASSUME NEW i \in 1 .. n, i - 1 \in T
      PROVE  i \in T
  <2>1. i \in 1 .. n + 1 /\ i \in 0 .. n
    BY SMT
  <2>2. g[i - 1] = f[i - 1] /\ m[i] = l[i]
    BY <1>3, <1>6, <1>8
  <2>3. f[i] = f[i - 1] + Size(l[i].msg)
    BY <1>4 DEF Sums
  <2>4. g[i] = g[i - 1] + Size(m[i].msg)
    BY <1>5, <2>1 DEF Sums
  <2> QED BY <1>6, <2>1, <2>2, <2>3, <2>4
<1>9. \A i \in 0 .. n : i \in T
  BY <1>7, <1>8, InductionUpTo, Zenon
<1>10. g[n] = f[n] /\ f[n] \in Int
  BY <1>4, <1>6, <1>9, SMT DEF Sums
<1>11. g[n + 1] = g[n] + Size(e.msg)
  <2>1. n + 1 \in 1 .. n + 1 /\ (n + 1) - 1 = n
    BY SMT
  <2>2. g[n + 1] = g[(n + 1) - 1] + Size(m[n + 1].msg)
    BY <1>5, <2>1 DEF Sums
  <2> QED BY <1>3, <2>1, <2>2
<1>12. f[n] + Size(e.msg) = g[n + 1]
  BY <1>10, <1>11
<1> QED BY <1>2, <1>4, <1>5, <1>10, <1>12

(* ... or in front, ...                                                    *)
LEMMA SizeOfCons ==
  ASSUME NEW l \in Seq(PlainItem), NEW e \in PlainItem
  PROVE  TotalSize(<<e>> \o l) = TotalSize(l) + Size(e.msg)
<1>1. PICK n \in Nat : n = Len(l)
  BY SMT
<1>2. PICK m : m = <<e>> \o l
  OBVIOUS
<1>3. m \in Seq(PlainItem) /\ Len(m) = n + 1 /\ m[1] = e /\ \A i \in 1 .. n : m[i + 1] = l[i]
  BY <1>1, <1>2, ConsAt
<1>4. PICK f : Sums(f, l, n) /\ TotalSize(l) = f[n]
  BY <1>1, Sizes
<1>5. PICK g : Sums(g, m, n + 1) /\ TotalSize(m) = g[n + 1]
  <2>1. n + 1 \in Nat
    BY SMT
  <2> QED BY <1>3, <2>1, Sizes
<1>6. Size(e.msg) \in Int
  BY PlainItems, SMT
<1>7. PICK T : T = {i \in 0 .. n : g[i + 1] = f[i] + Size(e.msg)}
  OBVIOUS
<1>8. 0 \in T
  <2>1. 1 \in 1 .. n + 1 /\ 1 - 1 = 0 /\ 0 + 1 = 1 /\ 0 \in 0 .. n
    BY SMT
  <2>2. g[1] = g[1 - 1] + Size(m[1].msg)
    BY <1>5, <2>1 DEF Sums
  <2>3. g[1] = 0 + Size(e.msg) /\ f[0] = 0
    BY <1>3, <1>4, <1>5, <2>1, <2>2 DEF Sums
  <2> QED BY <1>7, <2>1, <2>3
<1>9. ASSUME NEW i \in 1 .. n, i - 1 \in T
      PROVE  i \in T
  <2>1. i + 1 \in 1 .. n + 1 /\ i \in 0 .. n /\ i - 1 \in 0 .. n /\ (i - 1) + 1 = i /\ (i + 1) - 1 = i
    BY SMT
  <2>2. g[i] = f[i - 1] + Size(e.msg) /\ m[i + 1] = l[i]
    BY <1>3, <1>7, <1>9, <2>1
  <2>3. f[i] = f[i - 1] + Size(l[i].msg)
    BY <1>4 DEF Sums
  <2>4. g[i + 1] = g[i] + Size(m[i + 1].msg)
    BY <1>5, <2>1 DEF Sums
  <2>5. f[i - 1] \in Int /\ Size(l[i].msg) \in Int
    <3>1. l[i] \in PlainItem
      BY <1>1, SMT
    <3> QED BY <1>4, <2>1, <3>1, PlainItems, SMT DEF Sums
  <2>6. g[i + 1] = f[i] + Size(e.msg)
    BY <1>6, <2>2, <2>3, <2>4, <2>5, SMT
  <2> QED BY <1>7, <2>1, <2>6
<1>10. \A i \in 0 .. n : i \in T
  BY <1>8, <1>9, InductionUpTo, Zenon
<1>11. g[n + 1] = f[n] + Size(e.msg)
  BY <1>7, <1>10, SMT
<1> QED BY <1>2, <1>4, <1>5, <1>11

(* ... and of one from which the last was taken.                           *)
LEMMA SizeOfFront ==
  ASSUME NEW l \in Seq(PlainItem), l # <<>>
  PROVE  TotalSize(Front(l)) = TotalSize(l) - Size(Last(l).msg)
<1>1. Front(l) \in Seq(PlainItem) /\ Last(l) \in PlainItem
  BY FrontAt
<1>2. l = Append(Front(l), Last(l))
  <2>1. /\ Append(Front(l), Last(l)) \in Seq(PlainItem)
        /\ Len(Append(Front(l), Last(l))) = Len(l)
        /\ \A i \in 1 .. Len(l) : Append(Front(l), Last(l))[i] = l[i]
    BY <1>1, FrontAt, AppendAt, SMT
  <2> QED BY <2>1, SeqEqual
<1>3. TotalSize(Front(l)) \in Int /\ TotalSize(l) = TotalSize(Front(l)) + Size(Last(l).msg)
  BY <1>1, <1>2, SizeOfAppended
<1>4. Size(Last(l).msg) \in Nat
  BY <1>1, PlainItems
<1> QED BY <1>3, <1>4, SMT

(* A list without packets has no size.                                     *)
LEMMA SizeOfOthers ==
  ASSUME NEW l \in Seq(PlainItem), \A i \in 1 .. Len(l) : ~IsPacket(l[i])
  PROVE  TotalSize(l) = 0
<1>1. PICK n \in Nat : n = Len(l)
  BY SMT
<1>2. PICK f : Sums(f, l, n) /\ TotalSize(l) = f[n]
  BY <1>1, Sizes
<1>3. \A i \in 1 .. n : Size(l[i].msg) = 0
  BY <1>1, PlainItems, ElementOfSeq
<1>4. PICK T : T = {i \in 0 .. n : f[i] = 0}
  OBVIOUS
<1>5. 0 \in T /\ \A i \in 1 .. n : i - 1 \in T => i \in T
  BY <1>2, <1>3, <1>4, SMT DEF Sums
<1>6. \A i \in 0 .. n : i \in T
  BY <1>5, InductionUpTo, Zenon
<1> QED BY <1>2, <1>4, <1>6, SMT

-----------------------------------------------------------------------------
(* What the operations make of a queue                                     *)

(* The fields of a queue.                                                  *)
LEMMA QueueFields ==
  ASSUME NEW q \in Queues
  PROVE  /\ q.m_messages \in Seq(PlainItem) /\ q.m_prioMessages \in Seq(PrioItem)
         /\ q.m_iDataSize \in Int /\ q.m_bInitialized \in BOOLEAN
         /\ q.m_bAbortRequest \in BOOLEAN /\ q.m_drain \in BOOLEAN /\ q.m_hEvent \in BOOLEAN
  BY Zenon DEF Queues

(* An item made of a message.  The packets have the higher priority.       *)
LEMMA Items ==
  /\ \A m \in Packet \cup SyncMessage : [msg |-> m, priority |-> 0] \in PlainItem
  /\ \A m \in SyncMessage \cup Setting : [msg |-> m, priority |-> 1] \in PrioItem
  /\ \A m \in Packet : [msg |-> m, priority |-> 10] \in PrioItem
  /\ \A e \in PrioItem : /\ e.msg \in Message /\ e.priority \in {1, 10}
                         /\ IsPacket(e) <=> e.priority = 10
                         /\ ~IsPacket(e) => e.msg \in SyncMessage \cup Setting
<1>1. \A m \in Packet \cup SyncMessage : [msg |-> m, priority |-> 0] \in PlainItem
  BY SMT DEF PlainItem
<1>2. \A m \in SyncMessage \cup Setting : [msg |-> m, priority |-> 1] \in PrioItem
  BY SMT DEF PrioItem
<1>3. \A m \in Packet : [msg |-> m, priority |-> 10] \in PrioItem
  BY SMT DEF PrioItem
<1>4. \A e \in PrioItem : \/ e.msg \in SyncMessage \cup Setting /\ e.priority = 1
                          \/ e.msg \in Packet /\ e.priority = 10
  BY SMT DEF PrioItem
<1>5. \A e \in PrioItem : \/ e.msg \in SyncMessage \cup Setting /\ e.priority = 1 /\ ~IsPacket(e)
                          \/ e.msg \in Packet /\ e.priority = 10 /\ IsPacket(e)
  BY <1>4, Kinds, SMT DEF IsPacket
<1>6. SyncMessage \cup Setting \subseteq Message /\ Packet \subseteq Message /\ 1 # 10
  BY Kinds, SMT
<1> QED BY <1>1, <1>2, <1>3, <1>5, <1>6

(* An empty list has no size.                                              *)
LEMMA SizeOfEmpty == TotalSize(<<>>) = 0
<1>1. <<>> \in Seq(PlainItem) /\ Len(<<>>) = 0 /\ 1 .. 0 = {}
  BY EmptySeq, SMT
<1>2. \A i \in 1 .. Len(<<>>) : ~IsPacket(<<>>[i])
  BY <1>1
<1> QED BY <1>1, <1>2, SizeOfOthers

(* A queue after one of the two lists, the sum and the event changed.      *)
Alike(p, q) == p.m_bInitialized = q.m_bInitialized /\ p.m_bAbortRequest = q.m_bAbortRequest
                 /\ p.m_drain = q.m_drain
PlainAlike(p, q) == p.m_messages = q.m_messages /\ p.m_iDataSize = q.m_iDataSize

(* The ways a message is put in: with priority, again, without, or back.   *)
Urgent(q, m)   == PutIn(q, m, 1, TRUE)
Again(q, m)    == PutIn(q, m, 10, TRUE)
Queued(q, m)   == PutIn(q, m, 0, TRUE)
Returned(q, m) == PutIn(q, m, 0, FALSE)

(* A message put in with priority is the first of its list.                *)
LEMMA PutWithPriority ==
  ASSUME NEW q \in Queues, NEW m \in SyncMessage \cup Setting, NEW p, p = Urgent(q, m)
  PROVE  /\ p \in Queues /\ Alike(p, q) /\ PlainAlike(p, q)
         /\ ~q.m_bInitialized => p = q
         /\ q.m_bInitialized =>
              /\ p.m_prioMessages = <<[msg |-> m, priority |-> 1]>> \o q.m_prioMessages
              /\ p.m_hEvent = TRUE
<1>1. CASE ~q.m_bInitialized
  <2>1. p = q
    BY <1>1, Zenon DEF PutIn, Urgent
  <2> QED BY <1>1, <2>1 DEF Alike, PlainAlike
<1>2. CASE q.m_bInitialized
  <2>1. PICK l : l = InsertedAt(q.m_prioMessages, [msg |-> m, priority |-> 1], 1)
    OBVIOUS
  <2>2. l = <<[msg |-> m, priority |-> 1]>> \o q.m_prioMessages /\ l \in Seq(PrioItem)
    <3>1. PICK e : e = [msg |-> m, priority |-> 1]
      OBVIOUS
    <3>2. e \in PrioItem /\ q.m_prioMessages \in Seq(PrioItem)
      BY <3>1, Items, QueueFields
    <3>3. l = <<e>> \o q.m_prioMessages
      BY <2>1, <3>1, <3>2, InsertedInFront
    <3>4. <<e>> \o q.m_prioMessages \in Seq(PrioItem)
      BY <3>2, ConsAt
    <3> QED BY <3>1, <3>3, <3>4
  <2>3. p = [q EXCEPT !.m_prioMessages = l, !.m_hEvent = TRUE]
    <3>1. 1 > 0
      BY SMT
    <3> QED BY <1>2, <2>1, <3>1, Zenon DEF PutIn, Urgent
  <2>4. p \in Queues /\ p.m_prioMessages = l /\ p.m_hEvent = TRUE
    BY <2>2, <2>3, Zenon DEF Queues
  <2>5. /\ p.m_messages = q.m_messages /\ p.m_iDataSize = q.m_iDataSize
        /\ p.m_bInitialized = q.m_bInitialized /\ p.m_bAbortRequest = q.m_bAbortRequest
        /\ p.m_drain = q.m_drain
    BY <2>3, Zenon DEF Queues
  <2> QED BY <1>2, <2>2, <2>4, <2>5 DEF Alike, PlainAlike
<1> QED BY <1>1, <1>2, QueueFields

(* A packet sent again is put between the others and the packets.          *)
LEMMA PutAgain ==
  ASSUME NEW q \in Queues, NEW m \in Packet, NEW p, p = Again(q, m), q.m_bInitialized,
         PacketsLast(q.m_prioMessages)
  PROVE  /\ p \in Queues /\ Alike(p, q) /\ PlainAlike(p, q) /\ p.m_hEvent = TRUE
         /\ \E place :
              /\ Inserted(p.m_prioMessages, q.m_prioMessages, [msg |-> m, priority |-> 10], place)
              /\ \A i \in 1 .. Len(q.m_prioMessages) :
                   i < place <=> ~IsPacket(q.m_prioMessages[i])
<1>1. PICK e : e = [msg |-> m, priority |-> 10]
  OBVIOUS
<1>2. PICK l : l = InsertedAt(q.m_prioMessages, e, 10)
  OBVIOUS
<1>3. \A x \in PrioItem : IsPacket(x) <=> 10 <= x.priority
  BY Items, SMT
<1>4. e \in PrioItem /\ q.m_prioMessages \in Seq(PrioItem)
  BY <1>1, Items, QueueFields
<1>5. /\ l \in Seq(PrioItem)
      /\ \E place :
           /\ Inserted(l, q.m_prioMessages, e, place)
           /\ \A i \in 1 .. Len(q.m_prioMessages) : i < place <=> ~IsPacket(q.m_prioMessages[i])
  BY <1>2, <1>3, <1>4, InsertedBeforePackets
<1>6. p = [q EXCEPT !.m_prioMessages = l, !.m_hEvent = TRUE]
  <2>1. 10 > 0
    BY SMT
  <2> QED BY <1>1, <1>2, <2>1, Zenon DEF PutIn, Again
<1>7. p \in Queues /\ p.m_prioMessages = l /\ p.m_hEvent = TRUE
  BY <1>5, <1>6, Zenon DEF Queues
<1>8. Alike(p, q) /\ PlainAlike(p, q)
  BY <1>6, Zenon DEF Queues, Alike, PlainAlike
<1> QED BY <1>1, <1>5, <1>7, <1>8

(* One put in without priority is the first of the other list, ...         *)
LEMMA PutWithout ==
  ASSUME NEW q \in Queues, NEW m \in Packet \cup SyncMessage, NEW p, p = Queued(q, m),
         q.m_bInitialized
  PROVE  /\ p \in Queues /\ Alike(p, q)
         /\ p.m_prioMessages = q.m_prioMessages /\ p.m_hEvent = TRUE
         /\ p.m_messages = <<[msg |-> m, priority |-> 0]>> \o q.m_messages
         /\ SizeIsExact(q) => SizeIsExact(p)
<1>1. PICK e : e = [msg |-> m, priority |-> 0]
  OBVIOUS
<1>2. e \in PlainItem /\ e.msg = m /\ Size(m) \in Nat
  <2>1. e \in PlainItem
    BY <1>1, Items
  <2>2. e.msg = m
    BY <1>1
  <2> QED BY <2>1, <2>2, PlainItems
<1>3. PICK l : l = <<e>> \o q.m_messages
  OBVIOUS
<1>4. l \in Seq(PlainItem)
  BY <1>2, <1>3, QueueFields, ConsAt
<1>5. PICK b : b = IF q.m_messages = <<>> THEN 0 ELSE q.m_iDataSize
  OBVIOUS
<1>6. b + Size(m) \in Int
  <2>1. b \in Int
    BY <1>5, QueueFields, SMT
  <2> QED BY <1>2, <2>1, SMT
<1>7. p = [q EXCEPT !.m_messages = l, !.m_iDataSize = b + Size(m), !.m_hEvent = TRUE]
  <2>1. ~(0 > 0)
    BY SMT
  <2> QED BY <1>1, <1>3, <1>5, <2>1, Zenon DEF PutIn, Queued
<1>8. p \in Queues /\ p.m_messages = l /\ p.m_iDataSize = b + Size(m) /\ p.m_hEvent = TRUE
  BY <1>2, <1>4, <1>6, <1>7, Zenon DEF Queues
<1>9. p.m_prioMessages = q.m_prioMessages /\ Alike(p, q)
  BY <1>7, Zenon DEF Queues, Alike
<1>10. ASSUME SizeIsExact(q)
       PROVE  SizeIsExact(p)
  <2>1. q.m_iDataSize = TotalSize(q.m_messages)
    BY <1>10 DEF SizeIsExact
  <2>2. TotalSize(<<>>) = 0
    BY SizeOfEmpty
  <2>3. b = q.m_iDataSize
    BY <1>5, <2>1, <2>2
  <2>4. TotalSize(l) = TotalSize(q.m_messages) + Size(m)
    BY <1>2, <1>3, QueueFields, SizeOfCons
  <2> QED BY <1>8, <2>1, <2>3, <2>4 DEF SizeIsExact
<1> QED BY <1>1, <1>3, <1>8, <1>9, <1>10

(* ... and one put back is its last.                                       *)
LEMMA PutBackLast ==
  ASSUME NEW q \in Queues, NEW m \in Packet, NEW p, p = Returned(q, m), q.m_bInitialized
  PROVE  /\ p \in Queues /\ Alike(p, q)
         /\ p.m_prioMessages = q.m_prioMessages /\ p.m_hEvent = TRUE
         /\ p.m_messages = Append(q.m_messages, [msg |-> m, priority |-> 0])
         /\ SizeIsExact(q) => SizeIsExact(p)
<1>1. PICK e : e = [msg |-> m, priority |-> 0]
  OBVIOUS
<1>2. e \in PlainItem /\ e.msg = m /\ Size(m) \in Nat
  <2>1. e \in PlainItem
    BY <1>1, Items
  <2>2. e.msg = m
    BY <1>1
  <2> QED BY <2>1, <2>2, PlainItems
<1>3. PICK l : l = Append(q.m_messages, e)
  OBVIOUS
<1>4. l \in Seq(PlainItem)
  BY <1>2, <1>3, QueueFields, AppendAt
<1>5. PICK b : b = IF q.m_messages = <<>> THEN 0 ELSE q.m_iDataSize
  OBVIOUS
<1>6. b + Size(m) \in Int
  <2>1. b \in Int
    BY <1>5, QueueFields, SMT
  <2> QED BY <1>2, <2>1, SMT
<1>7. p = [q EXCEPT !.m_messages = l, !.m_iDataSize = b + Size(m), !.m_hEvent = TRUE]
  <2>1. ~(0 > 0)
    BY SMT
  <2> QED BY <1>1, <1>3, <1>5, <2>1, Zenon DEF PutIn, Returned
<1>8. p \in Queues /\ p.m_messages = l /\ p.m_iDataSize = b + Size(m) /\ p.m_hEvent = TRUE
  BY <1>2, <1>4, <1>6, <1>7, Zenon DEF Queues
<1>9. p.m_prioMessages = q.m_prioMessages /\ Alike(p, q)
  BY <1>7, Zenon DEF Queues, Alike
<1>10. ASSUME SizeIsExact(q)
       PROVE  SizeIsExact(p)
  <2>1. q.m_iDataSize = TotalSize(q.m_messages)
    BY <1>10 DEF SizeIsExact
  <2>2. TotalSize(<<>>) = 0
    BY SizeOfEmpty
  <2>3. b = q.m_iDataSize
    BY <1>5, <2>1, <2>2
  <2>4. TotalSize(l) = TotalSize(q.m_messages) + Size(m)
    BY <1>2, <1>3, QueueFields, SizeOfAppended
  <2> QED BY <1>8, <2>1, <2>3, <2>4 DEF SizeIsExact
<1> QED BY <1>1, <1>3, <1>8, <1>9, <1>10

(* A caller that asks for any message has none only if there is none; one  *)
(* that asks for priority has none if there is none of that list.  m_drain *)
(* makes no difference.                                                    *)
LEMMA WhatThereIsToGet ==
  ASSUME NEW q \in Queues, NEW priority \in {0, 1}
  PROVE  HasMessage(q, priority) <=>
           q.m_prioMessages # <<>> \/ (priority = 0 /\ q.m_messages # <<>>)
<1>1. CASE priority = 1 \/ q.m_prioMessages # <<>>
  <2>1. Candidates(q, priority) = q.m_prioMessages
    BY <1>1, SMT DEF Candidates
  <2>2. ASSUME q.m_prioMessages # <<>>
        PROVE  Last(q.m_prioMessages).priority >= priority
    <3>1. Last(q.m_prioMessages) \in PrioItem
      BY <2>2, QueueFields, FrontAt
    <3>2. Last(q.m_prioMessages).priority \in {1, 10}
      BY <3>1, Items
    <3> QED BY <3>2, SMT
  <2>3. HasMessage(q, priority) <=> q.m_prioMessages # <<>>
    BY <2>1, <2>2, Zenon DEF HasMessage
  <2>4. priority = 0 => q.m_prioMessages # <<>>
    BY <1>1, SMT
  <2> QED BY <2>3, <2>4
<1>2. CASE priority = 0 /\ q.m_prioMessages = <<>>
  <2>1. Candidates(q, priority) = q.m_messages
    BY <1>2, SMT DEF Candidates
  <2>2. ASSUME q.m_messages # <<>>
        PROVE  Last(q.m_messages).priority >= priority
    <3>1. Last(q.m_messages) \in PlainItem
      BY <2>2, QueueFields, FrontAt
    <3>2. Last(q.m_messages).priority = 0
      BY <3>1, PlainItems
    <3> QED BY <1>2, <3>2, SMT
  <2> QED BY <1>2, <2>1, <2>2, Zenon DEF HasMessage
<1> QED BY <1>1, <1>2

(* What is taken is the last of the list with priority, if it has any, ... *)
LEMMA TakenWithPriority ==
  ASSUME NEW q \in Queues, NEW priority \in {0, 1}, HasMessage(q, priority),
         q.m_prioMessages # <<>>, NEW p, p = Taken(q, priority)
  PROVE  /\ p \in Queues /\ Alike(p, q) /\ p.m_hEvent = q.m_hEvent
         /\ p.m_messages = q.m_messages /\ p.m_prioMessages = Front(q.m_prioMessages)
         /\ NextItem(q, priority) = Last(q.m_prioMessages)
         /\ SizeIsExact(q) => SizeIsExact(p)
<1>1. NextItem(q, priority) = Last(q.m_prioMessages)
  BY SMT DEF NextItem, Candidates
<1>2. /\ Last(q.m_prioMessages) \in PrioItem /\ Last(q.m_prioMessages).priority \in {1, 10}
      /\ Front(q.m_prioMessages) \in Seq(PrioItem)
  BY QueueFields, FrontAt, Items
<1>3. p = [q EXCEPT !.m_prioMessages = Front(q.m_prioMessages), !.m_iDataSize = q.m_iDataSize - 0]
  <2>1. ~(NextItem(q, priority).priority = 0)
    BY <1>1, <1>2, SMT
  <2> QED BY <2>1, Zenon DEF Taken
<1>4. /\ p \in Queues /\ p.m_prioMessages = Front(q.m_prioMessages)
      /\ p.m_iDataSize = q.m_iDataSize
  <2>1. q.m_iDataSize - 0 = q.m_iDataSize /\ q.m_iDataSize \in Int
    BY QueueFields, SMT
  <2> QED BY <1>2, <1>3, <2>1, Zenon DEF Queues
<1>5. p.m_messages = q.m_messages /\ Alike(p, q) /\ p.m_hEvent = q.m_hEvent
  BY <1>3, Zenon DEF Queues, Alike
<1> QED BY <1>1, <1>4, <1>5 DEF SizeIsExact

(* ... or else the last of the other.                                      *)
LEMMA TakenWithout ==
  ASSUME NEW q \in Queues, NEW priority \in {0, 1}, HasMessage(q, priority),
         q.m_prioMessages = <<>>, NEW p, p = Taken(q, priority)
  PROVE  /\ p \in Queues /\ Alike(p, q) /\ p.m_hEvent = q.m_hEvent
         /\ q.m_messages # <<>>
         /\ p.m_prioMessages = <<>> /\ p.m_messages = Front(q.m_messages)
         /\ NextItem(q, priority) = Last(q.m_messages)
         /\ SizeIsExact(q) => SizeIsExact(p)
<1>1. priority = 0 /\ q.m_messages # <<>>
  BY WhatThereIsToGet
<1>2. NextItem(q, priority) = Last(q.m_messages)
  BY <1>1, SMT DEF NextItem, Candidates
<1>3. /\ Last(q.m_messages) \in PlainItem /\ Last(q.m_messages).priority = 0
      /\ Front(q.m_messages) \in Seq(PlainItem) /\ Size(Last(q.m_messages).msg) \in Nat
  BY <1>1, QueueFields, FrontAt, PlainItems
<1>4. p = [q EXCEPT !.m_messages = Front(q.m_messages),
                    !.m_iDataSize = q.m_iDataSize - Size(Last(q.m_messages).msg)]
  <2>1. ~(priority > 0)
    BY <1>1, SMT
  <2> QED BY <1>2, <1>3, <2>1, Zenon DEF Taken
<1>5. /\ p \in Queues /\ p.m_messages = Front(q.m_messages)
      /\ p.m_iDataSize = q.m_iDataSize - Size(Last(q.m_messages).msg)
  <2>1. q.m_iDataSize - Size(Last(q.m_messages).msg) \in Int
    BY <1>3, QueueFields, SMT
  <2> QED BY <1>3, <1>4, <2>1, Zenon DEF Queues
<1>6. p.m_prioMessages = <<>> /\ Alike(p, q) /\ p.m_hEvent = q.m_hEvent
  BY <1>4, Zenon DEF Queues, Alike
<1>7. SizeIsExact(q) => SizeIsExact(p)
  BY <1>1, <1>5, QueueFields, SizeOfFront DEF SizeIsExact
<1> QED BY <1>1, <1>2, <1>5, <1>6, <1>7

(* What a flush leaves of a list: messages that were there, no packets.    *)
LeftOf(new, old) ==
  \A i \in 1 .. Len(new) : ~IsPacket(new[i]) /\ \E j \in 1 .. Len(old) : new[i] = old[j]

(* A flush leaves no packets, and nothing of their size.                   *)
LEMMA FlushedQueue ==
  ASSUME NEW q \in Queues, NEW p, p = FlushedOfPackets(q)
  PROVE  /\ p \in Queues /\ Alike(p, q) /\ p.m_hEvent = q.m_hEvent
         /\ SizeIsExact(p)
         /\ LeftOf(p.m_messages, q.m_messages) /\ LeftOf(p.m_prioMessages, q.m_prioMessages)
<1>1. PICK l : l = WithoutPackets(q.m_messages)
  OBVIOUS
<1>2. PICK k : k = WithoutPackets(q.m_prioMessages)
  OBVIOUS
<1>3. ASSUME NEW S, NEW old \in Seq(S), NEW new, new = WithoutPackets(old)
      PROVE  /\ new \in Seq(S)
             /\ LeftOf(new, old)
  <2>1. PICK R : R = {old[j] : j \in 1 .. Len(old)}
    OBVIOUS
  <2>2. old \in Seq(R) /\ R \subseteq S
    BY <2>1, SMT
  <2>3. new \in Seq({x \in R : ~IsPacket(x)})
    BY <1>3, <2>2, OthersAreKept
  <2>4. new \in Seq(S)
    <3>1. {x \in R : ~IsPacket(x)} \subseteq S
      BY <2>2
    <3> QED BY <2>3, <3>1, SeqMonotonic
  <2>5. \A i \in 1 .. Len(new) : new[i] \in {x \in R : ~IsPacket(x)}
    BY <2>3, ElementOfSeq
  <2>6. LeftOf(new, old)
    BY <2>1, <2>5 DEF LeftOf
  <2> QED BY <2>4, <2>6
<1>4. l \in Seq(PlainItem) /\ LeftOf(l, q.m_messages)
  BY <1>1, <1>3, QueueFields
<1>5. k \in Seq(PrioItem) /\ LeftOf(k, q.m_prioMessages)
  <2>1. q.m_prioMessages \in Seq(PrioItem)
    BY QueueFields
  <2> QED BY <1>2, <1>3, <2>1
<1>6. p = [q EXCEPT !.m_messages = l, !.m_prioMessages = k, !.m_iDataSize = 0]
  BY <1>1, <1>2, Zenon DEF FlushedOfPackets
<1>7. p \in Queues /\ p.m_messages = l /\ p.m_prioMessages = k /\ p.m_iDataSize = 0
  <2>1. 0 \in Int
    BY SMT
  <2> QED BY <2>1, <1>4, <1>5, <1>6, Zenon DEF Queues
<1>8. Alike(p, q) /\ p.m_hEvent = q.m_hEvent
  BY <1>6, Zenon DEF Queues, Alike
<1>9. TotalSize(l) = 0
  <2>1. \A i \in 1 .. Len(l) : ~IsPacket(l[i])
    BY <1>4 DEF LeftOf
  <2> QED BY <1>4, <2>1, SizeOfOthers
<1> QED BY <1>4, <1>5, <1>7, <1>8, <1>9 DEF SizeIsExact

-----------------------------------------------------------------------------
(* Steps                                                                   *)

(* What a stream player has to do with: its queue, its hands, its decoder. *)
LEMMA StreamTypes ==
  ASSUME TypeInv, NEW s \in Stream
  PROVE  /\ queue[s] \in Queues
         /\ Plain(s) \in Seq(PlainItem) /\ Prio(s) \in Seq(PrioItem)
         /\ pMsg[s] \in Message \cup {NoMessage}
         /\ codec[s] \in SUBSET Nat /\ m_packets[s] \in Seq(Packet)
         /\ decoded[s] \in SUBSET Nat /\ putBack[s] \in SUBSET Nat /\ sent[s] \in Nat
         /\ Newest \in Nat
<1>1. queue[s] \in Queues
  BY DEF TypeInv
<1>2. Plain(s) \in Seq(PlainItem) /\ Prio(s) \in Seq(PrioItem)
  BY <1>1, QueueFields DEF Plain, Prio
<1>3. /\ pMsg[s] \in Message \cup {NoMessage}
      /\ codec[s] \in SUBSET Nat /\ m_packets[s] \in Seq(Packet)
      /\ decoded[s] \in SUBSET Nat /\ putBack[s] \in SUBSET Nat /\ sent[s] \in Nat
  BY DEF TypeInv
<1>4. Newest \in Nat
  BY LenProperties DEF TypeInv, Newest
<1> QED BY <1>1, <1>2, <1>3, <1>4

(* Nothing happens to what a stream has in its lists, hands and decoder.   *)
MessagesKept(s) ==
  /\ Plain(s)' = Plain(s) /\ Prio(s)' = Prio(s)
  /\ queue'[s].m_iDataSize = queue[s].m_iDataSize
  /\ queue'[s].m_bInitialized = queue[s].m_bInitialized
  /\ pMsg'[s] = pMsg[s] /\ codec'[s] = codec[s] /\ m_packets'[s] = m_packets[s]
  /\ decoded'[s] = decoded[s] /\ putBack'[s] = putBack[s] /\ sent'[s] = sent[s]

(* What is in its hands and remembered depends on nothing else.            *)
LEMMA PlacesKept ==
  ASSUME NEW s \in Stream
  PROVE  /\ pMsg'[s] = pMsg[s] => InHands(s)' = InHands(s)
         /\ m_packets'[s] = m_packets[s] => Kept(s)' = Kept(s)
  BY Zenon DEF InHands, HasPacket, Kept

(* Then what is said of them still holds, ...                              *)
LEMMA MessagesKeptStatic ==
  ASSUME NEW s \in Stream, MessagesKept(s), syncs' = syncs, KnownInv(s), PacketInv(s), ExactInv(s)
  PROVE  KnownInv(s)' /\ PacketInv(s)' /\ ExactInv(s)'
<1>1. KnownInv(s)'
  BY Zenon DEF MessagesKept, KnownInv, Known, Newest
<1>2. PacketInv(s)'
  <2>1. InHands(s)' = InHands(s) /\ Kept(s)' = Kept(s)
    BY PlacesKept DEF MessagesKept
  <2> QED BY <2>1, Zenon DEF MessagesKept, PacketInv, IsFlush
<1>3. ExactInv(s)'
  BY Zenon DEF MessagesKept, ExactInv, SizeIsExact, Plain
<1> QED BY <1>1, <1>2, <1>3

(* ... unless the thread begins or ends, or the decoder recovers, ...      *)
LEMMA DecoderKept ==
  ASSUME NEW s \in Stream, MessagesKept(s), DecoderInv(s),
         thread[s] = "recover" <=> thread'[s] = "recover",
         thread[s] = "none" => thread'[s] = "none"
  PROVE  DecoderInv(s)'
<1>1. InHands(s)' = InHands(s) /\ Kept(s)' = Kept(s)
  BY PlacesKept DEF MessagesKept
<1>2. thread'[s] \notin {"none", "recover"} => thread[s] \notin {"none", "recover"}
  OBVIOUS
<1> QED BY <1>1, <1>2, Zenon DEF MessagesKept, DecoderInv

(* ... and the phases of a flush and of a drain too, while the player's    *)
(* thread stays where it is.                                               *)
LEMMA MessagesKeptPhase ==
  ASSUME NEW s \in Stream, MessagesKept(s), UNCHANGED <<syncs, pc, target>>,
         FlushInv(s), MeetInv(s), DrainInv(s)
  PROVE  FlushInv(s)' /\ MeetInv(s)' /\ DrainInv(s)'
<1>a. InHands(s)' = InHands(s) /\ Kept(s)' = Kept(s) /\ Open(s)' = Open(s)
  BY PlacesKept DEF MessagesKept, Open
<1>1. FlushInv(s)'
  BY <1>a, Zenon DEF MessagesKept, FlushInv, Emptied, Told, FlushPending
<1>2. MeetInv(s)'
  BY <1>a, Zenon DEF MessagesKept, MeetInv, Invited, AskedNext, FlushPending, Holds, Newest
<1>3. DrainInv(s)'
  BY <1>a, Zenon DEF MessagesKept, DrainInv, AllHad, Met, Holds, Newest
<1> QED BY <1>1, <1>2, <1>3

(* A stream nobody touches.                                                *)
Untouched(s) ==
  /\ queue'[s] = queue[s] /\ thread'[s] = thread[s]
  /\ pMsg'[s] = pMsg[s] /\ onlyPrioMsgs'[s] = onlyPrioMsgs[s] /\ m_paused'[s] = m_paused[s]
  /\ codec'[s] = codec[s] /\ m_packets'[s] = m_packets[s] /\ decoded'[s] = decoded[s]
  /\ putBack'[s] = putBack[s] /\ sent'[s] = sent[s]

(* Its messages are kept, and its thread is where it was.                  *)
LEMMA UntouchedStatic ==
  ASSUME NEW s \in Stream, Untouched(s), syncs' = syncs, StreamInv(s)
  PROVE  /\ MessagesKept(s)
         /\ HandsInv(s)' /\ ClosedInv(s)' /\ KnownInv(s)' /\ PacketInv(s)' /\ DecoderInv(s)'
         /\ AwakeInv(s)' /\ ExactInv(s)'
<1>1. MessagesKept(s)
  BY DEF Untouched, MessagesKept, Plain, Prio
<1>2. HandsInv(s)'
  BY Zenon DEF Untouched, StreamInv, HandsInv
<1>3. ClosedInv(s)'
  BY Zenon DEF Untouched, StreamInv, ClosedInv, Open, Plain, Prio
<1>4. AwakeInv(s)'
  BY Zenon DEF Untouched, StreamInv, AwakeInv, Plain, Prio
<1>5. KnownInv(s)' /\ PacketInv(s)' /\ ExactInv(s)'
  BY <1>1, MessagesKeptStatic DEF StreamInv
<1>6. DecoderInv(s)'
  BY <1>1, DecoderKept DEF StreamInv, Untouched
<1> QED BY <1>1, <1>2, <1>3, <1>4, <1>5, <1>6

(* While the player's thread stays where it is, all of its invariant holds.*)
LEMMA UntouchedKept ==
  ASSUME NEW s \in Stream, Untouched(s), UNCHANGED <<syncs, pc, target>>, StreamInv(s)
  PROVE  StreamInv(s)'
<1>1. /\ MessagesKept(s)
      /\ HandsInv(s)' /\ ClosedInv(s)' /\ KnownInv(s)' /\ PacketInv(s)' /\ DecoderInv(s)'
      /\ AwakeInv(s)' /\ ExactInv(s)'
  BY UntouchedStatic
<1>2. FlushInv(s)' /\ MeetInv(s)' /\ DrainInv(s)'
  BY <1>1, MessagesKeptPhase DEF StreamInv
<1> QED BY <1>1, <1>2 DEF StreamInv

(* Where no flush and no drain is at work, nothing is said of them.        *)
LEMMA NoPhase ==
  ASSUME NEW s \in Stream,
         pc' \notin {"flush", "tell", "ask", "meet", "flushed", "draining", "drained"}
  PROVE  FlushInv(s)' /\ MeetInv(s)' /\ DrainInv(s)'
<1>1. FlushInv(s)'
  BY DEF FlushInv, Emptied, Told
<1>2. MeetInv(s)'
  BY DEF MeetInv, Invited, AskedNext
<1>3. DrainInv(s)'
  BY DEF DrainInv
<1> QED BY <1>1, <1>2, <1>3

(* What the player's thread has announced stays so while a stream player   *)
(* does something, and while nobody closes a queue.                        *)
LEMMA MainKept ==
  ASSUME MainInv, UNCHANGED <<syncs, pc, target, m_bAbortRequest>>,
         \A s \in Stream : queue'[s].m_bInitialized = queue[s].m_bInitialized, target \in Stream
  PROVE  MainInv'
  BY Zenon DEF MainInv, Met, Newest, Open

-----------------------------------------------------------------------------
(* A stream player                                                         *)

(* A step of a stream player keeps the invariant if it keeps it for its    *)
(* own stream.                                                             *)
LEMMA PlayerFrame ==
  ASSUME SInv, NEW s \in Stream, TypeInv',
         \A t \in Stream \ {s} : Untouched(t),
         UNCHANGED <<syncs, pc, target, m_bAbortRequest>>,
         queue'[s].m_bInitialized = queue[s].m_bInitialized,
         StreamInv(s)'
  PROVE  SInv'
<1>1. \A t \in Stream : StreamInv(t)'
  BY UntouchedKept DEF SInv
<1>2. MainInv'
  <2>1. \A t \in Stream : queue'[t].m_bInitialized = queue[t].m_bInitialized
    BY DEF Untouched
  <2> QED BY <2>1, MainKept DEF SInv, TypeInv
<1> QED BY <1>1, <1>2 DEF SInv

(* A player that leaves Process() is not in the middle of anything.        *)
LEMMA ExitKeeps ==
  ASSUME SInv, NEW s \in Stream, Exit(s)
  PROVE  SInv'
<1>1. /\ \A t \in Stream \ {s} : Untouched(t)
      /\ UNCHANGED <<syncs, pc, target, m_bAbortRequest>>
  BY SMT DEF Exit, SInv, TypeInv, Untouched, decoderVars, mainVars, appVars
<1>2. TypeInv'
  BY SMT DEF Exit, SInv, TypeInv, decoderVars, mainVars, appVars
<1>3. thread'[s] = "none" /\ thread[s] = "get"
  BY SMT DEF Exit, SInv, TypeInv
<1>4. MessagesKept(s)
  BY Zenon DEF Exit, MessagesKept, Plain, Prio, mainVars, decoderVars
<1>5. StreamInv(s)
  BY DEF SInv
<1>6. KnownInv(s)' /\ PacketInv(s)' /\ ExactInv(s)' /\ FlushInv(s)' /\ MeetInv(s)' /\ DrainInv(s)'
  BY <1>1, <1>4, <1>5, MessagesKeptStatic, MessagesKeptPhase DEF StreamInv
<1>a. DecoderInv(s)'
  <2>1. DecoderInv(s)
    BY <1>5 DEF StreamInv
  <2> QED BY <1>3, <1>4, <2>1, DecoderKept
<1>7. HandsInv(s)'
  <2>1. pMsg[s] = NoMessage
    BY <1>3, <1>5 DEF StreamInv, HandsInv
  <2> QED BY <1>3, <1>4, <2>1 DEF HandsInv, MessagesKept
<1>8. ClosedInv(s)'
  BY <1>3, <1>4, <1>5 DEF StreamInv, ClosedInv, MessagesKept, Open
<1>9. AwakeInv(s)'
  BY <1>3 DEF AwakeInv
<1>10. StreamInv(s)'
  BY <1>6, <1>a, <1>7, <1>8, <1>9 DEF StreamInv
<1> QED BY <1>1, <1>2, <1>4, <1>10, PlayerFrame DEF MessagesKept

(* Get() goes to sleep: the event is cleared since there is nothing to get.*)
LEMMA GetWaitsKeeps ==
  ASSUME SInv, NEW s \in Stream, GetWaits(s)
  PROVE  SInv'
<1>0. queue[s] \in Queues /\ queue \in [Stream -> Queues] /\ StreamInv(s)
  BY DEF SInv, TypeInv
<1>1. /\ \A t \in Stream \ {s} : Untouched(t)
      /\ UNCHANGED <<syncs, pc, target, m_bAbortRequest>>
  BY SMT DEF GetWaits, SInv, TypeInv, Untouched, decoderVars, mainVars, appVars
<1>2. queue'[s] = [queue[s] EXCEPT !.m_hEvent = FALSE]
  BY <1>0, Zenon DEF GetWaits
<1>3. queue'[s] \in Queues
  BY <1>0, <1>2, Zenon DEF Queues
<1>4. TypeInv'
  <2>1. queue' \in [Stream -> Queues]
    BY <1>0, <1>3, Zenon DEF GetWaits
  <2> QED BY <2>1, SMT DEF GetWaits, SInv, TypeInv, decoderVars, mainVars, appVars
<1>5. thread'[s] = "wait" /\ thread[s] = "get"
  BY SMT DEF GetWaits, SInv, TypeInv
<1>6. MessagesKept(s) /\ queue'[s].m_bAbortRequest = queue[s].m_bAbortRequest
  <2>1. Plain(s)' = Plain(s) /\ Prio(s)' = Prio(s)
    BY <1>0, <1>2, Zenon DEF Queues, Plain, Prio
  <2>2. /\ queue'[s].m_iDataSize = queue[s].m_iDataSize
        /\ queue'[s].m_bInitialized = queue[s].m_bInitialized
        /\ queue'[s].m_bAbortRequest = queue[s].m_bAbortRequest
    BY <1>0, <1>2, Zenon DEF Queues
  <2> QED BY <2>1, <2>2, Zenon DEF GetWaits, MessagesKept, mainVars, decoderVars
<1>7. KnownInv(s)' /\ PacketInv(s)' /\ ExactInv(s)' /\ FlushInv(s)' /\ MeetInv(s)' /\ DrainInv(s)'
  BY <1>0, <1>1, <1>6, MessagesKeptStatic, MessagesKeptPhase DEF StreamInv
<1>a. DecoderInv(s)'
  <2>1. DecoderInv(s)
    BY <1>0 DEF StreamInv
  <2> QED BY <1>5, <1>6, <2>1, DecoderKept
<1>8. HandsInv(s)'
  <2>1. pMsg[s] = NoMessage
    BY <1>5, <1>0 DEF StreamInv, HandsInv
  <2> QED BY <1>5, <1>6, <2>1 DEF HandsInv, MessagesKept
<1>9. ClosedInv(s)'
  <2>1. Open(s)
    BY <1>5, <1>0 DEF StreamInv, ClosedInv
  <2> QED BY <2>1, <1>6 DEF ClosedInv, MessagesKept, Open
<1>10. AwakeInv(s)'
  <2>1. Priority(s) \in {0, 1} /\ (Priority(s) = 1 <=> onlyPrioMsgs[s] \/ m_paused[s])
    BY SMT DEF Priority
  <2>2. ~HasMessage(queue[s], Priority(s)) /\ ~queue[s].m_bAbortRequest
    BY DEF GetWaits, Leaves
  <2>3. Prio(s) = <<>> /\ (onlyPrioMsgs[s] \/ m_paused[s] \/ Plain(s) = <<>>)
    BY <1>0, <2>1, <2>2, WhatThereIsToGet, SMT DEF Prio, Plain
  <2>4. onlyPrioMsgs' = onlyPrioMsgs /\ m_paused' = m_paused
    BY DEF GetWaits
  <2> QED BY <1>6, <2>2, <2>3, <2>4 DEF AwakeInv, MessagesKept
<1>11. StreamInv(s)'
  BY <1>7, <1>a, <1>8, <1>9, <1>10 DEF StreamInv
<1> QED BY <1>1, <1>4, <1>6, <1>11, PlayerFrame DEF MessagesKept

(* Get() looks again, or returns without a message; then the decoder may   *)
(* have lost its state.                                                    *)
LEMMA GetWakesKeeps ==
  ASSUME SInv, NEW s \in Stream, GetWakes(s)
  PROVE  SInv'
<1>0. \E there \in {"get", "recover"} : thread' = [thread EXCEPT ![s] = there]
  BY DEF GetWakes, DecoderGoesOn, DecoderFlushed
<1>a. \/ UNCHANGED onlyPrioMsgs
      \/ \E more \in BOOLEAN : onlyPrioMsgs' = [onlyPrioMsgs EXCEPT ![s] = more]
  BY DEF GetWakes, DecoderGoesOn, DecoderFlushed
<1>b. UNCHANGED <<queue, m_bStop, pMsg, m_paused, decoderVars, mainVars, syncs, appVars>>
  BY DEF GetWakes
<1>c. /\ onlyPrioMsgs' \in [Stream -> BOOLEAN]
      /\ \A t \in Stream \ {s} : onlyPrioMsgs'[t] = onlyPrioMsgs[t]
  <2>1. onlyPrioMsgs \in [Stream -> BOOLEAN]
    BY DEF SInv, TypeInv
  <2> QED BY <1>a, <2>1, SMT
<1>e. /\ thread' \in [Stream -> {"none", "get", "wait", "have", "sync", "recover"}]
      /\ \A t \in Stream \ {s} : thread'[t] = thread[t]
  <2>1. thread \in [Stream -> {"none", "get", "wait", "have", "sync", "recover"}]
    BY DEF SInv, TypeInv
  <2> QED BY <1>0, <2>1, SMT
<1>1. /\ \A t \in Stream \ {s} : Untouched(t)
      /\ UNCHANGED <<syncs, pc, target, m_bAbortRequest>>
  BY <1>b, <1>c, <1>e, SMT DEF SInv, TypeInv, Untouched, decoderVars, mainVars, appVars
<1>2. TypeInv'
  BY <1>b, <1>c, <1>e, Zenon DEF SInv, TypeInv, decoderVars, mainVars, appVars
<1>3. thread'[s] \in {"get", "recover"} /\ thread[s] = "wait"
  BY <1>0, SMT DEF GetWakes, SInv, TypeInv
<1>4. MessagesKept(s)
  BY <1>b, Zenon DEF MessagesKept, Plain, Prio, decoderVars, mainVars
<1>5. StreamInv(s)
  BY DEF SInv
<1>6. KnownInv(s)' /\ PacketInv(s)' /\ ExactInv(s)' /\ FlushInv(s)' /\ MeetInv(s)' /\ DrainInv(s)'
  BY <1>1, <1>4, <1>5, MessagesKeptStatic, MessagesKeptPhase DEF StreamInv
<1>d. DecoderInv(s)'
  <2>1. CASE thread'[s] = "get"
    <3>1. DecoderInv(s)
      BY <1>5 DEF StreamInv
    <3> QED BY <1>3, <1>4, <2>1, <3>1, DecoderKept
  <2>2. CASE thread'[s] = "recover"
    <3>1. /\ Kept(s) \subseteq codec[s]
          /\ codec[s] \cap (PacketsIn(Plain(s)) \cup PacketsIn(Prio(s)) \cup InHands(s)) = {}
      BY <1>3, <1>5 DEF StreamInv, DecoderInv
    <3>2. Kept(s)' = Kept(s) /\ Plain(s)' = Plain(s) /\ Prio(s)' = Prio(s)
      BY <1>4, PlacesKept DEF MessagesKept
    <3>3. (Kept(s) \cap (PacketsIn(Plain(s)) \cup PacketsIn(Prio(s))))' = {}
      BY <3>1, <3>2
    <3> QED BY <2>2, <3>3 DEF DecoderInv
  <2> QED BY <1>3, <2>1, <2>2
<1>7. HandsInv(s)'
  <2>1. pMsg[s] = NoMessage
    BY <1>3, <1>5 DEF StreamInv, HandsInv
  <2>2. thread'[s] \notin {"have", "sync"}
    BY <1>3
  <2> QED BY <1>4, <2>1, <2>2 DEF HandsInv, MessagesKept
<1>8. ClosedInv(s)'
  <2>1. Open(s)
    BY <1>3, <1>5 DEF StreamInv, ClosedInv
  <2> QED BY <1>4, <2>1 DEF ClosedInv, MessagesKept, Open
<1>9. AwakeInv(s)'
  BY <1>3 DEF AwakeInv
<1>10. StreamInv(s)'
  BY <1>6, <1>d, <1>7, <1>8, <1>9 DEF StreamInv
<1> QED BY <1>1, <1>2, <1>4, <1>10, PlayerFrame DEF MessagesKept

(* A flush that invites has told, and one that has told has emptied.       *)
LEMMA Phases ==
  ASSUME NEW s \in Stream
  PROVE  /\ Invited(s) => Told(s)
         /\ Told(s) => Emptied(s)
         /\ AskedNext(s) => Told(s)
  BY Zenon DEF Invited, Told, Emptied, AskedNext

(* A player that takes a message of priority out of its queue: it is the   *)
(* one that has been there longest.                                        *)
LEMMA GetPrioKeeps ==
  ASSUME SInv, NEW s \in Stream, GetMessage(s), Prio(s) # <<>>,
         UNCHANGED <<syncs, pc, target, m_bAbortRequest>>
  PROVE  /\ queue'[s] \in Queues /\ queue'[s].m_bInitialized = queue[s].m_bInitialized
         /\ pMsg'[s] \in Message
         /\ StreamInv(s)'
<1>0. TypeInv /\ StreamInv(s) /\ queue[s] \in Queues /\ queue \in [Stream -> Queues]
  BY DEF SInv, TypeInv
<1>1. Priority(s) \in {0, 1}
  BY SMT DEF Priority
<1>2. queue'[s] = Taken(queue[s], Priority(s)) /\ HasMessage(queue[s], Priority(s))
  BY <1>0, Zenon DEF GetMessage
<1>3. /\ queue'[s] \in Queues /\ Alike(queue'[s], queue[s])
      /\ Plain(s)' = Plain(s) /\ Prio(s)' = Front(Prio(s))
      /\ NextItem(queue[s], Priority(s)) = Last(Prio(s))
      /\ ExactInv(s)'
  BY <1>0, <1>1, <1>2, TakenWithPriority DEF Plain, Prio, ExactInv, StreamInv
<1>4. PICK n : n = Len(Prio(s))
  OBVIOUS
<1>5. /\ n \in Nat /\ n > 0 /\ Len(Prio(s)') = n - 1 /\ Last(Prio(s)) = Prio(s)[n]
      /\ Prio(s)[n] \in PrioItem
      /\ \A i \in 1 .. n - 1 : Prio(s)'[i] = Prio(s)[i]
  BY <1>0, <1>3, <1>4, StreamTypes, FrontAt
<1>6. PICK m : m = Prio(s)[n].msg
  OBVIOUS
<1>7. m \in Message /\ m # NoMessage /\ (m.kind = "packet" <=> IsPacket(Prio(s)[n]))
  <2>1. m \in Message
    BY <1>5, <1>6, Items
  <2> QED BY <1>6, <2>1, KindOf DEF IsPacket
<1>8. pMsg'[s] = m /\ pMsg[s] = NoMessage /\ thread'[s] = "have" /\ thread[s] = "get"
  <2>1. thread'[s] = "have" /\ thread[s] = "get"
    BY <1>0, SMT DEF GetMessage, TypeInv
  <2>2. pMsg'[s] = m
    BY <1>0, <1>3, <1>5, <1>6, Zenon DEF GetMessage, TypeInv
  <2>3. pMsg[s] = NoMessage
    BY <1>0, <2>1 DEF StreamInv, HandsInv
  <2> QED BY <2>1, <2>2, <2>3
<1>9. /\ codec' = codec /\ m_packets' = m_packets /\ decoded' = decoded /\ putBack' = putBack /\ sent' = sent
      /\ Newest' = Newest /\ Open(s)' = Open(s) /\ Open(s)
  <2>1. Open(s)
    BY <1>0, <1>8 DEF StreamInv, ClosedInv
  <2> QED BY <1>3, <2>1, Zenon DEF GetMessage, decoderVars, mainVars, Newest, Open, Alike
<1>10. HandsInv(s)'
  BY <1>7, <1>8 DEF HandsInv
<1>11. ClosedInv(s)'
  BY <1>9 DEF ClosedInv
<1>12. KnownInv(s)'
  <2>1. Known(m, Newest)
    BY <1>0, <1>4, <1>5, <1>6, SMT DEF StreamInv, KnownInv
  <2>2. \A i \in 1 .. n - 1 : Known(Prio(s)'[i].msg, Newest)
    BY <1>0, <1>4, <1>5, SMT DEF StreamInv, KnownInv
  <2> QED BY <1>0, <1>3, <1>5, <1>8, <1>9, <2>1, <2>2 DEF StreamInv, KnownInv
<1>a. /\ PacketsIn(Prio(s)) = PacketsIn(Prio(s)') \cup InHands(s)'
      /\ PacketsIn(Prio(s)') \cap InHands(s)' = {} /\ PacketsLast(Prio(s)')
      /\ ~IsPacket(Prio(s)[n]) => PacketsIn(Prio(s)') = {}
      /\ Kept(s)' = Kept(s) /\ InHands(s) = {}
  <2>1. Inserted(Prio(s), Prio(s)', Prio(s)[n], Len(Prio(s)))
    BY <1>0, <1>3, <1>5, StreamTypes, InsertedAtEnds
  <2>2. InHands(s)' = PacketOf(Prio(s)[n])
    BY <1>6, <1>7, <1>8 DEF InHands, HasPacket, PacketOf
  <2>3. PacketsIn(Prio(s)) = PacketsIn(Prio(s)') \cup PacketOf(Prio(s)[n])
    BY <2>1, PacketsInserted
  <2>4. PacketsLast(Prio(s))
    BY <1>0 DEF StreamInv, PacketInv
  <2>5. /\ PacketsLast(Prio(s)')
        /\ IsPacket(Prio(s)[n]) => Prio(s)[n].msg.n \notin PacketsIn(Prio(s)')
        /\ ~IsPacket(Prio(s)[n]) => PacketsIn(Prio(s)') = {}
    BY <2>1, <2>4, PacketsLastWithout
  <2>6. Kept(s)' = Kept(s) /\ InHands(s) = {}
    BY <1>8, <1>9, Kinds DEF Kept, InHands, HasPacket
  <2> QED BY <2>2, <2>3, <2>5, <2>6 DEF PacketOf
<1>13. PacketInv(s)'
  <2>1. IsFlush(m) => ~IsPacket(Prio(s)[n])
    BY <1>7 DEF IsFlush
  <2>2. PacketInv(s)
    BY <1>0 DEF StreamInv
  <2>3. InHands(s)' \subseteq decoded[s] /\ decoded[s] \subseteq 1 .. sent[s]
    BY <1>a, <2>2 DEF PacketInv
  <2>4. InHands(s)' \cap (PacketsIn(Plain(s)) \cup PacketsIn(Prio(s)')) = {}
    BY <1>a, <2>2 DEF PacketInv
  <2>5. InHands(s)' \ decoded[s] = {}
    BY <2>3
  <2> QED BY <1>3, <1>8, <1>9, <1>a, <2>1, <2>2, <2>3, <2>4, <2>5 DEF PacketInv
<1>b. DecoderInv(s)'
  <2>1. /\ Kept(s) \subseteq codec[s]
        /\ codec[s] \cap (PacketsIn(Plain(s)) \cup PacketsIn(Prio(s)) \cup InHands(s)) = {}
    BY <1>0, <1>8 DEF StreamInv, DecoderInv
  <2>2. codec[s] \cap (PacketsIn(Plain(s)) \cup PacketsIn(Prio(s)') \cup InHands(s)') = {}
    BY <1>a, <2>1
  <2> QED BY <1>3, <1>8, <1>9, <1>a, <2>1, <2>2 DEF DecoderInv
<1>14. FlushPending(s) => FlushPending(s)'
  <2>1. ASSUME NEW i \in 1 .. n, IsFlush(Prio(s)[i].msg)
        PROVE  FlushPending(s)'
    <3>1. CASE i = n
      BY <1>6, <1>8, <2>1, <3>1 DEF FlushPending
    <3>2. CASE i \in 1 .. n - 1
      BY <1>5, <2>1, <3>2 DEF FlushPending
    <3> QED BY <1>5, <3>1, <3>2, SMT
  <2> QED BY <1>4, <1>8, <2>1, Kinds DEF FlushPending, IsFlush
<1>15. FlushInv(s)'
  <2>1. ASSUME Told(s), ~FlushPending(s)'
        PROVE  codec[s] \cup Kept(s) \cup PacketsIn(Prio(s)') \cup InHands(s)' \subseteq putBack[s]
    <3>1. codec[s] \cup Kept(s) \cup PacketsIn(Prio(s)) \cup InHands(s) \subseteq putBack[s]
      BY <1>0, <1>9, <1>14, <2>1 DEF StreamInv, FlushInv
    <3> QED BY <1>a, <3>1
  <2>2. Emptied(s) => PacketsIn(Plain(s)) \subseteq putBack[s]
    BY <1>0 DEF StreamInv, FlushInv
  <2> QED BY <1>3, <1>9, <1>a, <2>1, <2>2, Zenon DEF FlushInv, Emptied, Told
<1>16. MeetInv(s)'
  <2>1. ASSUME Invited(s)
        PROVE  /\ \A i \in 1 .. Len(Plain(s)') : Plain(s)'[i].msg # Sync(Newest)
               /\ \A i, j \in 1 .. Len(Prio(s)') :
                    Prio(s)'[i].msg = Sync(Newest) /\ IsFlush(Prio(s)'[j].msg) => i < j
               /\ pMsg'[s] = Sync(Newest) \/ s \in syncs[Newest].reached => ~FlushPending(s)'
               /\ s \in syncs[Newest].reached \/ Holds(s, Sync(Newest))'
    <3>1. \A i \in 1 .. Len(Plain(s)') : Plain(s)'[i].msg # Sync(Newest)
      BY <1>0, <1>3, <2>1 DEF StreamInv, MeetInv
    <3>2. \A i, j \in 1 .. n :
            Prio(s)[i].msg = Sync(Newest) /\ IsFlush(Prio(s)[j].msg) => i < j
      BY <1>0, <1>4, <2>1 DEF StreamInv, MeetInv
    <3>3. \A i, j \in 1 .. Len(Prio(s)') :
            Prio(s)'[i].msg = Sync(Newest) /\ IsFlush(Prio(s)'[j].msg) => i < j
      BY <1>5, <3>2, SMT
    <3>4. ASSUME m = Sync(Newest)
          PROVE  ~FlushPending(s)'
      <4>0. n \in 1 .. n
        BY <1>5, SMT
      <4>a. \A j \in 1 .. n : IsFlush(Prio(s)[j].msg) => n < j
        BY <1>6, <3>2, <3>4, <4>0
      <4>1. \A j \in 1 .. n : ~IsFlush(Prio(s)[j].msg)
        BY <1>5, <4>a, SMT
      <4>2. ~IsFlush(m)
        BY <1>5, <1>6, <4>1, SMT
      <4> QED BY <1>5, <1>8, <4>1, <4>2, SMT DEF FlushPending
    <3>5. ASSUME s \in syncs[Newest].reached
          PROVE  ~FlushPending(s)'
      <4>1. \A j \in 1 .. n : ~IsFlush(Prio(s)[j].msg)
        BY <1>0, <1>4, <2>1, <3>5 DEF StreamInv, MeetInv, FlushPending
      <4>2. ~IsFlush(m)
        BY <1>5, <1>6, <4>1, SMT
      <4> QED BY <1>5, <1>8, <4>1, <4>2, SMT DEF FlushPending
    <3>6. s \in syncs[Newest].reached \/ Holds(s, Sync(Newest))
      BY <1>0, <1>9, <2>1 DEF StreamInv, MeetInv
    <3>7. ASSUME NEW i \in 1 .. n, Prio(s)[i].msg = Sync(Newest)
          PROVE  Holds(s, Sync(Newest))'
      <4>1. CASE i = n
        BY <1>6, <1>8, <1>9, <3>7, <4>1 DEF Holds
      <4>2. CASE i \in 1 .. n - 1
        BY <1>5, <1>9, <3>7, <4>2 DEF Holds
      <4> QED BY <1>5, <4>1, <4>2, SMT
    <3>8. pMsg[s] # Sync(Newest)
      BY <1>8, SMT DEF NoMessage, Sync
    <3> QED BY <1>4, <1>8, <3>1, <3>3, <3>4, <3>5, <3>6, <3>7, <3>8, <1>3, Zenon DEF Holds
  <2>2. ASSUME AskedNext(s)
        PROVE  ~Holds(s, Sync(Newest))' /\ s \notin syncs[Newest].reached
    <3>1. ~Holds(s, Sync(Newest)) /\ s \notin syncs[Newest].reached
      BY <1>0, <2>2 DEF StreamInv, MeetInv
    <3>2. \A i \in 1 .. n : Prio(s)[i].msg # Sync(Newest)
      BY <1>4, <3>1 DEF Holds
    <3>3. m # Sync(Newest) /\ \A i \in 1 .. n - 1 : Prio(s)'[i].msg # Sync(Newest)
      BY <1>5, <1>6, <3>2, SMT
    <3> QED BY <1>3, <1>5, <1>8, <1>9, <3>1, <3>3, Zenon DEF Holds
  <2> QED BY <1>9, <2>1, <2>2, Zenon DEF MeetInv, Invited, AskedNext
<1>17. DrainInv(s)'
  <2>0. AllHad(s) => AllHad(s)'
    <3>1. InHands(s)' \subseteq decoded[s]
      BY <1>0, <1>a DEF StreamInv, PacketInv
    <3> QED BY <1>3, <1>9, <3>1 DEF AllHad
  <2>1. ASSUME pc = "draining", s = target
        PROVE  /\ \A i \in 1 .. Len(Prio(s)') : Prio(s)'[i].msg # Sync(Newest)
               /\ pMsg'[s] # Sync(Newest)
               /\ Met(Newest) \/ Holds(s, Sync(Newest))'
    <3>1. /\ \A i \in 1 .. n : Prio(s)[i].msg # Sync(Newest)
          /\ Met(Newest) \/ Holds(s, Sync(Newest))
      BY <1>0, <1>4, <2>1 DEF StreamInv, DrainInv
    <3>2. m # Sync(Newest) /\ \A i \in 1 .. n - 1 : Prio(s)'[i].msg # Sync(Newest)
      BY <1>5, <1>6, <3>1, SMT
    <3>3. pMsg[s] # Sync(Newest)
      BY <1>8, SMT DEF NoMessage, Sync
    <3> QED BY <1>3, <1>4, <1>5, <1>8, <1>9, <3>1, <3>2, <3>3, Zenon DEF Holds
  <2>2. ASSUME pc = "draining", s # target
        PROVE  ~Holds(s, Sync(Newest))'
    <3>1. ~Holds(s, Sync(Newest))
      BY <1>0, <2>2 DEF StreamInv, DrainInv
    <3>2. \A i \in 1 .. n : Prio(s)[i].msg # Sync(Newest)
      BY <1>4, <3>1 DEF Holds
    <3>3. m # Sync(Newest) /\ \A i \in 1 .. n - 1 : Prio(s)'[i].msg # Sync(Newest)
      BY <1>5, <1>6, <3>2, SMT
    <3> QED BY <1>3, <1>5, <1>8, <1>9, <3>1, <3>3, Zenon DEF Holds
  <2> QED BY <1>0, <1>3, <1>9, <2>0, <2>1, <2>2, Zenon DEF StreamInv, DrainInv, Met
<1>18. AwakeInv(s)'
  BY <1>8 DEF AwakeInv
<1> QED BY <1>3, <1>7, <1>8, <1>10, <1>11, <1>12, <1>13, <1>b, <1>15, <1>16, <1>17, <1>18
        DEF StreamInv, Alike

(* One that takes a packet or a marker: there is nothing else to see to.   *)
LEMMA GetPlainKeeps ==
  ASSUME SInv, NEW s \in Stream, GetMessage(s), Prio(s) = <<>>,
         UNCHANGED <<syncs, pc, target, m_bAbortRequest>>
  PROVE  /\ queue'[s] \in Queues /\ queue'[s].m_bInitialized = queue[s].m_bInitialized
         /\ pMsg'[s] \in Message
         /\ StreamInv(s)'
<1>0. TypeInv /\ StreamInv(s) /\ queue[s] \in Queues /\ queue \in [Stream -> Queues]
  BY DEF SInv, TypeInv
<1>1. Priority(s) \in {0, 1}
  BY SMT DEF Priority
<1>2. queue'[s] = Taken(queue[s], Priority(s)) /\ HasMessage(queue[s], Priority(s))
  BY <1>0, Zenon DEF GetMessage
<1>3. /\ queue'[s] \in Queues /\ Alike(queue'[s], queue[s])
      /\ Plain(s) # <<>> /\ Plain(s)' = Front(Plain(s)) /\ Prio(s)' = <<>>
      /\ NextItem(queue[s], Priority(s)) = Last(Plain(s))
      /\ ExactInv(s)'
  BY <1>0, <1>1, <1>2, TakenWithout DEF Plain, Prio, ExactInv, StreamInv
<1>4. PICK n : n = Len(Plain(s))
  OBVIOUS
<1>5. /\ n \in Nat /\ n > 0 /\ Len(Plain(s)') = n - 1 /\ Last(Plain(s)) = Plain(s)[n]
      /\ Plain(s)[n] \in PlainItem
      /\ \A i \in 1 .. n - 1 : Plain(s)'[i] = Plain(s)[i]
  <2>1. PICK l : l = Plain(s)
    OBVIOUS
  <2>2. l \in Seq(PlainItem) /\ l # <<>>
    BY <1>0, <1>3, <2>1, StreamTypes
  <2>3. PICK f : f = Front(l)
    OBVIOUS
  <2>4. /\ Len(l) \in Nat /\ Len(l) > 0 /\ Len(f) = Len(l) - 1
        /\ Last(l) = l[Len(l)] /\ Last(l) \in PlainItem
        /\ \A i \in 1 .. Len(l) - 1 : f[i] = l[i]
    BY <2>2, <2>3, FrontAt
  <2> QED BY <1>3, <1>4, <2>1, <2>3, <2>4
<1>a. n \in 1 .. n /\ \A i \in 1 .. n : i \in 1 .. n - 1 \/ i = n
  BY <1>5, SMT
<1>b. \A i \in 1 .. n - 1 : i \in 1 .. n /\ i < n
  BY <1>5, SMT
<1>c. 1 .. Len(Prio(s)) = {} /\ 1 .. Len(Prio(s)') = {}
  BY <1>3, SMT
<1>6. PICK m : m = Plain(s)[n].msg
  OBVIOUS
<1>7. /\ m \in Packet \cup SyncMessage /\ m \in Message /\ m # NoMessage /\ ~IsFlush(m)
      /\ m.kind = "packet" <=> IsPacket(Plain(s)[n])
  <2>1. m \in Packet \cup SyncMessage
    BY <1>5, <1>6, PlainItems
  <2>2. m.kind = "packet" <=> IsPacket(Plain(s)[n])
    BY <1>6 DEF IsPacket
  <2> QED BY <2>1, <2>2, Kinds, KindOf, SMT DEF IsFlush
<1>8. pMsg'[s] = m /\ pMsg[s] = NoMessage /\ thread'[s] = "have" /\ thread[s] = "get"
  <2>1. thread'[s] = "have" /\ thread[s] = "get"
    BY <1>0, SMT DEF GetMessage, TypeInv
  <2>2. pMsg'[s] = m
    BY <1>0, <1>3, <1>5, <1>6, Zenon DEF GetMessage, TypeInv
  <2>3. pMsg[s] = NoMessage
    BY <1>0, <2>1 DEF StreamInv, HandsInv
  <2> QED BY <2>1, <2>2, <2>3
<1>9. /\ codec' = codec /\ m_packets' = m_packets /\ decoded' = decoded /\ putBack' = putBack /\ sent' = sent
      /\ Newest' = Newest /\ Open(s)' = Open(s) /\ Open(s)
  <2>1. Open(s)
    BY <1>0, <1>8 DEF StreamInv, ClosedInv
  <2> QED BY <1>3, <2>1, Zenon DEF GetMessage, decoderVars, mainVars, Newest, Open, Alike
<1>d. pMsg[s] # Sync(Newest) /\ ~HasPacket(s) /\ ~IsFlush(pMsg[s])
  BY <1>8, Kinds, SMT DEF NoMessage, Sync, HasPacket, IsFlush
<1>e. HasPacket(s)' <=> IsPacket(Plain(s)[n])
  BY <1>7, <1>8 DEF HasPacket
<1>f. ~FlushPending(s) /\ ~FlushPending(s)'
  BY <1>c, <1>d, <1>7, <1>8 DEF FlushPending
<1>10. HandsInv(s)'
  BY <1>7, <1>8 DEF HandsInv
<1>11. ClosedInv(s)'
  BY <1>9 DEF ClosedInv
<1>12. KnownInv(s)'
  <2>1. \A i \in 1 .. n : Known(Plain(s)[i].msg, Newest)
    BY <1>0, <1>4 DEF StreamInv, KnownInv
  <2>2. Known(m, Newest)
    BY <1>6, <1>a, <2>1
  <2>3. \A i \in 1 .. n - 1 : Known(Plain(s)'[i].msg, Newest)
    BY <1>5, <1>b, <2>1
  <2> QED BY <1>c, <1>5, <1>8, <1>9, <2>2, <2>3 DEF KnownInv
<1>g. /\ PacketsIn(Plain(s)) = PacketsIn(Plain(s)') \cup InHands(s)'
      /\ PacketsIn(Plain(s)') \cap InHands(s)' = {} /\ InTurn(Plain(s)', decoded[s])
      /\ \A x \in InHands(s)' \ decoded[s] : \A other \in PacketsIn(Plain(s)') : x < other
      /\ PacketsIn(Prio(s)) = {} /\ PacketsIn(Prio(s)') = {} /\ PacketsLast(Prio(s)')
      /\ Kept(s)' = Kept(s) /\ InHands(s) = {}
  <2>1. Inserted(Plain(s), Plain(s)', Plain(s)[n], Len(Plain(s)))
    BY <1>0, <1>3, <1>5, StreamTypes, InsertedAtEnds
  <2>2. InHands(s)' = PacketOf(Plain(s)[n])
    BY <1>6, <1>7, <1>8 DEF InHands, HasPacket, PacketOf
  <2>3. PacketsIn(Plain(s)) = PacketsIn(Plain(s)') \cup PacketOf(Plain(s)[n])
    BY <2>1, PacketsInserted
  <2>4. InTurn(Plain(s), decoded[s])
    BY <1>0 DEF StreamInv, PacketInv
  <2>5. /\ InTurn(Plain(s)', decoded[s])
        /\ IsPacket(Plain(s)[n]) =>
             /\ Plain(s)[n].msg.n \notin PacketsIn(Plain(s)')
             /\ \/ Plain(s)[n].msg.n \in decoded[s]
                \/ \A x \in PacketsIn(Plain(s)') : Plain(s)[n].msg.n < x
    BY <2>1, <2>4, InTurnWithout
  <2>6. Kept(s)' = Kept(s) /\ InHands(s) = {}
    BY <1>9, <1>d DEF Kept, InHands
  <2>7. PacketsIn(Prio(s)) = {} /\ PacketsIn(Prio(s)') = {} /\ PacketsLast(Prio(s)')
    BY <1>3, <1>c, NoPacketIn DEF PacketsLast
  <2> QED BY <2>2, <2>3, <2>5, <2>6, <2>7 DEF PacketOf
<1>13. PacketInv(s)'
  <2>1. PacketInv(s)
    BY <1>0 DEF StreamInv
  <2>2. /\ InHands(s)' \cap (PacketsIn(Plain(s)') \cup PacketsIn(Prio(s)')) = {}
        /\ PacketsIn(Plain(s)') \cup InHands(s)' \subseteq PacketsIn(Plain(s))
    BY <1>g
  <2> QED BY <1>8, <1>7, <1>9, <1>g, <2>1, <2>2 DEF PacketInv
<1>h. DecoderInv(s)'
  <2>1. /\ Kept(s) \subseteq codec[s]
        /\ codec[s] \cap (PacketsIn(Plain(s)) \cup PacketsIn(Prio(s)) \cup InHands(s)) = {}
    BY <1>0, <1>8 DEF StreamInv, DecoderInv
  <2>2. codec[s] \cap (PacketsIn(Plain(s)') \cup PacketsIn(Prio(s)') \cup InHands(s)') = {}
    BY <1>g, <2>1
  <2> QED BY <1>8, <1>9, <1>g, <2>1, <2>2 DEF DecoderInv
<1>15. FlushInv(s)'
  <2>1. Emptied(s) => PacketsIn(Plain(s)) \subseteq putBack[s]
    BY <1>0 DEF StreamInv, FlushInv
  <2>2. Emptied(s) => PacketsIn(Plain(s)') \cup InHands(s)' \subseteq putBack[s]
    BY <1>g, <2>1
  <2>3. ASSUME Told(s)
        PROVE  codec[s] \cup Kept(s) \cup PacketsIn(Prio(s)') \cup InHands(s)' \subseteq putBack[s]
    <3>1. codec[s] \cup Kept(s) \subseteq putBack[s]
      BY <1>0, <1>9, <1>f, <2>3 DEF StreamInv, FlushInv
    <3> QED BY <1>g, <2>2, <2>3, <3>1, Phases
  <2> QED BY <1>9, <1>g, <2>2, <2>3, Zenon DEF FlushInv, Emptied, Told
<1>16. MeetInv(s)'
  <2>1. ASSUME Invited(s)
        PROVE  /\ \A i \in 1 .. n - 1 : Plain(s)'[i].msg # Sync(Newest)
               /\ s \in syncs[Newest].reached
    <3>1. /\ \A i \in 1 .. n : Plain(s)[i].msg # Sync(Newest)
          /\ s \in syncs[Newest].reached \/ Holds(s, Sync(Newest))
      BY <1>0, <1>4, <1>9, <2>1 DEF StreamInv, MeetInv
    <3>2. ~Holds(s, Sync(Newest))
      BY <1>4, <1>c, <1>d, <3>1 DEF Holds
    <3> QED BY <1>5, <1>b, <3>1, <3>2
  <2>2. ASSUME AskedNext(s)
        PROVE  ~Holds(s, Sync(Newest))' /\ s \notin syncs[Newest].reached
    <3>1. ~Holds(s, Sync(Newest)) /\ s \notin syncs[Newest].reached
      BY <1>0, <2>2 DEF StreamInv, MeetInv
    <3>2. \A i \in 1 .. n : Plain(s)[i].msg # Sync(Newest)
      BY <1>4, <3>1 DEF Holds
    <3>3. m # Sync(Newest) /\ \A i \in 1 .. n - 1 : Plain(s)'[i].msg # Sync(Newest)
      BY <1>5, <1>6, <1>a, <1>b, <3>2
    <3> QED BY <1>c, <1>5, <1>8, <1>9, <3>1, <3>3, Zenon DEF Holds
  <2> QED BY <1>c, <1>5, <1>9, <1>f, <2>1, <2>2, Zenon DEF MeetInv, Invited, AskedNext
<1>17. DrainInv(s)'
  <2>0. AllHad(s) => AllHad(s)'
    BY <1>9, <1>g DEF AllHad
  <2>1. ASSUME pc = "draining", s = target
        PROVE  /\ \A i, j \in 1 .. n - 1 :
                    Plain(s)'[i].msg = Sync(Newest) /\ IsPacket(Plain(s)'[j]) => i < j
               /\ m = Sync(Newest) => AllHad(s)'
               /\ Met(Newest) \/ Holds(s, Sync(Newest))'
    <3>1. /\ \A i, j \in 1 .. n : Plain(s)[i].msg = Sync(Newest) /\ IsPacket(Plain(s)[j]) => i < j
          /\ Met(Newest) \/ Holds(s, Sync(Newest))
      BY <1>0, <1>4, <2>1 DEF StreamInv, DrainInv
    <3>2. \A i, j \in 1 .. n - 1 :
            Plain(s)'[i].msg = Sync(Newest) /\ IsPacket(Plain(s)'[j]) => i < j
      BY <1>5, <1>b, <3>1
    <3>3. ASSUME m = Sync(Newest)
          PROVE  AllHad(s)'
      <4>1. \A j \in 1 .. n : IsPacket(Plain(s)[j]) => n < j
        BY <1>6, <1>a, <3>1, <3>3
      <4>2. \A j \in 1 .. n : ~IsPacket(Plain(s)[j])
        BY <1>5, <4>1, SMT
      <4>3. PacketsIn(Plain(s)) = {}
        BY <1>4, <4>2, NoPacketIn
      <4> QED BY <1>g, <4>3 DEF AllHad
    <3>4. ASSUME NEW i \in 1 .. n, Plain(s)[i].msg = Sync(Newest)
          PROVE  Holds(s, Sync(Newest))'
      <4>1. CASE i = n
        BY <1>6, <1>8, <1>9, <3>4, <4>1 DEF Holds
      <4>2. CASE i \in 1 .. n - 1
        BY <1>5, <1>9, <3>4, <4>2 DEF Holds
      <4> QED BY <1>a, <4>1, <4>2
    <3> QED BY <1>4, <1>c, <1>d, <3>1, <3>2, <3>3, <3>4, Zenon DEF Holds
  <2>2. ASSUME pc = "draining", s # target
        PROVE  ~Holds(s, Sync(Newest))'
    <3>1. ~Holds(s, Sync(Newest))
      BY <1>0, <2>2 DEF StreamInv, DrainInv
    <3>2. \A i \in 1 .. n : Plain(s)[i].msg # Sync(Newest)
      BY <1>4, <3>1 DEF Holds
    <3>3. m # Sync(Newest) /\ \A i \in 1 .. n - 1 : Plain(s)'[i].msg # Sync(Newest)
      BY <1>5, <1>6, <1>a, <1>b, <3>2
    <3> QED BY <1>c, <1>5, <1>8, <1>9, <3>3, Zenon DEF Holds
  <2> QED BY <1>0, <1>c, <1>5, <1>8, <1>9, <2>0, <2>1, <2>2, Zenon DEF StreamInv, DrainInv, Met
<1>18. AwakeInv(s)'
  BY <1>8 DEF AwakeInv
<1> QED BY <1>3, <1>7, <1>8, <1>10, <1>11, <1>12, <1>13, <1>h, <1>15, <1>16, <1>17, <1>18
        DEF StreamInv, Alike

(* Get() returns with a message.                                           *)
LEMMA GetMessageKeeps ==
  ASSUME SInv, NEW s \in Stream, GetMessage(s)
  PROVE  SInv'
<1>1. /\ \A t \in Stream \ {s} : Untouched(t)
      /\ UNCHANGED <<syncs, pc, target, m_bAbortRequest>>
  BY SMT DEF GetMessage, SInv, TypeInv, Untouched, decoderVars, mainVars, appVars
<1>2. /\ queue'[s] \in Queues /\ queue'[s].m_bInitialized = queue[s].m_bInitialized
      /\ pMsg'[s] \in Message /\ StreamInv(s)'
  BY <1>1, GetPrioKeeps, GetPlainKeeps
<1>3. TypeInv'
  <2>1. queue \in [Stream -> Queues] /\ pMsg \in [Stream -> Message \cup {NoMessage}]
    BY DEF SInv, TypeInv
  <2>2. queue' \in [Stream -> Queues]
    BY <1>2, <2>1, Zenon DEF GetMessage
  <2>3. pMsg' \in [Stream -> Message \cup {NoMessage}]
    BY <1>2, <2>1, Zenon DEF GetMessage
  <2>4. thread' = [thread EXCEPT ![s] = "have"] /\ onlyPrioMsgs' = [onlyPrioMsgs EXCEPT ![s] = FALSE]
    BY DEF GetMessage
  <2>5. UNCHANGED <<m_bStop, m_paused, decoderVars, mainVars, syncs, appVars>>
    BY DEF GetMessage
  <2> QED BY <2>2, <2>3, <2>4, <2>5, SMT DEF SInv, TypeInv, decoderVars, mainVars, appVars
<1> QED BY <1>1, <1>2, <1>3, PlayerFrame

(* What was in turn is so when the decoder got more.                       *)
LEMMA InTurnStill ==
  ASSUME NEW l, NEW had, NEW more, had \subseteq more, InTurn(l, had)
  PROVE  InTurn(l, more)
  BY DEF InTurn

(* A player that is done with the message in its hands, its queue as it    *)
(* was: an order to flush has reset the decoder, a packet has gone there,  *)
(* and who was at the newest rendezvous has been counted.                  *)
LEMMA ReleasedKeeps ==
  ASSUME SInv, NEW s \in Stream, UNCHANGED <<syncs, pc, target>>,
         queue'[s] = queue[s], pMsg[s] # NoMessage, pMsg'[s] = NoMessage,
         thread'[s] \in {"get", "recover"}, putBack'[s] = putBack[s], sent'[s] = sent[s],
         decoded'[s] = decoded[s] \cup InHands(s), codec'[s] \subseteq codec[s] \cup InHands(s),
         Kept(s)' \subseteq codec'[s], Distinct(m_packets'[s]),
         IsFlush(pMsg[s]) => codec'[s] = {},
         pMsg[s] = Sync(Newest) => Met(Newest) /\ (Invited(s) => s \in syncs[Newest].reached)
  PROVE  StreamInv(s)'
<1>0. TypeInv /\ StreamInv(s) /\ PacketInv(s) /\ thread[s] \in {"have", "sync"}
  BY DEF SInv, StreamInv, HandsInv
<1>1. /\ Plain(s)' = Plain(s) /\ Prio(s)' = Prio(s) /\ ExactInv(s)'
      /\ Open(s)' = Open(s) /\ Newest' = Newest
  BY <1>0, Zenon DEF Plain, Prio, Open, Newest, ExactInv, StreamInv
<1>2. /\ ~HasPacket(s)' /\ ~IsFlush(pMsg'[s]) /\ pMsg'[s] # Sync(Newest) /\ Known(pMsg'[s], Newest)
      /\ InHands(s)' = {}
  <2>1. ~HasPacket(s)' /\ ~IsFlush(pMsg'[s]) /\ pMsg'[s] # Sync(Newest) /\ Known(pMsg'[s], Newest)
    BY SMT DEF NoMessage, HasPacket, IsFlush, Sync, Known
  <2> QED BY <2>1 DEF InHands
<1>3. InHands(s) \cap (PacketsIn(Plain(s)) \cup PacketsIn(Prio(s))) = {}
  BY <1>0 DEF PacketInv
<1>4. /\ FlushPending(s)' => FlushPending(s)
      /\ FlushPending(s) => FlushPending(s)' \/ IsFlush(pMsg[s])
  BY <1>1, <1>2, Zenon DEF FlushPending
<1>5. HandsInv(s)'
  BY SMT DEF HandsInv
<1>6. ClosedInv(s)'
  <2>1. Open(s)
    BY <1>0 DEF StreamInv, ClosedInv
  <2> QED BY <1>1, <2>1 DEF ClosedInv
<1>7. KnownInv(s)'
  BY <1>0, <1>1, <1>2, Zenon DEF StreamInv, KnownInv
<1>8. PacketInv(s)'
  <2>1. decoded'[s] \cup PacketsIn(Plain(s)) \subseteq 1 .. sent[s]
    BY <1>0 DEF PacketInv
  <2>2. codec'[s] \cup PacketsIn(Prio(s)) \cup Kept(s)' \subseteq decoded'[s]
    BY <1>0 DEF PacketInv
  <2>3. InTurn(Plain(s), decoded'[s])
    <3>1. decoded[s] \subseteq decoded'[s] /\ InTurn(Plain(s), decoded[s])
      BY <1>0 DEF PacketInv
    <3> QED BY <3>1, InTurnStill
  <2>4. \A n \in PacketsIn(Plain(s)) \ decoded'[s] : \A old \in decoded'[s] : old < n
    <3> SUFFICES ASSUME NEW n \in PacketsIn(Plain(s)), n \notin decoded[s], NEW old \in decoded'[s]
                 PROVE  old < n
      OBVIOUS
    <3>1. CASE old \in decoded[s]
      BY <1>0, <3>1 DEF PacketInv
    <3>2. CASE old \in InHands(s) \ decoded[s]
      BY <1>0, <3>2 DEF PacketInv
    <3> QED BY <3>1, <3>2
  <2>5. PacketsLast(Prio(s)) /\ PacketsIn(Plain(s)) \cap PacketsIn(Prio(s)) = {}
    BY <1>0 DEF PacketInv
  <2> QED BY <1>1, <1>2, <2>1, <2>2, <2>3, <2>4, <2>5 DEF PacketInv
<1>a. DecoderInv(s)'
  <2>1. codec[s] \cap (PacketsIn(Plain(s)) \cup PacketsIn(Prio(s)) \cup InHands(s)) = {}
    BY <1>0 DEF StreamInv, DecoderInv
  <2>2. codec'[s] \cap (PacketsIn(Plain(s)) \cup PacketsIn(Prio(s))) = {}
    BY <1>3, <2>1
  <2>3. Kept(s)' \cap (PacketsIn(Plain(s)) \cup PacketsIn(Prio(s))) = {}
    BY <2>2
  <2> QED BY <1>1, <1>2, <2>2, <2>3 DEF DecoderInv
<1>9. FlushInv(s)'
  <2>1. Emptied(s) => PacketsIn(Plain(s)) \subseteq putBack[s]
    BY <1>0 DEF StreamInv, FlushInv
  <2>2. ASSUME Told(s), Open(s), ~FlushPending(s)'
        PROVE  codec'[s] \cup Kept(s)' \cup PacketsIn(Prio(s)) \subseteq putBack[s]
    <3>1. CASE IsFlush(pMsg[s])
      <4>1. PacketsIn(Prio(s)) = {}
        BY <1>0, <3>1 DEF PacketInv
      <4> QED BY <3>1, <4>1
    <3>2. CASE ~IsFlush(pMsg[s])
      <4>1. codec[s] \cup Kept(s) \cup PacketsIn(Prio(s)) \cup InHands(s) \subseteq putBack[s]
        BY <1>0, <1>4, <2>2, <3>2 DEF StreamInv, FlushInv
      <4> QED BY <4>1
    <3> QED BY <3>1, <3>2
  <2>3. (Emptied(s)' <=> Emptied(s)) /\ (Told(s)' <=> Told(s))
    BY Zenon DEF Emptied, Told
  <2> QED BY <1>1, <1>2, <2>1, <2>2, <2>3 DEF FlushInv
<1>10. Holds(s, Sync(Newest)) <=> pMsg[s] = Sync(Newest) \/ Holds(s, Sync(Newest))'
  BY <1>1, <1>2, Zenon DEF Holds
<1>11. MeetInv(s)'
  BY <1>0, <1>1, <1>2, <1>4, <1>10, Zenon DEF StreamInv, MeetInv, Invited, AskedNext
<1>12. DrainInv(s)'
  <2>1. Met(Newest)' <=> Met(Newest)
    BY <1>1 DEF Met
  <2>2. AllHad(s) => AllHad(s)'
    BY <1>1, <1>2 DEF AllHad
  <2> QED BY <1>0, <1>1, <1>2, <1>10, <2>1, <2>2, Zenon DEF StreamInv, DrainInv
<1>13. AwakeInv(s)'
  BY DEF AwakeInv
<1> QED BY <1>1, <1>5, <1>6, <1>7, <1>8, <1>a, <1>9, <1>11, <1>12, <1>13 DEF StreamInv

(* What a message in a player's hands is.                                  *)
LEMMA Hands ==
  ASSUME TypeInv, NEW s \in Stream, StreamInv(s), pMsg[s] # NoMessage
  PROVE  /\ pMsg[s] \in Message /\ thread[s] \in {"have", "sync"} /\ Open(s)
         /\ pMsg[s].kind = "sync" =>
              pMsg[s].n \in 1 .. Newest /\ pMsg[s] = Sync(pMsg[s].n) /\ pMsg[s] \in SyncMessage
         /\ pMsg[s].kind = "packet" => pMsg[s] \in Packet /\ pMsg[s].n \in Nat
<1>1. pMsg[s] \in Message /\ thread[s] \in {"have", "sync"} /\ Open(s)
  BY DEF TypeInv, StreamInv, HandsInv, ClosedInv
<1>2. ASSUME pMsg[s].kind = "sync"
      PROVE  pMsg[s].n \in 1 .. Newest /\ pMsg[s] = Sync(pMsg[s].n) /\ pMsg[s] \in SyncMessage
  <2>1. pMsg[s] \in SyncMessage
    BY <1>1, <1>2, KindOf
  <2>2. pMsg[s].n \in 1 .. MaxSyncs /\ pMsg[s] = Sync(pMsg[s].n)
    BY <2>1, SMT DEF SyncMessage, Sync
  <2>3. pMsg[s].n <= Newest
    BY <1>2 DEF StreamInv, KnownInv, Known
  <2> QED BY <2>1, <2>2, <2>3, StreamTypes, BoundsAssumption, SMT
<1>3. ASSUME pMsg[s].kind = "packet"
      PROVE  pMsg[s] \in Packet /\ pMsg[s].n \in Nat
  <2>1. pMsg[s] \in Packet
    BY <1>1, <1>3, KindOf
  <2> QED BY <2>1, Kinds
<1> QED BY <1>1, <1>2, <1>3

(* What a player with a message remembers was given to its decoder.        *)
LEMMA Remembers ==
  ASSUME SInv, NEW s \in Stream, pMsg[s] # NoMessage
  PROVE  /\ Kept(s) \subseteq codec[s] /\ Distinct(m_packets[s])
         /\ codec[s] \cap InHands(s) = {}
         /\ pMsg[s].kind # "packet" => InHands(s) = {}
<1>1. thread[s] \in {"have", "sync"}
  BY DEF SInv, StreamInv, HandsInv
<1>2. Kept(s) \subseteq codec[s] /\ codec[s] \cap InHands(s) = {}
  BY <1>1 DEF SInv, StreamInv, DecoderInv
<1>3. Distinct(m_packets[s])
  BY DEF SInv, StreamInv, PacketInv
<1> QED BY <1>2, <1>3 DEF InHands, HasPacket

(* Pausing and resuming.                                                   *)
LEMMA HandleSettingKeeps ==
  ASSUME SInv, NEW s \in Stream, HandleSetting(s)
  PROVE  SInv'
<1>1. /\ \A t \in Stream \ {s} : Untouched(t)
      /\ UNCHANGED <<syncs, pc, target, m_bAbortRequest>>
  BY SMT DEF HandleSetting, Released, SInv, TypeInv, Untouched, decoderVars, mainVars, appVars
<1>2. TypeInv'
  BY SMT DEF HandleSetting, Released, SInv, TypeInv, decoderVars, mainVars, appVars
<1>3. pMsg[s] # NoMessage /\ pMsg[s].kind # "packet" /\ ~IsFlush(pMsg[s]) /\ pMsg[s] # Sync(Newest)
  BY SMT DEF HandleSetting, NoMessage, IsFlush, Sync
<1>4. /\ queue'[s] = queue[s] /\ pMsg'[s] = NoMessage /\ thread'[s] = "get"
      /\ putBack' = putBack /\ sent' = sent /\ decoded' = decoded /\ codec' = codec
      /\ m_packets' = m_packets
  BY SMT DEF HandleSetting, Released, SInv, TypeInv, decoderVars, mainVars
<1>5. StreamInv(s)'
  <2>1. Kept(s) \subseteq codec[s] /\ Distinct(m_packets[s]) /\ InHands(s) = {}
    BY <1>3, Remembers
  <2>2. Kept(s)' = Kept(s)
    BY <1>4, PlacesKept
  <2> QED BY <1>1, <1>3, <1>4, <2>1, <2>2, ReleasedKeeps
<1> QED BY <1>1, <1>2, <1>4, <1>5, PlayerFrame

(* The order to flush.                                                     *)
LEMMA HandleFlushKeeps ==
  ASSUME SInv, NEW s \in Stream, HandleFlush(s)
  PROVE  SInv'
<1>1. /\ \A t \in Stream \ {s} : Untouched(t)
      /\ UNCHANGED <<syncs, pc, target, m_bAbortRequest>>
  BY SMT DEF HandleFlush, Released, SInv, TypeInv, Untouched, mainVars, appVars
<1>2. TypeInv'
  <2>1. m_packets' \in [Stream -> Seq(Packet)]
    <3>1. <<>> \in Seq(Packet)
      BY EmptySeq
    <3> QED BY <3>1, Zenon DEF HandleFlush, SInv, TypeInv
  <2>2. codec' \in [Stream -> SUBSET Nat]
    BY SMT DEF HandleFlush, SInv, TypeInv
  <2> QED BY <2>1, <2>2, SMT DEF HandleFlush, Released, SInv, TypeInv, mainVars, appVars
<1>3. pMsg[s] # NoMessage /\ pMsg[s].kind # "packet" /\ IsFlush(pMsg[s]) /\ pMsg[s] # Sync(Newest)
  BY SMT DEF HandleFlush, NoMessage, IsFlush, Sync
<1>4. /\ queue'[s] = queue[s] /\ pMsg'[s] = NoMessage /\ thread'[s] = "get"
      /\ putBack' = putBack /\ sent' = sent /\ decoded' = decoded /\ codec'[s] = {}
      /\ m_packets'[s] = <<>>
  BY SMT DEF HandleFlush, Released, SInv, TypeInv, mainVars
<1>5. StreamInv(s)'
  <2>1. InHands(s) = {}
    BY <1>3, Remembers
  <2>2. Kept(s)' = {} /\ Distinct(m_packets'[s])
    BY <1>4, NothingRemembered DEF Kept
  <2> QED BY <1>1, <1>3, <1>4, <2>1, <2>2, ReleasedKeeps
<1> QED BY <1>1, <1>2, <1>4, <1>5, PlayerFrame

(* A packet for the decoder, which the player may remember.                *)
LEMMA HandlePacketKeeps ==
  ASSUME SInv, NEW s \in Stream, HandlePacket(s)
  PROVE  SInv'
<1>0. /\ pMsg[s] # NoMessage /\ HasPacket(s) /\ pMsg[s] # Sync(Newest) /\ ~IsFlush(pMsg[s])
      /\ pMsg[s] \in Packet /\ pMsg[s].n \in Nat /\ InHands(s) = {pMsg[s].n}
  <2>1. pMsg[s] # NoMessage /\ HasPacket(s) /\ pMsg[s] # Sync(Newest) /\ ~IsFlush(pMsg[s])
    BY SMT DEF HandlePacket, NoMessage, HasPacket, Sync, IsFlush
  <2> QED BY <2>1, Hands DEF SInv, HasPacket, InHands
<1>a. /\ codec' = [codec EXCEPT ![s] = @ \cup {pMsg[s].n}]
      /\ decoded' = [decoded EXCEPT ![s] = @ \cup {pMsg[s].n}]
      /\ pMsg' = [pMsg EXCEPT ![s] = NoMessage]
      /\ UNCHANGED <<queue, m_bStop, m_paused, putBack, mainVars, syncs, appVars>>
  BY DEF HandlePacket
<1>b. /\ onlyPrioMsgs' \in [Stream -> BOOLEAN]
      /\ \A t \in Stream \ {s} : onlyPrioMsgs'[t] = onlyPrioMsgs[t]
  <2>1. PICK more \in BOOLEAN : onlyPrioMsgs' = [onlyPrioMsgs EXCEPT ![s] = more]
    BY DEF HandlePacket, DecoderGoesOn, DecoderFlushed
  <2> QED BY <2>1, SMT DEF SInv, TypeInv
<1>c. /\ thread' \in [Stream -> {"none", "get", "wait", "have", "sync", "recover"}]
      /\ \A t \in Stream \ {s} : thread'[t] = thread[t]
      /\ thread'[s] \in {"get", "recover"}
  <2>1. PICK there \in {"get", "recover"} : thread' = [thread EXCEPT ![s] = there]
    BY DEF HandlePacket, DecoderGoesOn, DecoderFlushed
  <2>2. thread \in [Stream -> {"none", "get", "wait", "have", "sync", "recover"}]
    BY DEF SInv, TypeInv
  <2> QED BY <2>1, <2>2, SMT
<1>d. PICK list \in Remembered(s) : m_packets' = [m_packets EXCEPT ![s] = list]
  BY DEF HandlePacket
<1>e. list \in Seq(Packet) /\ Distinct(list) /\ Numbers(list) \subseteq codec[s] \cup {pMsg[s].n}
  <2>1. PICK more : more = Append(m_packets[s], pMsg[s])
    OBVIOUS
  <2>2. PICK less : less = Tail(more)
    OBVIOUS
  <2>3. /\ more \in Seq(Packet) /\ more # <<>> /\ Distinct(more)
        /\ Numbers(more) = Kept(s) \cup {pMsg[s].n}
    <3>1. m_packets[s] \in Seq(Packet) /\ Distinct(m_packets[s]) /\ pMsg[s].n \notin Kept(s)
      BY <1>0, Remembers DEF SInv, TypeInv
    <3> QED BY <1>0, <2>1, <3>1, OneMore DEF Kept
  <2>4. less \in Seq(Packet) /\ Distinct(less) /\ Numbers(less) \subseteq Numbers(more)
    <3>1. /\ less \in Seq(Packet) /\ Distinct(less)
          /\ Numbers(more) = Numbers(less) \cup {Head(more).n}
      BY <2>2, <2>3, OneLess, Zenon
    <3> QED BY <3>1
  <2>5. Kept(s) \subseteq codec[s]
    BY <1>0, Remembers
  <2>6. list \in {more, less, <<>>}
    BY <2>1, <2>2 DEF Remembered
  <2>7. CASE list = <<>>
    BY <2>7, NothingRemembered, EmptySeq
  <2> QED BY <2>3, <2>4, <2>5, <2>6, <2>7
<1>1. /\ \A t \in Stream \ {s} : Untouched(t)
      /\ UNCHANGED <<syncs, pc, target, m_bAbortRequest>>
  BY <1>a, <1>b, <1>c, <1>d, SMT DEF SInv, TypeInv, Untouched, mainVars, appVars
<1>2. TypeInv'
  <2>1. codec' \in [Stream -> SUBSET Nat] /\ decoded' \in [Stream -> SUBSET Nat]
    BY <1>0, <1>a, SMT DEF SInv, TypeInv
  <2>2. m_packets' \in [Stream -> Seq(Packet)]
    BY <1>d, <1>e, Zenon DEF SInv, TypeInv
  <2>3. pMsg' \in [Stream -> Message \cup {NoMessage}]
    BY <1>a, SMT DEF SInv, TypeInv
  <2> QED BY <1>a, <1>b, <1>c, <2>1, <2>2, <2>3, Zenon DEF SInv, TypeInv, mainVars, appVars
<1>4. /\ queue'[s] = queue[s] /\ pMsg'[s] = NoMessage /\ m_packets'[s] = list
      /\ putBack' = putBack /\ sent' = sent /\ decoded'[s] = decoded[s] \cup InHands(s)
      /\ codec'[s] = codec[s] \cup InHands(s)
  BY <1>0, <1>a, <1>d, SMT DEF SInv, TypeInv, mainVars
<1>5. StreamInv(s)'
  <2>1. Kept(s)' \subseteq codec'[s] /\ Distinct(m_packets'[s])
    BY <1>0, <1>4, <1>e DEF Kept
  <2> QED BY <1>0, <1>1, <1>c, <1>4, <2>1, ReleasedKeeps
<1> QED BY <1>1, <1>2, <1>4, <1>5, PlayerFrame

(* Everyone has come, or the time is over.                                 *)
LEMMA SyncReachedKeeps ==
  ASSUME SInv, NEW s \in Stream, SyncReached(s)
  PROVE  SInv'
<1>1. /\ \A t \in Stream \ {s} : Untouched(t)
      /\ UNCHANGED <<syncs, pc, target, m_bAbortRequest>>
  BY SMT DEF SyncReached, Released, SInv, TypeInv, Untouched, decoderVars, mainVars, appVars
<1>2. TypeInv'
  BY SMT DEF SyncReached, Released, SInv, TypeInv, decoderVars, mainVars, appVars
<1>3. /\ pMsg[s].kind = "sync" /\ Met(pMsg[s].n)
      /\ syncs[pMsg[s].n].sources \cap {s, "any"} \subseteq syncs[pMsg[s].n].reached
  BY DEF SyncReached, SInv, StreamInv, HandsInv
<1>4. pMsg[s] # NoMessage /\ pMsg[s].kind # "packet" /\ ~IsFlush(pMsg[s])
  BY <1>3, SMT DEF NoMessage, IsFlush
<1>5. ASSUME pMsg[s] = Sync(Newest)
      PROVE  Met(Newest) /\ (Invited(s) => s \in syncs[Newest].reached)
  <2>1. pMsg[s].n = Newest
    BY <1>5 DEF Sync
  <2>2. Invited(s) => syncs[Newest].sources = Stream
    BY DEF SInv, MainInv, Invited
  <2> QED BY <1>3, <2>1, <2>2
<1>6. /\ queue'[s] = queue[s] /\ pMsg'[s] = NoMessage /\ thread'[s] = "get"
      /\ putBack' = putBack /\ sent' = sent /\ decoded' = decoded /\ codec' = codec
      /\ m_packets' = m_packets
  BY SMT DEF SyncReached, Released, SInv, TypeInv, decoderVars, mainVars
<1>7. StreamInv(s)'
  <2>1. Kept(s) \subseteq codec[s] /\ Distinct(m_packets[s]) /\ InHands(s) = {}
    BY <1>4, Remembers
  <2>2. Kept(s)' = Kept(s)
    BY <1>6, PlacesKept
  <2> QED BY <1>1, <1>4, <1>5, <1>6, <2>1, <2>2, ReleasedKeeps
<1> QED BY <1>1, <1>2, <1>6, <1>7, PlayerFrame

(* A packet that is put back is behind all that came later, at the end Get *)
(* takes from.                                                             *)
LEMMA PutPacketBackKeeps ==
  ASSUME SInv, NEW s \in Stream, PutPacketBack(s)
  PROVE  SInv'
<1>0. TypeInv /\ StreamInv(s) /\ queue[s] \in Queues /\ queue \in [Stream -> Queues]
  BY DEF SInv, TypeInv
<1>1. /\ \A t \in Stream \ {s} : Untouched(t)
      /\ UNCHANGED <<syncs, pc, target, m_bAbortRequest>>
  BY SMT DEF PutPacketBack, Released, SInv, TypeInv, Untouched, mainVars, appVars
<1>2. PICK m : m = pMsg[s]
  OBVIOUS
<1>3. /\ HasPacket(s) /\ pMsg[s] # NoMessage /\ m \in Packet /\ m.n \in Nat /\ Open(s)
      /\ m # Sync(Newest) /\ ~IsFlush(m) /\ InHands(s) = {m.n}
  <2>1. HasPacket(s) /\ pMsg[s] # NoMessage /\ m # Sync(Newest) /\ ~IsFlush(m)
    BY <1>2, SMT DEF PutPacketBack, HasPacket, NoMessage, Sync, IsFlush
  <2> QED BY <1>0, <1>2, <2>1, Hands DEF HasPacket, InHands
<1>4. queue' = [queue EXCEPT ![s] = Returned(queue[s], m)]
  BY <1>2 DEF PutPacketBack, Returned
<1>5. queue'[s] = Returned(queue[s], m)
  BY <1>0, <1>4, Zenon
<1>6. PICK e : e = [msg |-> m, priority |-> 0]
  OBVIOUS
<1>7. /\ queue'[s] \in Queues /\ Alike(queue'[s], queue[s])
      /\ Prio(s)' = Prio(s) /\ Plain(s)' = Append(Plain(s), e) /\ ExactInv(s)'
  <2>1. SizeIsExact(queue[s]) /\ queue[s].m_bInitialized
    BY <1>0, <1>3 DEF Open, ExactInv, StreamInv
  <2>2. /\ queue'[s] \in Queues /\ Alike(queue'[s], queue[s])
        /\ queue'[s].m_prioMessages = queue[s].m_prioMessages
        /\ queue'[s].m_messages = Append(queue[s].m_messages, e)
        /\ SizeIsExact(queue'[s])
    <3>1. PICK p : p = queue'[s]
      OBVIOUS
    <3>2. /\ p \in Queues /\ Alike(p, queue[s])
          /\ p.m_prioMessages = queue[s].m_prioMessages
          /\ p.m_messages = Append(queue[s].m_messages, [msg |-> m, priority |-> 0])
          /\ SizeIsExact(p)
      <4>1. p = Returned(queue[s], m) /\ queue[s] \in Queues /\ m \in Packet
        BY <1>0, <1>3, <1>5, <3>1
      <4> QED BY <2>1, <4>1, PutBackLast
    <3> QED BY <1>6, <3>1, <3>2
  <2> QED BY <2>2 DEF Plain, Prio, ExactInv
<1>8. PICK n : n = Len(Plain(s))
  OBVIOUS
<1>9. /\ n \in Nat /\ Len(Plain(s)') = n + 1 /\ Plain(s)'[n + 1] = e
      /\ \A i \in 1 .. n : Plain(s)'[i] = Plain(s)[i]
      /\ e.msg = m /\ IsPacket(e)
  <2>1. e \in PlainItem /\ e.msg = m
    BY <1>3, <1>6, Items
  <2>2. Plain(s) \in Seq(PlainItem)
    BY <1>0, StreamTypes
  <2> QED BY <1>3, <1>7, <1>8, <2>1, <2>2, AppendAt, LenProperties, Kinds DEF IsPacket
<1>10. \A i \in 1 .. n + 1 : i \in 1 .. n \/ i = n + 1
  BY <1>9, SMT
<1>11. /\ pMsg'[s] = NoMessage /\ thread'[s] = "get" /\ putBack'[s] = putBack[s] \cup {m.n}
       /\ codec' = codec /\ m_packets' = m_packets /\ decoded' = decoded /\ sent' = sent
       /\ Newest' = Newest /\ Open(s)' = Open(s)
  <2>1. pMsg'[s] = NoMessage /\ thread'[s] = "get" /\ putBack'[s] = putBack[s] \cup {m.n}
    BY <1>0, <1>2, SMT DEF PutPacketBack, Released, TypeInv
  <2> QED BY <1>7, <2>1, Zenon DEF PutPacketBack, mainVars, Newest, Open, Alike
<1>12. /\ ~HasPacket(s)' /\ ~IsFlush(pMsg'[s]) /\ pMsg'[s] # Sync(Newest) /\ Known(pMsg'[s], Newest)
       /\ Known(m, Newest) /\ InHands(s)' = {} /\ Kept(s)' = Kept(s)
  <2>1. /\ ~HasPacket(s)' /\ ~IsFlush(pMsg'[s]) /\ pMsg'[s] # Sync(Newest) /\ Known(pMsg'[s], Newest)
        /\ Known(m, Newest)
    BY <1>3, <1>11, Kinds, SMT DEF NoMessage, HasPacket, IsFlush, Sync, Known
  <2> QED BY <1>11, <2>1, PlacesKept DEF InHands
<1>13. TypeInv'
  <2>1. queue' \in [Stream -> Queues]
    BY <1>0, <1>4, <1>5, <1>7, Zenon
  <2>2. putBack' \in [Stream -> SUBSET Nat]
    BY <1>0, <1>2, <1>3, SMT DEF PutPacketBack, TypeInv
  <2>3. /\ onlyPrioMsgs' = [onlyPrioMsgs EXCEPT ![s] = TRUE] /\ Released(s)
        /\ UNCHANGED <<m_bStop, m_paused, codec, m_packets, decoded, mainVars, syncs, appVars>>
    BY DEF PutPacketBack
  <2>4. onlyPrioMsgs' \in [Stream -> BOOLEAN] /\ pMsg' \in [Stream -> Message \cup {NoMessage}]
    BY <1>0, <2>3, SMT DEF Released, TypeInv
  <2> QED BY <1>0, <2>1, <2>2, <2>3, <2>4, SMT DEF Released, TypeInv, mainVars, appVars
<1>14. HandsInv(s)'
  BY <1>11, SMT DEF HandsInv
<1>15. ClosedInv(s)'
  BY <1>3, <1>11 DEF ClosedInv
<1>16. KnownInv(s)'
  <2>1. \A i \in 1 .. n + 1 : Known(Plain(s)'[i].msg, Newest)
    BY <1>0, <1>8, <1>9, <1>10, <1>12 DEF StreamInv, KnownInv
  <2> QED BY <1>0, <1>7, <1>9, <1>11, <1>12, <2>1 DEF StreamInv, KnownInv
<1>a. PacketInv(s) /\ PacketsIn(Plain(s)') = PacketsIn(Plain(s)) \cup InHands(s)
  <2>1. Inserted(Plain(s)', Plain(s), e, n + 1)
    <3>1. Plain(s) \in Seq(PlainItem) /\ e \in PlainItem
      BY <1>0, <1>3, <1>6, StreamTypes, Items
    <3> QED BY <1>7, <1>8, <3>1, InsertedAtEnds
  <2>2. PacketsIn(Plain(s)') = PacketsIn(Plain(s)) \cup PacketOf(e)
    BY <2>1, PacketsInserted
  <2> QED BY <1>0, <1>3, <1>9, <2>2 DEF StreamInv, PacketOf
<1>b. InTurn(Plain(s)', decoded[s])
  <2>1. Inserted(Plain(s)', Plain(s), e, Len(Plain(s)'))
    <3>1. Plain(s) \in Seq(PlainItem) /\ e \in PlainItem
      BY <1>0, <1>3, <1>6, StreamTypes, Items
    <3> QED BY <1>7, <1>8, <1>9, <3>1, InsertedAtEnds
  <2>2. /\ InTurn(Plain(s), decoded[s]) /\ m.n \notin PacketsIn(Plain(s))
        /\ m.n \in decoded[s] \/ \A x \in PacketsIn(Plain(s)) : m.n < x
    BY <1>3, <1>a DEF PacketInv
  <2>3. ASSUME Len(Plain(s)') = 1
        PROVE  PacketsIn(Plain(s)) = {}
    <3>1. n \in Nat /\ n + 1 = 1
      BY <1>9, <2>3, Zenon
    <3>2. 1 .. n = {}
      BY <3>1, SMT
    <3> QED BY <1>8, <3>2 DEF PacketsIn
  <2> QED BY <1>9, <2>1, <2>2, <2>3, InTurnWith
<1>17. PacketInv(s)'
  <2>1. /\ decoded[s] \cup PacketsIn(Plain(s)') \subseteq 1 .. sent[s]
        /\ PacketsIn(Plain(s)') \cap PacketsIn(Prio(s)) = {}
        /\ \A x \in PacketsIn(Plain(s)') \ decoded[s] : \A old \in decoded[s] : old < x
    BY <1>a DEF PacketInv
  <2> QED BY <1>7, <1>11, <1>12, <1>a, <1>b, <2>1 DEF PacketInv
<1>c. DecoderInv(s)'
  <2>1. thread[s] = "have" /\ DecoderInv(s)
    BY <1>0 DEF PutPacketBack, StreamInv
  <2>2. codec[s] \cap (PacketsIn(Plain(s)') \cup PacketsIn(Prio(s))) = {} /\ Kept(s) \subseteq codec[s]
    BY <1>a, <2>1 DEF DecoderInv
  <2> QED BY <1>7, <1>11, <1>12, <2>2 DEF DecoderInv
<1>18. FlushPending(s)' <=> FlushPending(s)
  BY <1>2, <1>3, <1>7, <1>12, Zenon DEF FlushPending
<1>19. FlushInv(s)'
  <2>1. Emptied(s) => PacketsIn(Plain(s)') \subseteq putBack[s] \cup {m.n}
    BY <1>0, <1>3, <1>a DEF StreamInv, FlushInv
  <2>2. ASSUME Told(s), ~FlushPending(s)
        PROVE  codec[s] \cup Kept(s) \cup PacketsIn(Prio(s)) \subseteq putBack[s] \cup {m.n}
    BY <1>0, <1>3, <2>2 DEF StreamInv, FlushInv
  <2>3. (Emptied(s)' <=> Emptied(s)) /\ (Told(s)' <=> Told(s))
    BY <1>1, Zenon DEF Emptied, Told
  <2> QED BY <1>7, <1>11, <1>12, <1>18, <2>1, <2>2, <2>3 DEF FlushInv
<1>20. \A k \in {Newest} : Holds(s, Sync(k))' <=> Holds(s, Sync(k))
  <2>1. \A i \in 1 .. n + 1 : Plain(s)'[i].msg = Sync(Newest) => i \in 1 .. n
    BY <1>3, <1>9, <1>10
  <2>2. \A i \in 1 .. n : i \in 1 .. n + 1
    BY <1>9, SMT
  <2> QED BY <1>2, <1>3, <1>7, <1>8, <1>9, <1>12, <2>1, <2>2, Zenon DEF Holds
<1>21. Sync(Newest)' = Sync(Newest)
  BY <1>11 DEF Sync
<1>22. MeetInv(s)'
  <2>1. Invited(s) => \A i \in 1 .. n + 1 : Plain(s)'[i].msg # Sync(Newest)
    BY <1>0, <1>3, <1>8, <1>9, <1>10 DEF StreamInv, MeetInv
  <2> QED BY <1>0, <1>1, <1>7, <1>9, <1>11, <1>12, <1>18, <1>20, <1>21, <2>1, Zenon
          DEF StreamInv, MeetInv, Invited, AskedNext
<1>23. DrainInv(s)'
  <2>1. ASSUME pc = "draining", s = target
        PROVE  \A i, j \in 1 .. n + 1 :
                 Plain(s)'[i].msg = Sync(Newest) /\ IsPacket(Plain(s)'[j]) => i < j
    <3>1. \A i, j \in 1 .. n : Plain(s)[i].msg = Sync(Newest) /\ IsPacket(Plain(s)[j]) => i < j
      BY <1>0, <1>8, <2>1 DEF StreamInv, DrainInv
    <3>2. \A i \in 1 .. n : i < n + 1
      BY <1>9, SMT
    <3> QED BY <1>3, <1>9, <1>10, <3>1, <3>2
  <2>2. Met(Newest)' <=> Met(Newest)
    BY <1>1 DEF Met, Newest
  <2>3. AllHad(s) => AllHad(s)'
    BY <1>11, <1>12, <1>a DEF AllHad
  <2> QED BY <1>0, <1>1, <1>3, <1>7, <1>9, <1>11, <1>12, <1>20, <1>21, <2>1, <2>2, <2>3, Zenon
          DEF StreamInv, DrainInv
<1>24. AwakeInv(s)'
  BY <1>11 DEF AwakeInv
<1>25. StreamInv(s)'
  BY <1>7, <1>14, <1>15, <1>16, <1>17, <1>c, <1>19, <1>22, <1>23, <1>24 DEF StreamInv
<1> QED BY <1>1, <1>7, <1>13, <1>25, PlayerFrame DEF Alike

(* A player that could not wait any longer has the invitation again, behind*)
(* what has come with priority meanwhile.                                  *)
LEMMA SyncLaterKeeps ==
  ASSUME SInv, NEW s \in Stream, SyncLater(s)
  PROVE  SInv'
<1>0. TypeInv /\ StreamInv(s) /\ queue[s] \in Queues /\ queue \in [Stream -> Queues]
  BY DEF SInv, TypeInv
<1>1. /\ \A t \in Stream \ {s} : Untouched(t)
      /\ UNCHANGED <<syncs, pc, target, m_bAbortRequest>>
  BY SMT DEF SyncLater, Put, Released, SInv, TypeInv, Untouched, decoderVars, mainVars, appVars
<1>2. PICK m : m = pMsg[s]
  OBVIOUS
<1>3. /\ m \in SyncMessage /\ m # NoMessage /\ ~HasPacket(s) /\ ~IsFlush(m) /\ Open(s)
      /\ m.n \in 1 .. Newest /\ m = Sync(m.n) /\ ~Met(m.n)
      /\ syncs[m.n].sources \cap {s, "any"} \subseteq syncs[m.n].reached
  <2>1. /\ m.kind = "sync" /\ ~Met(m.n)
        /\ syncs[m.n].sources \cap {s, "any"} \subseteq syncs[m.n].reached
    BY <1>0, <1>2 DEF SyncLater, StreamInv, HandsInv
  <2>2. m # NoMessage /\ ~HasPacket(s) /\ ~IsFlush(m)
    BY <1>2, <2>1, SMT DEF NoMessage, HasPacket, IsFlush
  <2> QED BY <1>0, <1>2, <2>1, <2>2, Hands
<1>4. queue' = [queue EXCEPT ![s] = Urgent(queue[s], m)]
  BY <1>2 DEF SyncLater, Put, Urgent
<1>5. queue'[s] = Urgent(queue[s], m)
  BY <1>0, <1>4, Zenon
<1>6. PICK e : e = [msg |-> m, priority |-> 1]
  OBVIOUS
<1>7. /\ queue'[s] \in Queues /\ Alike(queue'[s], queue[s])
      /\ Plain(s)' = Plain(s) /\ Prio(s)' = <<e>> \o Prio(s) /\ ExactInv(s)'
  <2>1. queue[s].m_bInitialized /\ m \in SyncMessage \cup Setting
    BY <1>3 DEF Open
  <2>2. /\ queue'[s] \in Queues /\ Alike(queue'[s], queue[s])
        /\ queue'[s].m_messages = queue[s].m_messages
        /\ queue'[s].m_prioMessages = <<e>> \o queue[s].m_prioMessages
        /\ queue'[s].m_iDataSize = queue[s].m_iDataSize
    <3>1. PICK p : p = queue'[s]
      OBVIOUS
    <3>2. /\ p \in Queues /\ Alike(p, queue[s])
          /\ p.m_messages = queue[s].m_messages
          /\ p.m_prioMessages = <<[msg |-> m, priority |-> 1]>> \o queue[s].m_prioMessages
          /\ p.m_iDataSize = queue[s].m_iDataSize
      <4>1. p = Urgent(queue[s], m) /\ queue[s] \in Queues
        BY <1>0, <1>5, <3>1
      <4>2. p \in Queues /\ Alike(p, queue[s]) /\ PlainAlike(p, queue[s])
        BY <2>1, <4>1, PutWithPriority
      <4>3. p.m_prioMessages = <<[msg |-> m, priority |-> 1]>> \o queue[s].m_prioMessages
        BY <2>1, <4>1, PutWithPriority
      <4> QED BY <4>2, <4>3 DEF PlainAlike
    <3> QED BY <1>6, <3>1, <3>2
  <2>3. Plain(s)' = Plain(s) /\ Prio(s)' = <<e>> \o Prio(s)
    BY <2>2 DEF Plain, Prio
  <2> QED BY <1>0, <2>2, <2>3, Zenon DEF ExactInv, StreamInv, SizeIsExact
<1>8. PICK n : n = Len(Prio(s))
  OBVIOUS
<1>9. /\ n \in Nat /\ Len(Prio(s)') = n + 1 /\ Prio(s)'[1] = e /\ e.msg = m
      /\ \A i \in 1 .. n : Prio(s)'[i + 1] = Prio(s)[i]
      /\ \A i \in 2 .. n + 1 : Prio(s)'[i] = Prio(s)[i - 1]
  <2>1. e \in PrioItem /\ e.msg = m
    BY <1>3, <1>6, Items
  <2>2. Prio(s) \in Seq(PrioItem)
    BY <1>0, StreamTypes
  <2> QED BY <1>7, <1>8, <2>1, <2>2, ConsAt, LenProperties
<1>10. /\ \A i \in 1 .. n + 1 : i = 1 \/ i \in 2 .. n + 1
       /\ \A i \in 2 .. n + 1 : i - 1 \in 1 .. n
       /\ \A i \in 1 .. n : i + 1 \in 1 .. n + 1
       /\ 1 \in 1 .. n + 1
  BY <1>9, SMT
<1>11. /\ pMsg'[s] = NoMessage /\ thread'[s] = "get" /\ putBack' = putBack
       /\ codec' = codec /\ m_packets' = m_packets /\ decoded' = decoded /\ sent' = sent
       /\ Newest' = Newest /\ Open(s)' = Open(s)
  <2>1. pMsg'[s] = NoMessage /\ thread'[s] = "get"
    BY <1>0, SMT DEF SyncLater, Released, TypeInv
  <2> QED BY <1>7, <2>1, Zenon DEF SyncLater, decoderVars, mainVars, Newest, Open, Alike
<1>12. /\ ~HasPacket(s)' /\ ~IsFlush(pMsg'[s]) /\ pMsg'[s] # Sync(Newest) /\ Known(pMsg'[s], Newest)
       /\ Sync(Newest)' = Sync(Newest)
       /\ InHands(s)' = {} /\ InHands(s) = {} /\ Kept(s)' = Kept(s)
  <2>1. /\ ~HasPacket(s)' /\ ~IsFlush(pMsg'[s]) /\ pMsg'[s] # Sync(Newest) /\ Known(pMsg'[s], Newest)
        /\ Sync(Newest)' = Sync(Newest)
    BY <1>11, SMT DEF NoMessage, HasPacket, IsFlush, Sync, Known
  <2> QED BY <1>3, <1>11, <2>1, PlacesKept DEF InHands
<1>13. TypeInv'
  <2>1. queue' \in [Stream -> Queues]
    BY <1>0, <1>4, <1>5, <1>7, Zenon
  <2>2. /\ Released(s)
        /\ UNCHANGED <<m_bStop, onlyPrioMsgs, m_paused, decoderVars, mainVars, syncs, appVars>>
    BY DEF SyncLater
  <2> QED BY <1>0, <2>1, <2>2, SMT DEF Released, TypeInv, decoderVars, mainVars, appVars
<1>14. HandsInv(s)'
  BY <1>11, SMT DEF HandsInv
<1>15. ClosedInv(s)'
  BY <1>3, <1>11 DEF ClosedInv
<1>16. KnownInv(s)'
  <2>1. \A i \in 1 .. n : Known(Prio(s)[i].msg, Newest)
    BY <1>0, <1>8 DEF StreamInv, KnownInv
  <2>2. Known(m, Newest)
    BY <1>0, <1>2 DEF StreamInv, KnownInv
  <2>3. \A i \in 1 .. n + 1 : Known(Prio(s)'[i].msg, Newest)
    BY <1>9, <1>10, <2>1, <2>2
  <2> QED BY <1>0, <1>7, <1>9, <1>11, <1>12, <2>3 DEF StreamInv, KnownInv
<1>a. PacketInv(s) /\ PacketsIn(Prio(s)') = PacketsIn(Prio(s)) /\ PacketsLast(Prio(s)')
  <2>1. Inserted(Prio(s)', Prio(s), e, 1)
    <3>1. Prio(s) \in Seq(PrioItem) /\ e \in PrioItem
      BY <1>0, <1>3, <1>6, StreamTypes, Items
    <3> QED BY <1>7, <3>1, InsertedAtEnds
  <2>2. PacketInv(s) /\ ~IsPacket(e)
    BY <1>0, <1>2, <1>3, <1>9 DEF StreamInv, IsPacket, HasPacket
  <2>3. PacketsIn(Prio(s)') = PacketsIn(Prio(s)) \cup PacketOf(e)
    BY <2>1, PacketsInserted
  <2>4. PacketsLast(Prio(s)')
    BY <2>1, <2>2, PacketsLastWith DEF PacketInv
  <2> QED BY <2>2, <2>3, <2>4 DEF PacketOf
<1>17. PacketInv(s)'
  BY <1>7, <1>11, <1>12, <1>a, Zenon DEF PacketInv
<1>b. DecoderInv(s)'
  <2>1. thread[s] = "sync" /\ DecoderInv(s)
    BY <1>0 DEF SyncLater, StreamInv
  <2> QED BY <1>7, <1>11, <1>12, <1>a, <2>1 DEF DecoderInv
<1>18. FlushPending(s)' <=> FlushPending(s)
  <2>1. \A i \in 1 .. n + 1 : IsFlush(Prio(s)'[i].msg) => \E j \in 1 .. n : IsFlush(Prio(s)[j].msg)
    BY <1>3, <1>9, <1>10
  <2>2. \A i \in 1 .. n : IsFlush(Prio(s)[i].msg) => \E j \in 1 .. n + 1 : IsFlush(Prio(s)'[j].msg)
    BY <1>9, <1>10
  <2> QED BY <1>2, <1>3, <1>8, <1>9, <1>12, <2>1, <2>2, Zenon DEF FlushPending
<1>19. FlushInv(s)'
  BY <1>0, <1>1, <1>3, <1>7, <1>11, <1>12, <1>18, <1>a, Zenon DEF StreamInv, FlushInv, Emptied, Told
<1>20. Holds(s, Sync(Newest))' <=> Holds(s, Sync(Newest))
  <2>1. \A i \in 1 .. n + 1 : Prio(s)'[i].msg = Sync(Newest) =>
          m = Sync(Newest) \/ \E j \in 1 .. n : Prio(s)[j].msg = Sync(Newest)
    BY <1>9, <1>10
  <2>2. \A i \in 1 .. n : Prio(s)[i].msg = Sync(Newest) =>
          \E j \in 1 .. n + 1 : Prio(s)'[j].msg = Sync(Newest)
    BY <1>9, <1>10
  <2>3. m = Sync(Newest) => \E j \in 1 .. n + 1 : Prio(s)'[j].msg = Sync(Newest)
    BY <1>9, <1>10
  <2> QED BY <1>2, <1>7, <1>8, <1>9, <1>12, <2>1, <2>2, <2>3, Zenon DEF Holds
<1>22. MeetInv(s)'
  <2>1. ASSUME Invited(s)
        PROVE  \A i, j \in 1 .. n + 1 :
                 Prio(s)'[i].msg = Sync(Newest) /\ IsFlush(Prio(s)'[j].msg) => i < j
    <3>1. /\ \A i, j \in 1 .. n : Prio(s)[i].msg = Sync(Newest) /\ IsFlush(Prio(s)[j].msg) => i < j
          /\ m = Sync(Newest) => ~FlushPending(s)
      BY <1>0, <1>2, <1>8, <2>1 DEF StreamInv, MeetInv
    <3>2. ASSUME NEW i \in 1 .. n + 1, NEW j \in 1 .. n + 1, Prio(s)'[i].msg = Sync(Newest),
                 IsFlush(Prio(s)'[j].msg)
          PROVE  i < j
      <4>1. j \in 2 .. n + 1
        BY <1>3, <1>9, <1>10, <3>2
      <4>2. IsFlush(Prio(s)[j - 1].msg) /\ j - 1 \in 1 .. n
        BY <1>9, <1>10, <3>2, <4>1
      <4>3. CASE i = 1
        BY <4>1, <4>3, SMT
      <4>4. CASE i \in 2 .. n + 1
        <5>1. Prio(s)[i - 1].msg = Sync(Newest) /\ i - 1 \in 1 .. n
          BY <1>9, <1>10, <3>2, <4>4
        <5>2. i - 1 < j - 1
          BY <3>1, <4>2, <5>1
        <5> QED BY <4>1, <4>4, <5>2, SMT
      <4> QED BY <1>10, <4>3, <4>4
    <3> QED BY <3>2
  <2> QED BY <1>0, <1>1, <1>7, <1>9, <1>11, <1>12, <1>18, <1>20, <2>1, Zenon
          DEF StreamInv, MeetInv, Invited, AskedNext
<1>23. DrainInv(s)'
  <2>1. ASSUME pc = "draining", s = target
        PROVE  \A i \in 1 .. n + 1 : Prio(s)'[i].msg # Sync(Newest)
    <3>1. m # Sync(Newest)
      <4>1. SUFFICES ASSUME m.n = Newest
                     PROVE  FALSE
        BY DEF Sync
      <4>2. syncs[Newest].sources = {"any"} /\ syncs[Newest].reached \subseteq syncs[Newest].sources
        BY <1>3, <2>1, <4>1 DEF SInv, MainInv
      <4> QED BY <1>3, <4>1, <4>2 DEF Met
    <3>2. \A i \in 1 .. n : Prio(s)[i].msg # Sync(Newest)
      BY <1>0, <1>8, <2>1 DEF StreamInv, DrainInv
    <3> QED BY <1>9, <1>10, <3>1, <3>2
  <2>2. Met(Newest)' <=> Met(Newest)
    BY <1>1 DEF Met, Newest
  <2>3. AllHad(s)' <=> AllHad(s)
    BY <1>7, <1>11, <1>12 DEF AllHad
  <2> QED BY <1>0, <1>1, <1>3, <1>7, <1>9, <1>11, <1>12, <1>20, <2>1, <2>2, <2>3, Zenon
          DEF StreamInv, DrainInv
<1>24. AwakeInv(s)'
  BY <1>11 DEF AwakeInv
<1>25. StreamInv(s)'
  BY <1>7, <1>14, <1>15, <1>16, <1>17, <1>b, <1>19, <1>22, <1>23, <1>24 DEF StreamInv
<1> QED BY <1>1, <1>7, <1>13, <1>25, PlayerFrame DEF Alike

(* Where a list has one more element, that is one of the others elsewhere. *)
SameOthers(r, l, e) ==
  /\ \A a \in 1 .. Len(r) : r[a] = e \/ \E i \in 1 .. Len(l) : r[a] = l[i]
  /\ \A i \in 1 .. Len(l) : \E a \in 1 .. Len(r) : r[a] = l[i]
  /\ \A a, b \in 1 .. Len(r) : a < b /\ r[a] # e /\ r[b] # e =>
       \E i, j \in 1 .. Len(l) : i < j /\ r[a] = l[i] /\ r[b] = l[j]

(* It has the same others, in the same order.                              *)
LEMMA OthersInserted ==
  ASSUME NEW r, NEW l, NEW e, NEW p, Inserted(r, l, e, p)
  PROVE  SameOthers(r, l, e)
<1>1. /\ \A i \in 1 .. Len(l) : Moved(i, p) \in 1 .. Len(r) /\ r[Moved(i, p)] = l[i]
      /\ r[p] = e
      /\ \A a \in 1 .. Len(r) : a = p \/ \E i \in 1 .. Len(l) : a = Moved(i, p)
      /\ \A i, j \in 1 .. Len(l) : i < j <=> Moved(i, p) < Moved(j, p)
  <2>1. /\ \A i \in 1 .. Len(l) : Moved(i, p) \in 1 .. Len(r)
        /\ \A a \in 1 .. Len(r) : a = p \/ \E i \in 1 .. Len(l) : a = Moved(i, p)
        /\ \A i, j \in 1 .. Len(l) : i < j <=> Moved(i, p) < Moved(j, p)
    BY Places
  <2>2. r[p] = e /\ \A i \in 1 .. Len(l) : r[Moved(i, p)] = l[i]
    BY DEF Inserted
  <2> QED BY <2>1, <2>2, Zenon
<1>2. ASSUME NEW a \in 1 .. Len(r), NEW b \in 1 .. Len(r), a < b, r[a] # e, r[b] # e
      PROVE  \E i, j \in 1 .. Len(l) : i < j /\ r[a] = l[i] /\ r[b] = l[j]
  <2>1. PICK i \in 1 .. Len(l), j \in 1 .. Len(l) : a = Moved(i, p) /\ b = Moved(j, p)
    BY <1>1, <1>2
  <2> QED BY <1>1, <1>2, <2>1
<1>3. \A a \in 1 .. Len(r) : r[a] = e \/ \E i \in 1 .. Len(l) : r[a] = l[i]
  BY <1>1
<1>4. \A i \in 1 .. Len(l) : \E a \in 1 .. Len(r) : r[a] = l[i]
  BY <1>1
<1> QED BY <1>2, <1>3, <1>4 DEF SameOthers

(* A player sends itself a packet again: only the decoder had it.          *)
LEMMA SendAgainKeeps ==
  ASSUME SInv, NEW s \in Stream, SendAgain(s)
  PROVE  SInv'
<1>0. /\ TypeInv /\ StreamInv(s) /\ PacketInv(s) /\ DecoderInv(s)
      /\ queue[s] \in Queues /\ queue \in [Stream -> Queues]
      /\ thread[s] = "recover" /\ pMsg[s] = NoMessage /\ Open(s)
  BY DEF SInv, TypeInv, SendAgain, StreamInv, HandsInv, ClosedInv
<1>1. /\ \A t \in Stream \ {s} : Untouched(t)
      /\ UNCHANGED <<syncs, pc, target, m_bAbortRequest>>
  BY SMT DEF SendAgain, Put, SInv, TypeInv, Untouched, mainVars, appVars
<1>2. PICK m : m = Head(m_packets[s])
  OBVIOUS
<1>3. /\ m \in Packet /\ Tail(m_packets[s]) \in Seq(Packet) /\ Distinct(Tail(m_packets[s]))
      /\ Kept(s) = Numbers(Tail(m_packets[s])) \cup {m.n} /\ m.n \notin Numbers(Tail(m_packets[s]))
  <2>1. m_packets[s] \in Seq(Packet) /\ m_packets[s] # <<>> /\ Distinct(m_packets[s])
    BY <1>0 DEF SendAgain, PacketInv, TypeInv
  <2> QED BY <1>2, <2>1, OneLess DEF Kept
<1>4. queue' = [queue EXCEPT ![s] = Again(queue[s], m)]
  BY <1>2 DEF SendAgain, Put, Again
<1>5. queue'[s] = Again(queue[s], m)
  BY <1>0, <1>4, Zenon
<1>6. PICK e : e = [msg |-> m, priority |-> 10]
  OBVIOUS
<1>7. /\ queue'[s] \in Queues /\ Alike(queue'[s], queue[s]) /\ PlainAlike(queue'[s], queue[s])
      /\ \E place : /\ Inserted(Prio(s)', Prio(s), e, place)
                    /\ \A i \in 1 .. Len(Prio(s)) : i < place <=> ~IsPacket(Prio(s)[i])
  <2>1. PICK p : p = queue'[s]
    OBVIOUS
  <2>2. queue[s].m_bInitialized /\ PacketsLast(queue[s].m_prioMessages) /\ p = Again(queue[s], m)
    BY <1>0, <1>5, <2>1 DEF Open, PacketInv, Prio
  <2>3. /\ p \in Queues /\ Alike(p, queue[s]) /\ PlainAlike(p, queue[s])
        /\ \E place :
             /\ Inserted(p.m_prioMessages, queue[s].m_prioMessages, [msg |-> m, priority |-> 10], place)
             /\ \A i \in 1 .. Len(queue[s].m_prioMessages) :
                  i < place <=> ~IsPacket(queue[s].m_prioMessages[i])
    BY <1>0, <1>3, <2>2, PutAgain
  <2> QED BY <1>6, <2>1, <2>3 DEF Prio
<1>8. PICK place : /\ Inserted(Prio(s)', Prio(s), e, place)
                   /\ \A i \in 1 .. Len(Prio(s)) : i < place <=> ~IsPacket(Prio(s)[i])
  BY <1>7
<1>9. /\ \A a \in 1 .. Len(Prio(s)') :
           Prio(s)'[a] = e \/ \E i \in 1 .. Len(Prio(s)) : Prio(s)'[a] = Prio(s)[i]
      /\ \A i \in 1 .. Len(Prio(s)) : \E a \in 1 .. Len(Prio(s)') : Prio(s)'[a] = Prio(s)[i]
      /\ \A a, b \in 1 .. Len(Prio(s)') : a < b /\ Prio(s)'[a] # e /\ Prio(s)'[b] # e =>
           \E i, j \in 1 .. Len(Prio(s)) : i < j /\ Prio(s)'[a] = Prio(s)[i] /\ Prio(s)'[b] = Prio(s)[j]
  <2>1. SameOthers(Prio(s)', Prio(s), e)
    BY <1>8, OthersInserted
  <2> QED BY <2>1, Zenon DEF SameOthers
<1>10. /\ e.msg = m /\ IsPacket(e) /\ PacketOf(e) = {m.n}
       /\ m # Sync(Newest) /\ ~IsFlush(m) /\ Known(m, Newest)
  <2>1. m.kind = "packet" /\ e.msg = m
    BY <1>3, <1>6, Kinds
  <2>2. m # Sync(Newest) /\ ~IsFlush(m) /\ Known(m, Newest)
    BY <2>1, SMT DEF Sync, IsFlush, Known
  <2> QED BY <2>1, <2>2 DEF IsPacket, PacketOf
<1>11. /\ pMsg' = pMsg /\ thread' = thread /\ putBack' = putBack /\ Plain(s)' = Plain(s)
       /\ codec' = codec /\ m_packets'[s] = Tail(m_packets[s]) /\ decoded' = decoded /\ sent' = sent
       /\ Newest' = Newest /\ Open(s)' = Open(s)
  <2>1. m_packets'[s] = Tail(m_packets[s])
    BY <1>0, Zenon DEF SendAgain, TypeInv
  <2>2. Plain(s)' = Plain(s) /\ Open(s)' = Open(s)
    BY <1>7 DEF Plain, Open, Alike, PlainAlike
  <2> QED BY <2>1, <2>2, Zenon DEF SendAgain, mainVars, Newest
<1>12. /\ ~HasPacket(s) /\ ~IsFlush(pMsg[s]) /\ pMsg[s] # Sync(Newest) /\ InHands(s) = {} /\ InHands(s)' = {}
       /\ Sync(Newest)' = Sync(Newest) /\ Kept(s)' = Numbers(Tail(m_packets[s]))
  <2>1. ~HasPacket(s) /\ ~IsFlush(pMsg[s]) /\ pMsg[s] # Sync(Newest)
    BY <1>0, SMT DEF NoMessage, HasPacket, IsFlush, Sync
  <2>2. InHands(s) = {} /\ InHands(s)' = {}
    BY <1>11, <2>1 DEF InHands, HasPacket
  <2> QED BY <1>11, <2>1, <2>2 DEF Sync, Kept
<1>13. TypeInv'
  <2>1. queue' \in [Stream -> Queues]
    BY <1>0, <1>4, <1>5, <1>7, Zenon
  <2>2. m_packets' \in [Stream -> Seq(Packet)]
    BY <1>0, <1>3, Zenon DEF SendAgain, TypeInv
  <2> QED BY <1>0, <2>1, <2>2, Zenon DEF SendAgain, TypeInv, mainVars, appVars
<1>14. HandsInv(s)'
  BY <1>0, <1>11, SMT DEF HandsInv
<1>15. ClosedInv(s)'
  BY <1>0, <1>11 DEF ClosedInv
<1>16. KnownInv(s)'
  <2>1. \A a \in 1 .. Len(Prio(s)') : Known(Prio(s)'[a].msg, Newest)
    BY <1>0, <1>9, <1>10 DEF StreamInv, KnownInv
  <2> QED BY <1>0, <1>11, <2>1 DEF StreamInv, KnownInv
<1>a. /\ PacketsIn(Prio(s)') = PacketsIn(Prio(s)) \cup {m.n}
      /\ m.n \notin PacketsIn(Plain(s)) \cup PacketsIn(Prio(s))
      /\ Kept(s) \cap (PacketsIn(Plain(s)) \cup PacketsIn(Prio(s))) = {}
      /\ PacketsLast(Prio(s)')
  <2>1. PacketsIn(Prio(s)') = PacketsIn(Prio(s)) \cup PacketOf(e)
    BY <1>8, PacketsInserted
  <2>2. Kept(s) \cap (PacketsIn(Plain(s)) \cup PacketsIn(Prio(s))) = {}
    BY <1>0 DEF DecoderInv
  <2>3. m.n \notin PacketsIn(Plain(s)) \cup PacketsIn(Prio(s))
    BY <1>3, <2>2
  <2>4. PacketsLast(Prio(s)')
    <3>1. PacketsLast(Prio(s)) /\ e.msg.n \notin PacketsIn(Prio(s))
      BY <1>0, <1>10, <2>3 DEF PacketInv
    <3> QED BY <1>8, <1>10, <3>1, PacketsLastWith
  <2> QED BY <1>10, <2>1, <2>2, <2>3, <2>4
<1>17. PacketInv(s)'
  <2>1. codec[s] \cup PacketsIn(Prio(s)') \cup Kept(s)' \subseteq decoded[s]
    BY <1>0, <1>3, <1>12, <1>a DEF PacketInv
  <2>2. PacketsIn(Plain(s)) \cap PacketsIn(Prio(s)') = {}
    BY <1>0, <1>a DEF PacketInv
  <2>3. Distinct(m_packets'[s])
    BY <1>3, <1>11
  <2> QED BY <1>0, <1>11, <1>12, <1>a, <2>1, <2>2, <2>3 DEF PacketInv
<1>b. DecoderInv(s)'
  <2>1. Kept(s)' \cap (PacketsIn(Plain(s)) \cup PacketsIn(Prio(s)')) = {}
    BY <1>3, <1>12, <1>a
  <2> QED BY <1>0, <1>11, <2>1 DEF DecoderInv
<1>18. FlushPending(s)' <=> FlushPending(s)
  BY <1>9, <1>10, <1>11, <1>12, Zenon DEF FlushPending
<1>19. FlushInv(s)'
  <2>1. codec[s] \cup Kept(s) \cup PacketsIn(Prio(s)) \cup InHands(s)
          = codec[s] \cup Kept(s)' \cup PacketsIn(Prio(s)') \cup InHands(s)'
    BY <1>3, <1>12, <1>a
  <2>2. (Emptied(s)' <=> Emptied(s)) /\ (Told(s)' <=> Told(s))
    BY <1>1, Zenon DEF Emptied, Told
  <2> QED BY <1>0, <1>11, <1>18, <2>1, <2>2 DEF StreamInv, FlushInv
<1>20. Holds(s, Sync(Newest))' <=> Holds(s, Sync(Newest))
  <2>1. (\E a \in 1 .. Len(Prio(s)') : Prio(s)'[a].msg = Sync(Newest))
          <=> \E i \in 1 .. Len(Prio(s)) : Prio(s)[i].msg = Sync(Newest)
    <3>1. ASSUME NEW a \in 1 .. Len(Prio(s)'), Prio(s)'[a].msg = Sync(Newest)
          PROVE  \E i \in 1 .. Len(Prio(s)) : Prio(s)[i].msg = Sync(Newest)
      <4>1. PICK i \in 1 .. Len(Prio(s)) : Prio(s)'[a] = Prio(s)[i]
        BY <1>9, <1>10, <3>1
      <4> QED BY <3>1, <4>1
    <3>2. ASSUME NEW i \in 1 .. Len(Prio(s)), Prio(s)[i].msg = Sync(Newest)
          PROVE  \E a \in 1 .. Len(Prio(s)') : Prio(s)'[a].msg = Sync(Newest)
      <4>1. PICK a \in 1 .. Len(Prio(s)') : Prio(s)'[a] = Prio(s)[i]
        BY <1>9
      <4> QED BY <3>2, <4>1
    <3> QED BY <3>1, <3>2, Zenon
  <2> QED BY <1>11, <1>12, <2>1, Zenon DEF Holds
<1>22. MeetInv(s)'
  <2>1. ASSUME Invited(s)
        PROVE  \A a, b \in 1 .. Len(Prio(s)') :
                 Prio(s)'[a].msg = Sync(Newest) /\ IsFlush(Prio(s)'[b].msg) => a < b
    <3>1. \A i, j \in 1 .. Len(Prio(s)) :
            Prio(s)[i].msg = Sync(Newest) /\ IsFlush(Prio(s)[j].msg) => i < j
      BY <1>0, <2>1 DEF StreamInv, MeetInv
    <3> SUFFICES ASSUME NEW a \in 1 .. Len(Prio(s)'), NEW b \in 1 .. Len(Prio(s)'),
                        Prio(s)'[a].msg = Sync(Newest), IsFlush(Prio(s)'[b].msg), ~(a < b)
                 PROVE  FALSE
      OBVIOUS
    <3>2. ~IsFlush(Sync(Newest))
      BY SMT DEF IsFlush, Sync
    <3>3. b < a
      BY <3>2, SMT
    <3>4. PICK i \in 1 .. Len(Prio(s)), j \in 1 .. Len(Prio(s)) :
            i < j /\ Prio(s)'[b] = Prio(s)[i] /\ Prio(s)'[a] = Prio(s)[j]
      BY <1>9, <1>10, <3>3
    <3>5. j < i
      BY <3>1, <3>4
    <3> QED BY <3>4, <3>5, SMT
  <2> QED BY <1>0, <1>1, <1>11, <1>12, <1>18, <1>20, <2>1, Zenon
          DEF StreamInv, MeetInv, Invited, AskedNext
<1>23. DrainInv(s)'
  <2>1. ASSUME pc = "draining", s = target
        PROVE  \A a \in 1 .. Len(Prio(s)') : Prio(s)'[a].msg # Sync(Newest)
    BY <1>0, <1>9, <1>10, <2>1 DEF StreamInv, DrainInv
  <2>2. Met(Newest)' <=> Met(Newest)
    BY <1>1 DEF Met, Newest
  <2>3. AllHad(s)' <=> AllHad(s)
    BY <1>11, <1>12 DEF AllHad
  <2> QED BY <1>0, <1>1, <1>11, <1>12, <1>20, <2>1, <2>2, <2>3, Zenon DEF StreamInv, DrainInv
<1>24. AwakeInv(s)'
  BY <1>0, <1>11 DEF AwakeInv
<1>c. ExactInv(s)'
  BY <1>0, <1>7 DEF StreamInv, ExactInv, SizeIsExact, PlainAlike
<1>25. StreamInv(s)'
  BY <1>14, <1>15, <1>16, <1>17, <1>b, <1>19, <1>22, <1>23, <1>24, <1>c DEF StreamInv
<1> QED BY <1>1, <1>7, <1>13, <1>25, PlayerFrame DEF Alike

(* The decoder begins anew: it has nothing, and so has what was kept.      *)
LEMMA DecoderResetKeeps ==
  ASSUME SInv, NEW s \in Stream, DecoderReset(s)
  PROVE  SInv'
<1>0. /\ TypeInv /\ StreamInv(s) /\ PacketInv(s) /\ thread[s] = "recover" /\ pMsg[s] = NoMessage
      /\ Open(s) /\ Kept(s) = {}
  <2>1. m_packets[s] = <<>>
    BY DEF DecoderReset
  <2>2. Kept(s) = {}
    BY <2>1, NothingRemembered DEF Kept
  <2> QED BY <2>2 DEF SInv, DecoderReset, StreamInv, HandsInv, ClosedInv
<1>1. /\ \A t \in Stream \ {s} : Untouched(t)
      /\ UNCHANGED <<syncs, pc, target, m_bAbortRequest>>
  BY SMT DEF DecoderReset, SInv, TypeInv, Untouched, mainVars, appVars
<1>2. TypeInv'
  BY SMT DEF DecoderReset, SInv, TypeInv, mainVars, appVars
<1>3. /\ thread'[s] = "get" /\ codec'[s] = {} /\ queue' = queue /\ pMsg' = pMsg
      /\ m_packets' = m_packets /\ decoded' = decoded /\ putBack' = putBack /\ sent' = sent
  BY SMT DEF DecoderReset, SInv, TypeInv, mainVars
<1>4. /\ Plain(s)' = Plain(s) /\ Prio(s)' = Prio(s) /\ Open(s)' = Open(s) /\ Newest' = Newest
      /\ InHands(s)' = InHands(s) /\ Kept(s)' = {}
  BY <1>0, <1>1, <1>3, PlacesKept DEF Plain, Prio, Open, Newest
<1>5. HandsInv(s)' /\ ClosedInv(s)'
  BY <1>0, <1>3, <1>4 DEF HandsInv, ClosedInv
<1>6. KnownInv(s)' /\ ExactInv(s)'
  BY <1>0, <1>3, <1>4 DEF StreamInv, KnownInv, ExactInv
<1>7. PacketInv(s)'
  BY <1>0, <1>3, <1>4 DEF PacketInv
<1>8. DecoderInv(s)'
  BY <1>3, <1>4 DEF DecoderInv
<1>9. FlushInv(s)'
  <2>1. (Emptied(s)' <=> Emptied(s)) /\ (Told(s)' <=> Told(s)) /\ (FlushPending(s)' <=> FlushPending(s))
    BY <1>1, <1>3, <1>4, Zenon DEF Emptied, Told, FlushPending
  <2> QED BY <1>0, <1>3, <1>4, <2>1 DEF StreamInv, FlushInv
<1>10. MeetInv(s)'
  BY <1>0, <1>1, <1>3, <1>4, Zenon DEF StreamInv, MeetInv, Invited, AskedNext, FlushPending, Holds
<1>11. DrainInv(s)'
  BY <1>0, <1>1, <1>3, <1>4, Zenon DEF StreamInv, DrainInv, AllHad, Met, Holds
<1>12. AwakeInv(s)'
  BY <1>3 DEF AwakeInv
<1>13. StreamInv(s)'
  BY <1>5, <1>6, <1>7, <1>8, <1>9, <1>10, <1>11, <1>12 DEF StreamInv
<1> QED BY <1>1, <1>2, <1>3, <1>13, PlayerFrame

(* A stream that has come to a rendezvous has come to that one only.       *)
LEMMA Arrived ==
  ASSUME SInv, NEW s \in Stream, NEW k \in 1 .. Newest, Arrive(s, k)
  PROVE  /\ syncs' \in Seq(Rendezvous) /\ Newest' = Newest /\ Newest <= MaxSyncs
         /\ syncs'[k].sources \cap {s, "any"} \subseteq syncs'[k].reached
         /\ \A j \in 1 .. Newest :
              /\ syncs'[j].sources = syncs[j].sources /\ syncs'[j].expired = syncs[j].expired
              /\ syncs[j].reached \subseteq syncs'[j].reached
              /\ syncs'[j].reached \subseteq syncs'[j].sources
              /\ syncs'[j].reached \subseteq syncs[j].reached \cup {s, "any"}
              /\ j # k => syncs'[j] = syncs[j]
              /\ Met(j) => Met(j)'
<1>1. PICK r : r = syncs[k].reached \cup (syncs[k].sources \cap {s, "any"})
  OBVIOUS
<1>2. PICK n : n = Newest
  OBVIOUS
<1>3. /\ n \in Nat /\ n <= MaxSyncs /\ k \in 1 .. n
      /\ \A j \in 1 .. n : syncs[j] \in Rendezvous
      /\ syncs \in Seq(Rendezvous) /\ n = Len(syncs)
  BY <1>2, StreamTypes, ElementOfSeq, SMT DEF SInv, TypeInv, Newest
<1>4. syncs' = [syncs EXCEPT ![k] = [syncs[k] EXCEPT !.reached = r]]
  BY <1>1, <1>3, Zenon DEF Arrive
<1>5. PICK new : new = [syncs[k] EXCEPT !.reached = r]
  OBVIOUS
<1>6. r \in SUBSET Sources /\ r \subseteq syncs[k].sources
  <2>1. syncs[k].reached \subseteq syncs[k].sources
    BY <1>2, <1>3 DEF SInv, MainInv
  <2>2. syncs[k].sources \subseteq Sources
    BY <1>3, SMT DEF Rendezvous, Sources
  <2> QED BY <1>1, <2>1, <2>2
<1>7. /\ new \in Rendezvous /\ new.reached = r /\ new.sources = syncs[k].sources
      /\ new.expired = syncs[k].expired
  BY <1>3, <1>5, <1>6, Zenon DEF Rendezvous
<1>8. /\ syncs' \in Seq(Rendezvous) /\ Newest' = n /\ syncs'[k] = new
      /\ \A j \in 1 .. n : j # k => syncs'[j] = syncs[j]
  <2>1. syncs' = [syncs EXCEPT ![k] = new]
    BY <1>4, <1>5
  <2> QED BY <1>3, <1>7, <2>1, ExceptSeq, SMT DEF Newest
<1>9. new.sources \cap {s, "any"} \subseteq new.reached
  BY <1>1, <1>7
<1>10. /\ syncs[k].reached \subseteq new.reached /\ new.reached \subseteq new.sources
       /\ new.reached \subseteq syncs[k].reached \cup {s, "any"}
  BY <1>1, <1>6, <1>7
<1>11. ASSUME NEW j \in 1 .. n
       PROVE  /\ syncs'[j].sources = syncs[j].sources /\ syncs'[j].expired = syncs[j].expired
              /\ syncs[j].reached \subseteq syncs'[j].reached
              /\ syncs'[j].reached \subseteq syncs'[j].sources
              /\ syncs'[j].reached \subseteq syncs[j].reached \cup {s, "any"}
              /\ j # k => syncs'[j] = syncs[j]
  <2>1. CASE j = k
    BY <1>7, <1>8, <1>10, <2>1
  <2>2. CASE j # k
    BY <1>2, <1>8, <2>2 DEF SInv, MainInv
  <2> QED BY <2>1, <2>2
<1>12. \A j \in 1 .. n : Met(j) => Met(j)'
  BY <1>11 DEF Met
<1> QED BY <1>2, <1>3, <1>8, <1>9, <1>11, <1>12

(* A player comes to a rendezvous: it has no other message in its hands,   *)
(* and waits.                                                              *)
LEMMA HandleSyncKeeps ==
  ASSUME SInv, NEW s \in Stream, HandleSync(s)
  PROVE  SInv'
<1>0. TypeInv /\ StreamInv(s)
  BY DEF SInv
<1>1. PICK k : k = pMsg[s].n
  OBVIOUS
<1>2. /\ pMsg[s] # NoMessage /\ pMsg[s].kind = "sync" /\ k \in 1 .. Newest /\ pMsg[s] = Sync(k)
      /\ ~HasPacket(s)
  <2>1. pMsg[s].kind = "sync" /\ pMsg[s] # NoMessage /\ ~HasPacket(s)
    BY SMT DEF HandleSync, NoMessage, HasPacket
  <2> QED BY <1>0, <1>1, <2>1, Hands
<1>3. Arrive(s, k)
  BY <1>1 DEF HandleSync
<1>4. /\ syncs' \in Seq(Rendezvous) /\ Newest' = Newest /\ Newest <= MaxSyncs
      /\ syncs'[k].sources \cap {s, "any"} \subseteq syncs'[k].reached
      /\ \A j \in 1 .. Newest :
           /\ syncs'[j].sources = syncs[j].sources /\ syncs'[j].expired = syncs[j].expired
           /\ syncs[j].reached \subseteq syncs'[j].reached
           /\ syncs'[j].reached \subseteq syncs'[j].sources
           /\ syncs'[j].reached \subseteq syncs[j].reached \cup {s, "any"}
           /\ j # k => syncs'[j] = syncs[j]
           /\ Met(j) => Met(j)'
  BY <1>2, <1>3, Arrived
<1>5. /\ UNCHANGED <<queue, m_bStop, pMsg, onlyPrioMsgs, m_paused, decoderVars, mainVars, appVars>>
      /\ thread' = [thread EXCEPT ![s] = "sync"]
  BY DEF HandleSync
<1>6. TypeInv'
  BY <1>0, <1>4, <1>5, SMT DEF TypeInv, decoderVars, mainVars, appVars, Newest
<1>7. UNCHANGED <<pc, target, m_bAbortRequest>>
  BY <1>5 DEF mainVars, appVars
<1>8. /\ Newest > 0 => Newest \in 1 .. Newest
      /\ Newest \in Nat /\ Sync(Newest)' = Sync(Newest)
  BY <1>0, <1>4, StreamTypes, SMT DEF Sync
<1>9. MainInv'
  <2>1. MainInv
    BY DEF SInv
  <2>2. \A j \in 1 .. Newest' : syncs'[j].reached \subseteq syncs'[j].sources
    BY <1>4
  <2>3. Open(target)' <=> Open(target)
    BY <1>5, <1>7 DEF Open
  <2>4. pc = "flushed" => (Met(Newest) \/ m_bAbortRequest) /\ Newest > 0
    BY <2>1 DEF MainInv
  <2>5. pc = "flushed" => Met(Newest)' \/ m_bAbortRequest
    BY <1>4, <1>8, <2>4 DEF Met
  <2>6. Newest > 0 => syncs'[Newest].sources = syncs[Newest].sources
    BY <1>4, <1>8
  <2> QED BY <1>4, <1>7, <2>1, <2>2, <2>3, <2>5, <2>6, Zenon DEF MainInv
<1>10. \A t \in Stream :
         /\ MessagesKept(t) /\ (t # s => thread'[t] = thread[t])
         /\ FlushInv(t)' /\ ClosedInv(t)' /\ KnownInv(t)' /\ PacketInv(t)' /\ ExactInv(t)'
         /\ AwakeInv(t)' /\ DecoderInv(t)'
  <2> SUFFICES ASSUME NEW t \in Stream
               PROVE  /\ MessagesKept(t) /\ (t # s => thread'[t] = thread[t])
                      /\ FlushInv(t)' /\ ClosedInv(t)' /\ KnownInv(t)' /\ PacketInv(t)' /\ ExactInv(t)'
                      /\ AwakeInv(t)' /\ DecoderInv(t)'
    OBVIOUS
  <2>0. StreamInv(t)
    BY DEF SInv
  <2>1. MessagesKept(t)
    BY <1>5, Zenon DEF MessagesKept, Plain, Prio, decoderVars, mainVars
  <2>2. /\ t # s => thread'[t] = thread[t]
        /\ thread'[s] = "sync" /\ thread[s] = "have"
    BY <1>0, <1>5, SMT DEF TypeInv, HandleSync
  <2>a. InHands(t)' = InHands(t) /\ Kept(t)' = Kept(t)
    BY <2>1, PlacesKept DEF MessagesKept
  <2>4. Open(t)' = Open(t)
    BY <1>5 DEF Open
  <2>3. FlushInv(t)'
    BY <1>7, <2>0, <2>1, <2>4, <2>a, Zenon DEF StreamInv, MessagesKept, FlushInv, Emptied, Told, FlushPending
  <2>5. ClosedInv(t)'
    BY <2>0, <2>1, <2>2, <2>4, Zenon DEF StreamInv, MessagesKept, ClosedInv
  <2>6. KnownInv(t)'
    BY <1>4, <2>0, <2>1, Zenon DEF StreamInv, MessagesKept, KnownInv, Known
  <2>7. PacketInv(t)'
    BY <2>0, <2>1, <2>a, Zenon DEF StreamInv, MessagesKept, PacketInv, IsFlush
  <2>8. ExactInv(t)'
    BY <2>0, <2>1, Zenon DEF StreamInv, MessagesKept, ExactInv, SizeIsExact, Plain
  <2>9. AwakeInv(t)'
    BY <1>5, <2>0, <2>1, <2>2, Zenon DEF StreamInv, MessagesKept, AwakeInv
  <2>10. DecoderInv(t)'
    <3>1. DecoderInv(t)
      BY <2>0 DEF StreamInv
    <3>2. CASE t = s
      BY <2>1, <2>2, <3>1, <3>2, DecoderKept
    <3>3. CASE t # s
      BY <2>1, <2>2, <3>1, <3>3, DecoderKept
    <3> QED BY <3>2, <3>3
  <2> QED BY <2>1, <2>2, <2>3, <2>5, <2>6, <2>7, <2>8, <2>9, <2>10
<1>11. \A t \in Stream : HandsInv(t)'
  <2>1. HandsInv(s)'
    <3>1. thread'[s] = "sync" /\ pMsg' = pMsg
      BY <1>0, <1>5, SMT DEF TypeInv
    <3>2. /\ pMsg[s] # NoMessage /\ pMsg[s].kind = "sync"
          /\ syncs'[pMsg[s].n].sources \cap {s, "any"} \subseteq syncs'[pMsg[s].n].reached
      BY <1>1, <1>2, <1>4
    <3> QED BY <3>1, <3>2 DEF HandsInv
  <2>2. ASSUME NEW t \in Stream, t # s
        PROVE  HandsInv(t)'
    <3>1. StreamInv(t) /\ thread'[t] = thread[t] /\ pMsg'[t] = pMsg[t]
      BY <1>5, <1>10, <2>2 DEF SInv, MessagesKept
    <3>2. thread[t] = "sync" =>
            /\ pMsg[t].kind = "sync" /\ pMsg[t].n \in 1 .. Newest
            /\ syncs[pMsg[t].n].sources \cap {t, "any"} \subseteq syncs[pMsg[t].n].reached
      BY <1>0, <3>1, Hands DEF StreamInv, HandsInv
    <3>3. thread[t] = "sync" =>
            syncs'[pMsg[t].n].sources \cap {t, "any"} \subseteq syncs'[pMsg[t].n].reached
      BY <1>4, <3>2
    <3> QED BY <3>1, <3>2, <3>3 DEF StreamInv, HandsInv
  <2> QED BY <2>1, <2>2
<1>12. ASSUME NEW t \in Stream
       PROVE  MeetInv(t)'
  <2>0. StreamInv(t) /\ MessagesKept(t)
    BY <1>10 DEF SInv
  <2>1. /\ FlushPending(t)' = FlushPending(t) /\ Holds(t, Sync(Newest))' = Holds(t, Sync(Newest))
        /\ Open(t)' = Open(t) /\ Invited(t)' = Invited(t) /\ AskedNext(t)' = AskedNext(t)
    BY <1>5, <1>7, <1>8, <2>0, Zenon DEF MessagesKept, FlushPending, Holds, Open, Invited, AskedNext
  <2>2. Invited(t) \/ AskedNext(t) => Newest > 0
    BY DEF SInv, MainInv, Invited, AskedNext
  <2>3. Newest > 0 => (t \in syncs[Newest].reached => t \in syncs'[Newest].reached)
    BY <1>4, <1>8
  <2>4. ASSUME Newest > 0, t \in syncs'[Newest].reached
        PROVE  t \in syncs[Newest].reached \/ (t = s /\ pMsg[t] = Sync(Newest))
    <3>1. t # "any"
      BY DEF Stream
    <3>2. CASE k # Newest
      BY <1>4, <1>8, <2>4, <3>2
    <3>3. CASE k = Newest
      BY <1>2, <1>4, <1>8, <2>4, <3>1, <3>3
    <3> QED BY <3>2, <3>3
  <2>7. t = s => Open(t)
    BY <1>0, <1>2, Hands
  <2>5. ASSUME Invited(t)
        PROVE  /\ pMsg'[t] = Sync(Newest) \/ t \in syncs'[Newest].reached => ~FlushPending(t)
               /\ Open(t) => t \in syncs'[Newest].reached \/ Holds(t, Sync(Newest))
               /\ t \in syncs'[Newest].reached => Open(t)
               /\ \A i \in 1 .. Len(Plain(t)) : Plain(t)[i].msg # Sync(Newest)
               /\ \A i, j \in 1 .. Len(Prio(t)) :
                    Prio(t)[i].msg = Sync(Newest) /\ IsFlush(Prio(t)[j].msg) => i < j
    BY <1>5, <2>0, <2>2, <2>3, <2>4, <2>5, <2>7, Zenon DEF StreamInv, MeetInv
  <2>6. ASSUME AskedNext(t)
        PROVE  ~Holds(t, Sync(Newest)) /\ t \notin syncs'[Newest].reached
    <3>1. ~Holds(t, Sync(Newest)) /\ t \notin syncs[Newest].reached
      BY <2>0, <2>6 DEF StreamInv, MeetInv
    <3>2. pMsg[t] # Sync(Newest)
      BY <3>1 DEF Holds
    <3> QED BY <2>2, <2>4, <2>6, <3>1, <3>2
  <2> QED BY <1>4, <1>8, <2>0, <2>1, <2>5, <2>6, Zenon DEF MeetInv, MessagesKept
<1>13. ASSUME NEW t \in Stream
       PROVE  DrainInv(t)'
  <2>0. StreamInv(t) /\ MessagesKept(t)
    BY <1>10 DEF SInv
  <2>1. /\ Holds(t, Sync(Newest))' = Holds(t, Sync(Newest))
        /\ AllHad(t)' = AllHad(t)
    BY <1>5, <1>8, <2>0, PlacesKept, Zenon DEF MessagesKept, Holds, AllHad
  <2>2. pc \in {"draining", "drained"} => Newest \in 1 .. Newest
    BY <1>8 DEF SInv, MainInv
  <2>3. ASSUME pc = "draining", t = target
        PROVE  /\ syncs'[Newest].reached # {} => AllHad(t)
               /\ Met(Newest)' \/ Holds(t, Sync(Newest))
    <3>1. /\ syncs[Newest].reached # {} => AllHad(t)
          /\ pMsg[t] = Sync(Newest) => AllHad(t)
          /\ Met(Newest) \/ Holds(t, Sync(Newest))
      BY <2>0, <2>3, Zenon DEF StreamInv, DrainInv
    <3>2. Met(Newest)' \/ Holds(t, Sync(Newest))
      BY <1>4, <2>2, <2>3, <3>1 DEF Met
    <3>3. CASE k # Newest
      BY <1>4, <2>2, <2>3, <3>1, <3>2, <3>3
    <3>4. CASE k = Newest
      <4>1. t = s
        <5>1. SUFFICES ASSUME s # target
                       PROVE  FALSE
          BY <2>3
        <5>2. ~Holds(s, Sync(Newest))
          BY <1>0, <2>3, <5>1 DEF StreamInv, DrainInv
        <5> QED BY <1>2, <3>4, <5>2 DEF Holds
      <4> QED BY <1>2, <3>1, <3>2, <3>4, <4>1
    <3> QED BY <3>3, <3>4
  <2>4. ASSUME pc = "drained", t = target
        PROVE  syncs'[Newest].expired \/ AllHad(t)
    BY <1>4, <2>0, <2>2, <2>4 DEF StreamInv, DrainInv
  <2>5. pc = "draining" /\ t # target => ~Holds(t, Sync(Newest))
    BY <2>0 DEF StreamInv, DrainInv
  <2>6. pc = "draining" /\ t = target =>
          /\ \A i \in 1 .. Len(Prio(t)) : Prio(t)[i].msg # Sync(Newest)
          /\ \A i, j \in 1 .. Len(Plain(t)) :
               Plain(t)[i].msg = Sync(Newest) /\ IsPacket(Plain(t)[j]) => i < j
          /\ pMsg[t] = Sync(Newest) => AllHad(t)
    BY <2>0, Zenon DEF StreamInv, DrainInv
  <2> QED BY <1>4, <1>7, <1>8, <2>0, <2>1, <2>3, <2>4, <2>5, <2>6, Zenon DEF DrainInv, MessagesKept
<1>14. \A t \in Stream : StreamInv(t)'
  BY <1>10, <1>11, <1>12, <1>13 DEF StreamInv
<1> QED BY <1>6, <1>9, <1>14 DEF SInv

(* Every step of a stream player.                                          *)
LEMMA PlayerStepKeeps ==
  ASSUME SInv, NEW s \in Stream, PlayerStep(s)
  PROVE  SInv'
BY ExitKeeps, GetMessageKeeps, GetWaitsKeeps, GetWakesKeeps, HandleSettingKeeps, HandleFlushKeeps,
   HandlePacketKeeps, PutPacketBackKeeps, SendAgainKeeps, DecoderResetKeeps, HandleSyncKeeps,
   SyncReachedKeeps, SyncLaterKeeps
   DEF PlayerStep

-----------------------------------------------------------------------------
(* The player's thread                                                     *)

(* A stream whose messages are kept and that is not asleep with its event  *)
(* cleared behind its back.                                                *)
LEMMA QuietStatic ==
  ASSUME NEW s \in Stream, MessagesKept(s), syncs' = syncs, StreamInv(s),
         thread'[s] = thread[s], onlyPrioMsgs'[s] = onlyPrioMsgs[s], m_paused'[s] = m_paused[s],
         \/ queue'[s].m_hEvent
         \/ /\ queue'[s].m_hEvent = queue[s].m_hEvent
            /\ queue'[s].m_bAbortRequest = queue[s].m_bAbortRequest
  PROVE  /\ HandsInv(s)' /\ ClosedInv(s)' /\ KnownInv(s)' /\ PacketInv(s)' /\ DecoderInv(s)'
         /\ AwakeInv(s)' /\ ExactInv(s)'
<1>1. HandsInv(s)'
  BY Zenon DEF StreamInv, HandsInv, MessagesKept
<1>2. ClosedInv(s)'
  <2>1. Open(s)' = Open(s)
    BY DEF Open, MessagesKept
  <2> QED BY <2>1, Zenon DEF StreamInv, ClosedInv, MessagesKept
<1>3. AwakeInv(s)'
  BY Zenon DEF StreamInv, AwakeInv, MessagesKept
<1>4. KnownInv(s)' /\ PacketInv(s)' /\ ExactInv(s)'
  BY MessagesKeptStatic DEF StreamInv
<1>5. DecoderInv(s)'
  BY DecoderKept DEF StreamInv
<1> QED BY <1>1, <1>2, <1>3, <1>4, <1>5

(* A step of the player's thread that touches no stream.                   *)
LEMMA MainFrame ==
  ASSUME SInv, UNCHANGED <<queue, playerVars, sent, syncs>>, TypeInv', MainInv',
         \A s \in Stream : FlushInv(s)' /\ MeetInv(s)' /\ DrainInv(s)'
  PROVE  SInv'
<1>1. \A s \in Stream : Untouched(s)
  BY DEF Untouched, playerVars, decoderVars
<1>2. \A s \in Stream : StreamInv(s)'
  BY <1>1, UntouchedStatic DEF SInv, StreamInv
<1> QED BY <1>2 DEF SInv

(* Nothing of its own is moved by these.                                   *)
LEMMA MainTypes ==
  ASSUME SInv, UNCHANGED <<playerVars, sent, opened, syncs, appVars>>,
         queue' \in [Stream -> Queues], leaving' \in BOOLEAN, target' \in Stream,
         pc' \in {"run", "exit", "gone"} \cup Flushing \cup Closing
  PROVE  TypeInv'
BY SMT DEF SInv, TypeInv, playerVars, decoderVars, appVars

(* A flush begins: nothing is done yet.                                    *)
LEMMA FlushBuffersKeeps ==
  ASSUME SInv, FlushBuffers
  PROVE  SInv'
<1>1. /\ pc' = "flush" /\ target' = "audio" /\ Newest < MaxSyncs
      /\ UNCHANGED <<queue, playerVars, leaving, sent, opened, syncs, appVars>>
  BY DEF FlushBuffers, Newest
<1>2. TypeInv'
  BY <1>1, MainTypes, SMT DEF SInv, TypeInv, Stream, Flushing
<1>3. MainInv'
  BY <1>1, SMT DEF SInv, MainInv, Newest, Closing
<1>4. \A s \in Stream : FlushInv(s)' /\ MeetInv(s)' /\ DrainInv(s)'
  BY <1>1, SMT DEF FlushInv, Emptied, Told, MeetInv, Invited, AskedNext, DrainInv
<1> QED BY <1>1, <1>2, <1>3, <1>4, MainFrame

(* Everyone has come to the rendezvous of the flush, or the player is to   *)
(* end.                                                                    *)
LEMMA MeetPlayersKeeps ==
  ASSUME SInv, MeetPlayers
  PROVE  SInv'
<1>1. /\ pc = "meet" /\ pc' = "flushed" /\ (Met(Newest) \/ m_bAbortRequest)
      /\ UNCHANGED <<queue, playerVars, leaving, target, sent, opened, syncs, appVars>>
  BY DEF MeetPlayers, At, Newest
<1>2. TypeInv'
  BY <1>1, MainTypes DEF SInv, TypeInv, Flushing
<1>3. MainInv'
  BY <1>1, SMT DEF SInv, MainInv, Newest, Closing, Met, appVars
<1>4. ASSUME NEW s \in Stream
      PROVE  FlushInv(s)' /\ MeetInv(s)' /\ DrainInv(s)'
  <2>1. MessagesKept(s)
    BY <1>1 DEF MessagesKept, Plain, Prio, playerVars, decoderVars
  <2>2. Emptied(s) /\ Told(s) /\ Invited(s) /\ ~AskedNext(s)'
    BY <1>1 DEF Emptied, Told, Invited, AskedNext
  <2>3. /\ FlushPending(s)' = FlushPending(s) /\ Open(s)' = Open(s)
        /\ InHands(s)' = InHands(s) /\ Kept(s)' = Kept(s)
    BY <2>1, PlacesKept DEF MessagesKept, FlushPending, Open
  <2>4. FlushInv(s)'
    BY <2>1, <2>2, <2>3, Zenon DEF SInv, StreamInv, FlushInv, MessagesKept
  <2>5. MeetInv(s)'
    <3>1. /\ Newest' = Newest /\ Sync(Newest)' = Sync(Newest)
          /\ Holds(s, Sync(Newest))' = Holds(s, Sync(Newest))
      BY <1>1, <2>1, Zenon DEF Newest, Sync, Holds, MessagesKept
    <3> QED BY <1>1, <2>1, <2>2, <2>3, <3>1, Zenon DEF SInv, StreamInv, MeetInv, MessagesKept
  <2> QED BY <1>1, <2>4, <2>5 DEF DrainInv
<1> QED BY <1>1, <1>2, <1>3, <1>4, MainFrame

(* A step to where nothing is at work.                                     *)
LEMMA QuietKeeps ==
  ASSUME SInv, UNCHANGED <<queue, playerVars, sent, opened, syncs, appVars>>,
         leaving' \in BOOLEAN, target' \in Stream, Open(target') \/ pc' \notin Closing,
         pc' \in {"run", "exit", "gone", "abort"}
  PROVE  SInv'
<1>1. TypeInv'
  BY MainTypes DEF SInv, TypeInv, Closing
<1>2. MainInv'
  BY SMT DEF SInv, MainInv, Newest, Closing, Open
<1>3. \A s \in Stream : FlushInv(s)' /\ MeetInv(s)' /\ DrainInv(s)'
  BY NoPhase
<1> QED BY <1>1, <1>2, <1>3, MainFrame

(* The wait for empty buffers is over: what its marker saw behind it is    *)
(* still so, or the time was out.                                          *)
LEMMA DrainedKeeps ==
  ASSUME SInv, Drained
  PROVE  SInv'
<1>1. /\ pc = "draining" /\ pc' = "drained" /\ Met(Newest)
      /\ UNCHANGED <<queue, playerVars, leaving, target, sent, opened, syncs, appVars>>
  BY DEF Drained, At, Newest
<1>2. TypeInv'
  BY <1>1, MainTypes DEF SInv, TypeInv, Closing
<1>3. MainInv'
  <2>1. pc \in Closing
    BY <1>1 DEF Closing
  <2> QED BY <1>1, <2>1, SMT DEF SInv, MainInv, Newest, Open
<1>4. ASSUME NEW s \in Stream
      PROVE  FlushInv(s)' /\ MeetInv(s)' /\ DrainInv(s)'
  <2>1. FlushInv(s)' /\ MeetInv(s)'
    BY <1>1 DEF FlushInv, Emptied, Told, MeetInv, Invited, AskedNext
  <2>2. s = target => syncs[Newest].expired \/ AllHad(s)
    <3>1. syncs[Newest].sources = {"any"}
      BY <1>1 DEF SInv, MainInv
    <3>2. syncs[Newest].expired \/ syncs[Newest].reached # {}
      BY <1>1, <3>1 DEF Met
    <3> QED BY <1>1, <3>2 DEF SInv, StreamInv, DrainInv
  <2>3. AllHad(s)' = AllHad(s) /\ Newest' = Newest
    BY <1>1 DEF AllHad, InHands, HasPacket, Plain, Newest, playerVars, decoderVars
  <2> QED BY <1>1, <2>1, <2>2, <2>3 DEF DrainInv
<1> QED BY <1>1, <1>2, <1>3, <1>4, MainFrame

(* A flag of one queue changes where nothing is at work.                   *)
LEMMA FlagKeeps ==
  ASSUME SInv, NEW s \in Stream, NEW q, queue' = [queue EXCEPT ![s] = q],
         q.m_messages = queue[s].m_messages, q.m_prioMessages = queue[s].m_prioMessages,
         q.m_iDataSize = queue[s].m_iDataSize, q.m_bInitialized = queue[s].m_bInitialized,
         \/ q.m_hEvent
         \/ q.m_hEvent = queue[s].m_hEvent /\ q.m_bAbortRequest = queue[s].m_bAbortRequest,
         UNCHANGED <<thread, pMsg, onlyPrioMsgs, m_paused, decoderVars, sent, syncs>>,
         TypeInv', MainInv',
         pc' \notin {"flush", "tell", "ask", "meet", "flushed", "draining", "drained"}
  PROVE  SInv'
<1>1. queue'[s] = q /\ \A t \in Stream : t # s => queue'[t] = queue[t]
  BY SMT DEF SInv, TypeInv
<1>2. ASSUME NEW t \in Stream
      PROVE  StreamInv(t)'
  <2>1. MessagesKept(t)
    <3>1. CASE t = s
      BY <1>1, <3>1, Zenon DEF MessagesKept, Plain, Prio, decoderVars
    <3>2. CASE t # s
      BY <1>1, <3>2, Zenon DEF MessagesKept, Plain, Prio, decoderVars
    <3> QED BY <3>1, <3>2
  <2>2. \/ queue'[t].m_hEvent
        \/ /\ queue'[t].m_hEvent = queue[t].m_hEvent
           /\ queue'[t].m_bAbortRequest = queue[t].m_bAbortRequest
    BY <1>1
  <2>3. /\ HandsInv(t)' /\ ClosedInv(t)' /\ KnownInv(t)' /\ PacketInv(t)' /\ DecoderInv(t)'
        /\ AwakeInv(t)' /\ ExactInv(t)'
    BY <2>1, <2>2, QuietStatic DEF SInv
  <2> QED BY <2>3, NoPhase DEF StreamInv
<1> QED BY <1>2 DEF SInv

(* A stream is closed: it is open, and its buffers are drained or not.     *)
LEMMA CloseStreamKeeps ==
  ASSUME SInv, NEW s \in Stream, NEW wait \in BOOLEAN, CloseStream(s, wait)
  PROVE  SInv'
<1>1. /\ Open(s) /\ target' = s
      /\ UNCHANGED <<playerVars, leaving, sent, opened, syncs, appVars>>
      /\ leaving' \in BOOLEAN
  BY DEF CloseStream, SInv, TypeInv
<1>2. CASE queue' = queue /\ pc' = "abort"
  BY <1>1, <1>2, QuietKeeps DEF Open
<1>3. CASE queue' = [queue EXCEPT ![s].m_drain = TRUE] /\ pc' = "drain" /\ Newest < MaxSyncs
  <2>1. PICK q : q = [queue[s] EXCEPT !.m_drain = TRUE]
    OBVIOUS
  <2>2. queue[s] \in Queues /\ queue \in [Stream -> Queues]
    BY DEF SInv, TypeInv
  <2>3. /\ q \in Queues
        /\ q.m_messages = queue[s].m_messages /\ q.m_prioMessages = queue[s].m_prioMessages
        /\ q.m_iDataSize = queue[s].m_iDataSize /\ q.m_bInitialized = queue[s].m_bInitialized
        /\ q.m_hEvent = queue[s].m_hEvent /\ q.m_bAbortRequest = queue[s].m_bAbortRequest
    BY <2>1, <2>2, Zenon DEF Queues
  <2>4. queue' = [queue EXCEPT ![s] = q]
    BY <1>3, <2>1, <2>2, Zenon
  <2>5. queue' \in [Stream -> Queues] /\ Open(s)'
    BY <1>1, <2>2, <2>3, <2>4, Zenon DEF Open
  <2>6. TypeInv'
    BY <1>1, <1>3, <2>5, MainTypes DEF Closing
  <2>7. MainInv'
    BY <1>1, <1>3, <2>5, SMT DEF SInv, MainInv, Newest, Closing, Open
  <2> QED BY <1>1, <1>3, <2>3, <2>4, <2>6, <2>7, FlagKeeps DEF playerVars
<1> QED BY <1>2, <1>3 DEF CloseStream, Newest

(* The flush is over, the loop is left, the last stream was closed.        *)
LEMMA QuietSteps ==
  ASSUME SInv, FlushDone \/ LeaveLoop \/ OnExit \/ CloseOne
  PROVE  SInv'
<1>0. leaving \in BOOLEAN /\ target \in Stream /\ "audio" \in Stream /\ "video" \in Stream
  BY DEF SInv, TypeInv, Stream
<1>a. \A p \in {"run", "exit", "gone"} : p \notin Closing
  BY DEF Closing
<1>1. CASE FlushDone
  BY <1>0, <1>1, <1>a, QuietKeeps DEF FlushDone, At
<1>2. CASE LeaveLoop
  BY <1>0, <1>2, <1>a, QuietKeeps DEF LeaveLoop, At
<1>3. CASE OnExit
  BY <1>0, <1>3, <1>a, QuietKeeps, CloseStreamKeeps DEF OnExit
<1>4. CASE CloseOne
  BY <1>4, CloseStreamKeeps DEF CloseOne
<1> QED BY <1>1, <1>2, <1>3, <1>4

(* m_drain is set back.                                                    *)
LEMMA EndDrainKeeps ==
  ASSUME SInv, EndDrain
  PROVE  SInv'
<1>0. /\ pc = "drained" /\ pc' = "abort" /\ queue' = [queue EXCEPT ![target].m_drain = FALSE]
      /\ UNCHANGED <<playerVars, leaving, target, sent, opened, syncs, appVars>>
  BY DEF EndDrain, At
<1>1. /\ target \in Stream /\ queue[target] \in Queues /\ queue \in [Stream -> Queues]
      /\ leaving' \in BOOLEAN /\ target' \in Stream /\ Open(target)
  BY <1>0 DEF SInv, TypeInv, MainInv, Closing
<1>2. PICK q : q = [queue[target] EXCEPT !.m_drain = FALSE]
  OBVIOUS
<1>3. /\ q \in Queues
      /\ q.m_messages = queue[target].m_messages /\ q.m_prioMessages = queue[target].m_prioMessages
      /\ q.m_iDataSize = queue[target].m_iDataSize
      /\ q.m_bInitialized = queue[target].m_bInitialized
      /\ q.m_hEvent = queue[target].m_hEvent /\ q.m_bAbortRequest = queue[target].m_bAbortRequest
  BY <1>1, <1>2, Zenon DEF Queues
<1>4. queue' = [queue EXCEPT ![target] = q]
  BY <1>0, <1>1, <1>2, Zenon
<1>5. queue' \in [Stream -> Queues] /\ Open(target)'
  BY <1>0, <1>1, <1>3, <1>4, Zenon DEF Open
<1>6. TypeInv'
  BY <1>0, <1>1, <1>5, MainTypes DEF Closing
<1>7. MainInv'
  BY <1>0, <1>5, SMT DEF SInv, MainInv, Newest, Open
<1> QED BY <1>0, <1>1, <1>3, <1>4, <1>6, <1>7, FlagKeeps DEF playerVars

(* The queue is aborted, with its event set.                               *)
LEMMA AbortQueueKeeps ==
  ASSUME SInv, AbortQueue
  PROVE  SInv'
<1>0. /\ pc = "abort" /\ pc' = "stop" /\ queue' = [queue EXCEPT ![target] = Aborted(queue[target])]
      /\ UNCHANGED <<playerVars, leaving, target, sent, opened, syncs, appVars>>
  BY DEF AbortQueue, At
<1>1. /\ target \in Stream /\ queue[target] \in Queues /\ queue \in [Stream -> Queues]
      /\ leaving' \in BOOLEAN /\ target' \in Stream /\ Open(target)
  BY <1>0 DEF SInv, TypeInv, MainInv, Closing
<1>2. PICK q : q = Aborted(queue[target])
  OBVIOUS
<1>3. /\ q \in Queues
      /\ q.m_messages = queue[target].m_messages /\ q.m_prioMessages = queue[target].m_prioMessages
      /\ q.m_iDataSize = queue[target].m_iDataSize
      /\ q.m_bInitialized = queue[target].m_bInitialized
      /\ q.m_hEvent = TRUE
  BY <1>1, <1>2, Zenon DEF Queues, Aborted
<1>4. queue' = [queue EXCEPT ![target] = q]
  BY <1>0, <1>1, <1>2, Zenon
<1>5. queue' \in [Stream -> Queues] /\ Open(target)'
  BY <1>0, <1>1, <1>3, <1>4, Zenon DEF Open
<1>6. TypeInv'
  BY <1>0, <1>1, <1>5, MainTypes DEF Closing
<1>7. MainInv'
  BY <1>0, <1>5, SMT DEF SInv, MainInv, Newest, Open
<1> QED BY <1>0, <1>1, <1>3, <1>4, <1>6, <1>7, FlagKeeps DEF playerVars

(* The player's thread is told to stop.                                    *)
LEMMA StopThreadKeeps ==
  ASSUME SInv, StopThread
  PROVE  SInv'
<1>0. /\ pc = "stop" /\ pc' = "join" /\ m_bStop' = [m_bStop EXCEPT ![target] = TRUE]
      /\ UNCHANGED <<queue, thread, pMsg, onlyPrioMsgs, m_paused, decoderVars, leaving, target, sent,
                     opened, syncs, appVars>>
  BY DEF StopThread, At
<1>1. TypeInv'
  BY <1>0, SMT DEF SInv, TypeInv, decoderVars, appVars, Closing
<1>2. MainInv'
  <2>1. pc \in Closing
    BY <1>0 DEF Closing
  <2> QED BY <1>0, <2>1, SMT DEF SInv, MainInv, Newest, Open
<1>3. \A s \in Stream : Untouched(s)
  BY <1>0 DEF Untouched, decoderVars
<1>4. \A s \in Stream : StreamInv(s)'
  BY <1>0, <1>3, UntouchedStatic, NoPhase DEF SInv, StreamInv
<1> QED BY <1>1, <1>2, <1>4 DEF SInv

(* The queue is ended when its thread is.                                  *)
LEMMA EndQueueKeeps ==
  ASSUME SInv, EndQueue
  PROVE  SInv'
<1>0. /\ pc = "join" /\ pc' \in {"run", "exit"} /\ thread[target] = "none"
      /\ queue' = [queue EXCEPT ![target] = Closed(queue[target])]
      /\ codec' = [codec EXCEPT ![target] = {}]
      /\ UNCHANGED <<thread, m_bStop, pMsg, onlyPrioMsgs, m_paused, m_packets, decoded, putBack,
                     leaving, target, sent, opened, syncs, appVars>>
  BY DEF EndQueue, At
<1>1. /\ target \in Stream /\ queue[target] \in Queues /\ queue \in [Stream -> Queues]
  BY DEF SInv, TypeInv
<1>2. PICK q : q = Closed(queue[target])
  OBVIOUS
<1>3. <<>> \in Seq(PlainItem) /\ <<>> \in Seq(PrioItem) /\ 1 .. Len(<<>>) = {} /\ 0 \in Int
  BY EmptySeq, SMT
<1>4. /\ q \in Queues
      /\ q.m_messages = <<>> /\ q.m_prioMessages = <<>> /\ q.m_iDataSize = 0
      /\ q.m_bInitialized = FALSE
  BY <1>1, <1>2, <1>3, Zenon DEF Queues, Closed
<1>5. queue' = [queue EXCEPT ![target] = q]
  BY <1>0, <1>2
<1>6. queue' \in [Stream -> Queues] /\ queue'[target] = q
      /\ \A t \in Stream : t # target => queue'[t] = queue[t]
  BY <1>1, <1>4, <1>5, Zenon
<1>7. codec' \in [Stream -> SUBSET Nat] /\ codec'[target] = {}
      /\ \A t \in Stream : t # target => codec'[t] = codec[t]
  BY <1>0, <1>1, SMT DEF SInv, TypeInv
<1>8. TypeInv'
  BY <1>0, <1>6, <1>7, SMT DEF SInv, TypeInv, appVars
<1>9. MainInv'
  BY <1>0, SMT DEF SInv, MainInv, Newest, Closing
<1>10. ASSUME NEW s \in Stream, s # target
       PROVE  StreamInv(s)'
  <2>1. Untouched(s)
    BY <1>0, <1>6, <1>7, <1>10 DEF Untouched
  <2> QED BY <1>0, <2>1, UntouchedStatic, NoPhase DEF SInv, StreamInv
<1>11. StreamInv(target)'
  <2>1. HandsInv(target) /\ PacketInv(target) /\ KnownInv(target) /\ pMsg[target] = NoMessage
    BY <1>0, <1>1 DEF SInv, StreamInv, HandsInv
  <2>2. Plain(target)' = <<>> /\ Prio(target)' = <<>> /\ ~HasPacket(target)
        /\ Known(NoMessage, Newest)' /\ ~HasPacket(target)'
    BY <1>0, <1>4, <1>6, <2>1, SMT DEF Plain, Prio, HasPacket, NoMessage, Known
  <2>3. HandsInv(target)'
    BY <1>0, <2>1 DEF HandsInv
  <2>4. ClosedInv(target)'
    BY <1>0, <1>7, <2>2 DEF ClosedInv
  <2>5. KnownInv(target)'
    BY <1>0, <1>3, <2>1, <2>2, Zenon DEF KnownInv
  <2>a. /\ PacketsIn(Plain(target))' = {} /\ PacketsIn(Prio(target))' = {}
        /\ InTurn(Plain(target), decoded[target])' /\ PacketsLast(Prio(target))'
    <3>1. PacketsIn(<<>>) = {}
      BY NoPacketIn
    <3>2. \A had : InTurn(<<>>, had)
      BY <1>3 DEF InTurn
    <3>3. PacketsLast(<<>>)
      BY <1>3 DEF PacketsLast
    <3> QED BY <2>2, <3>1, <3>2, <3>3, Zenon
  <2>b. InHands(target)' = InHands(target) /\ Kept(target)' = Kept(target)
    BY <1>0, <1>1, PlacesKept
  <2>c. InHands(target) = {}
    BY <2>2 DEF InHands
  <2>6. PacketInv(target)'
    <3>1. /\ decoded[target] \subseteq 1 .. sent[target] /\ Kept(target) \subseteq decoded[target]
          /\ Distinct(m_packets[target])
      BY <2>1 DEF PacketInv
    <3> QED BY <1>0, <1>7, <2>2, <2>a, <2>b, <2>c, <3>1, Kinds DEF PacketInv, IsFlush, HasPacket
  <2>d. DecoderInv(target)'
    BY <1>0, <1>7 DEF DecoderInv
  <2>7. ExactInv(target)'
    BY <1>0, <1>4, <1>6, SizeOfEmpty DEF ExactInv, SizeIsExact
  <2>8. AwakeInv(target)'
    BY <1>0 DEF AwakeInv
  <2> QED BY <1>0, <1>1, <2>3, <2>4, <2>5, <2>6, <2>d, <2>7, <2>8, NoPhase DEF StreamInv
<1> QED BY <1>0, <1>8, <1>9, <1>10, <1>11 DEF SInv

(* A stream is opened: nothing is in its queue, and its thread asks.       *)
LEMMA OpenStreamKeeps ==
  ASSUME SInv, NEW s \in Stream, OpenStream(s)
  PROVE  SInv'
<1>0. /\ pc = "run" /\ ~Open(s)
      /\ queue' = [queue EXCEPT ![s] = Initialized(queue[s])]
      /\ thread' = [thread EXCEPT ![s] = "get"]
      /\ m_packets' = [m_packets EXCEPT ![s] = <<>>]
      /\ UNCHANGED <<pMsg, m_paused, codec, decoded, putBack, pc, leaving, target, sent, syncs, appVars>>
  BY DEF OpenStream, Running
<1>1. queue[s] \in Queues /\ queue \in [Stream -> Queues] /\ StreamInv(s)
  BY DEF SInv, TypeInv
<1>2. PICK q : q = Initialized(queue[s])
  OBVIOUS
<1>3. /\ q \in Queues
      /\ q.m_messages = queue[s].m_messages /\ q.m_prioMessages = queue[s].m_prioMessages
      /\ q.m_iDataSize = 0 /\ q.m_bInitialized = TRUE
  <2>1. 0 \in Int
    BY SMT
  <2> QED BY <1>1, <1>2, <2>1, Zenon DEF Queues, Initialized
<1>4. queue' = [queue EXCEPT ![s] = q]
  BY <1>0, <1>2
<1>5. queue' \in [Stream -> Queues] /\ queue'[s] = q
      /\ \A t \in Stream : t # s => queue'[t] = queue[t]
  BY <1>1, <1>3, <1>4, Zenon
<1>a. /\ m_packets' \in [Stream -> Seq(Packet)] /\ m_packets'[s] = <<>>
      /\ \A t \in Stream : t # s => m_packets'[t] = m_packets[t]
  <2>1. m_packets \in [Stream -> Seq(Packet)] /\ <<>> \in Seq(Packet)
    BY EmptySeq DEF SInv, TypeInv
  <2> QED BY <1>0, <2>1, Zenon
<1>6. TypeInv'
  BY <1>0, <1>5, <1>a, SMT DEF OpenStream, SInv, TypeInv, appVars
<1>7. MainInv'
  BY <1>0, SMT DEF SInv, MainInv, Newest, Closing
<1>8. ASSUME NEW t \in Stream, t # s
      PROVE  StreamInv(t)'
  <2>1. Untouched(t)
    BY <1>0, <1>5, <1>a, <1>8, SMT DEF Untouched, OpenStream, SInv, TypeInv
  <2> QED BY <1>0, <2>1, UntouchedStatic, NoPhase DEF SInv, StreamInv
<1>9. StreamInv(s)'
  <2>1. thread'[s] = "get" /\ thread[s] = "none" /\ Plain(s) = <<>> /\ Prio(s) = <<>>
    BY <1>0, <1>1, SMT DEF StreamInv, ClosedInv, SInv, TypeInv
  <2>2. pMsg[s] = NoMessage /\ Open(s)' /\ Plain(s)' = Plain(s) /\ Prio(s)' = Prio(s)
    BY <1>1, <1>3, <1>5, <2>1 DEF StreamInv, HandsInv, Open, Plain, Prio
  <2>3. HandsInv(s)'
    BY <1>0, <2>1, <2>2 DEF HandsInv
  <2>4. ClosedInv(s)'
    BY <2>2 DEF ClosedInv
  <2>5. KnownInv(s)'
    BY <1>0, <1>1, <2>2, Zenon DEF StreamInv, KnownInv, Known, Newest
  <2>a. InHands(s)' = InHands(s) /\ Kept(s)' = {} /\ Distinct(m_packets[s])' /\ codec[s] = {}
    <3>1. InHands(s)' = InHands(s)
      BY <1>0, PlacesKept
    <3>2. codec[s] = {}
      BY <1>0, <1>1 DEF StreamInv, ClosedInv
    <3> QED BY <1>a, <3>1, <3>2, NothingRemembered DEF Kept
  <2>6. PacketInv(s)'
    <3>1. PacketInv(s)
      BY <1>1 DEF StreamInv
    <3> QED BY <1>0, <2>2, <2>a, <3>1, SMT DEF PacketInv, IsFlush
  <2>b. DecoderInv(s)'
    BY <1>0, <2>1, <2>a DEF DecoderInv
  <2>7. ExactInv(s)'
    BY <1>3, <1>5, <2>1, <2>2, SizeOfEmpty DEF ExactInv, SizeIsExact, Plain
  <2>8. AwakeInv(s)'
    BY <2>1 DEF AwakeInv
  <2> QED BY <1>0, <2>3, <2>4, <2>5, <2>6, <2>b, <2>7, <2>8, NoPhase DEF StreamInv
<1> QED BY <1>6, <1>7, <1>8, <1>9 DEF SInv

(* A list with one more element in front: what is said of all of it, and of*)
(* the order of any two.                                                   *)
LEMMA InFront ==
  ASSUME NEW S, NEW l \in Seq(S), NEW e \in S, NEW k, k = <<e>> \o l
  PROVE  /\ k \in Seq(S) /\ Len(l) \in Nat /\ Len(k) = Len(l) + 1 /\ k[1] = e
         /\ 1 \in 1 .. Len(k)
         /\ \A i \in 1 .. Len(k) : i = 1 \/ (i - 1 \in 1 .. Len(l) /\ k[i] = l[i - 1])
         /\ \A i \in 1 .. Len(l) : i + 1 \in 1 .. Len(k) /\ k[i + 1] = l[i]
         /\ \A i, j \in 1 .. Len(k) : j < i => i - 1 \in 1 .. Len(l)
         /\ \A i, j \in 1 .. Len(k) : j < i /\ j # 1 => j - 1 < i - 1
         /\ \A i, j \in 1 .. Len(k) : i - 1 < j - 1 => i < j
         /\ \A j \in 1 .. Len(k) : j = 1 \/ 1 < j
<1>1. /\ k \in Seq(S) /\ Len(k) = Len(l) + 1 /\ k[1] = e /\ Len(l) \in Nat
      /\ \A i \in 2 .. Len(l) + 1 : k[i] = l[i - 1]
      /\ \A i \in 1 .. Len(l) : k[i + 1] = l[i]
  BY ConsAt, LenProperties
<1>2. PICK n : n = Len(l)
  OBVIOUS
<1>3. PICK m : m = Len(k)
  OBVIOUS
<1>4. /\ 1 \in 1 .. m
      /\ \A i \in 1 .. m : i = 1 \/ (i - 1 \in 1 .. n /\ i \in 2 .. n + 1)
      /\ \A i \in 1 .. n : i + 1 \in 1 .. m
      /\ \A i, j \in 1 .. m : j < i => i - 1 \in 1 .. n
      /\ \A i, j \in 1 .. m : j < i /\ j # 1 => j - 1 < i - 1
      /\ \A i, j \in 1 .. m : i - 1 < j - 1 => i < j
      /\ \A j \in 1 .. m : j = 1 \/ 1 < j
  BY <1>1, <1>2, <1>3, SMT
<1> QED BY <1>1, <1>2, <1>3, <1>4

(* A packet is put in: it is behind all that are there.                    *)
LEMMA SendPacketKeeps ==
  ASSUME SInv, NEW s \in Stream, SendPacket(s)
  PROVE  SInv'
<1>0. /\ pc = "run" /\ Open(s) /\ sent[s] < MaxPackets[s]
      /\ sent' = [sent EXCEPT ![s] = sent[s] + 1]
      /\ Put(s, [kind |-> "packet", n |-> sent'[s]], 0)
      /\ UNCHANGED <<playerVars, pc, leaving, target, opened, syncs, appVars>>
  BY DEF SendPacket, Running
<1>1. TypeInv /\ queue[s] \in Queues /\ queue \in [Stream -> Queues] /\ StreamInv(s) /\ sent[s] \in Nat
  BY DEF SInv, TypeInv
<1>2. PICK m : m = [kind |-> "packet", n |-> sent[s] + 1]
  OBVIOUS
<1>3. m \in Packet /\ m.kind = "packet" /\ m.n = sent[s] + 1 /\ m \in Packet \cup SyncMessage
  <2>1. MaxPackets[s] \in Nat
    BY BoundsAssumption
  <2>2. sent[s] + 1 \in 1 .. MaxPackets[s]
    BY <1>0, <1>1, <2>1, SMT
  <2> QED BY <1>2, <2>2, SMT DEF Packet
<1>4. sent' \in [Stream -> Nat] /\ sent'[s] = sent[s] + 1
      /\ \A t \in Stream : t # s => sent'[t] = sent[t]
  BY <1>0, SMT DEF SInv, TypeInv
<1>5. queue' = [queue EXCEPT ![s] = Queued(queue[s], m)]
  BY <1>0, <1>2, <1>4 DEF Put, Queued
<1>6. PICK q : q = Queued(queue[s], m)
  OBVIOUS
<1>7. /\ q \in Queues /\ Alike(q, queue[s]) /\ SizeIsExact(q)
      /\ q.m_prioMessages = queue[s].m_prioMessages /\ q.m_hEvent = TRUE
      /\ q.m_messages = <<[msg |-> m, priority |-> 0]>> \o queue[s].m_messages
  <2>1. queue[s].m_bInitialized /\ SizeIsExact(queue[s])
    BY <1>0, <1>1 DEF Open, StreamInv, ExactInv
  <2> QED BY <1>1, <1>3, <1>6, <2>1, PutWithout
<1>8. queue' \in [Stream -> Queues] /\ queue'[s] = q
      /\ \A t \in Stream : t # s => queue'[t] = queue[t]
  <2>1. queue' = [queue EXCEPT ![s] = q]
    BY <1>5, <1>6
  <2> QED BY <1>1, <1>7, <2>1, Zenon
<1>9. TypeInv'
  BY <1>0, <1>4, <1>8, SMT DEF SInv, TypeInv, playerVars, decoderVars, appVars
<1>10. MainInv'
  BY <1>0, SMT DEF SInv, MainInv, Newest, Closing
<1>11. ASSUME NEW t \in Stream, t # s
       PROVE  StreamInv(t)'
  <2>1. Untouched(t)
    BY <1>0, <1>4, <1>8, <1>11, Zenon DEF Untouched, playerVars, decoderVars
  <2> QED BY <1>0, <2>1, UntouchedStatic, NoPhase DEF SInv, StreamInv
<1>12. StreamInv(s)'
  <2>1. PICK e : e = [msg |-> m, priority |-> 0]
    OBVIOUS
  <2>2. e \in PlainItem /\ e.msg = m /\ IsPacket(e)
    BY <1>3, <2>1, Items DEF IsPacket
  <2>3. PICK l : l = Plain(s)
    OBVIOUS
  <2>4. PICK k : k = <<e>> \o l
    OBVIOUS
  <2>5. /\ Plain(s)' = k /\ Prio(s)' = Prio(s) /\ Open(s)'
    BY <1>0, <1>7, <1>8, <2>1, <2>3, <2>4 DEF Plain, Prio, Open, Alike
  <2>6. /\ k[1] = e
        /\ \A i \in 1 .. Len(k) : i = 1 \/ (i - 1 \in 1 .. Len(l) /\ k[i] = l[i - 1])
        /\ Inserted(k, l, e, 1)
    <3>1. l \in Seq(PlainItem)
      BY <1>1, <2>3, StreamTypes
    <3>2. Inserted(k, l, e, 1)
      BY <2>2, <2>4, <3>1, InsertedAtEnds
    <3> QED BY <2>2, <2>4, <3>1, <3>2, InFront
  <2>7. /\ UNCHANGED <<thread, pMsg, syncs, codec, m_packets, decoded, putBack>>
        /\ Newest' = Newest /\ InHands(s)' = InHands(s) /\ Kept(s)' = Kept(s)
    BY <1>0, PlacesKept DEF playerVars, decoderVars, Newest
  <2>8. HandsInv(s)'
    BY <1>1, <2>7, Zenon DEF StreamInv, HandsInv
  <2>9. ClosedInv(s)'
    BY <2>5 DEF ClosedInv
  <2>10. KnownInv(s)'
    <3>1. \A i \in 1 .. Len(l) : Known(l[i].msg, Newest)
      BY <1>1, <2>3 DEF StreamInv, KnownInv
    <3>2. Known(m, Newest)
      BY <1>3, SMT DEF Known
    <3>3. \A i \in 1 .. Len(k) : Known(k[i].msg, Newest)
      BY <2>2, <2>6, <3>1, <3>2
    <3> QED BY <1>1, <2>5, <2>7, <3>3, Zenon DEF StreamInv, KnownInv
  <2>a. PICK b : b = sent[s] + 1
    OBVIOUS
  <2>b. /\ b \in Nat /\ sent'[s] = b /\ 1 .. sent[s] \subseteq 1 .. b /\ b \in 1 .. b
        /\ \A n \in 1 .. sent[s] : n < b /\ n # b
    BY <1>1, <1>4, <2>a, SMT
  <2>c. PacketInv(s) /\ DecoderInv(s)
    BY <1>1 DEF StreamInv
  <2>d. \A n \in decoded[s] \cup PacketsIn(l) \cup InHands(s) \cup codec[s] \cup PacketsIn(Prio(s))
                   \cup Kept(s) : n < b /\ n # b
    BY <2>3, <2>b, <2>c DEF PacketInv
  <2>e. PacketsIn(k) = PacketsIn(l) \cup {b}
    <3>1. PacketsIn(k) = PacketsIn(l) \cup PacketOf(e)
      BY <2>6, PacketsInserted
    <3> QED BY <1>3, <2>2, <2>a, <3>1 DEF PacketOf
  <2>f. InTurn(k, decoded[s])
    <3>1. e.msg.n = b /\ InTurn(l, decoded[s])
      BY <1>3, <2>2, <2>3, <2>a, <2>c DEF PacketInv
    <3> QED BY <2>6, <2>d, <3>1, InTurnWith
  <2>11. PacketInv(s)'
    <3>1. decoded[s] \cup PacketsIn(k) \cup InHands(s) \subseteq 1 .. b
      BY <2>3, <2>b, <2>c, <2>e DEF PacketInv
    <3>2. /\ PacketsIn(k) \cap PacketsIn(Prio(s)) = {}
          /\ InHands(s) \cap (PacketsIn(k) \cup PacketsIn(Prio(s))) = {}
      BY <2>3, <2>c, <2>d, <2>e DEF PacketInv
    <3>3. \A n \in (PacketsIn(k) \cup InHands(s)) \ decoded[s] : \A old \in decoded[s] : old < n
      BY <2>3, <2>c, <2>d, <2>e DEF PacketInv
    <3>4. \A n \in InHands(s) \ decoded[s] :
            PacketsIn(Prio(s)) = {} /\ \A other \in PacketsIn(k) : n < other
      BY <2>3, <2>c, <2>d, <2>e DEF PacketInv
    <3> QED BY <2>5, <2>7, <2>b, <2>c, <2>f, <3>1, <3>2, <3>3, <3>4, Zenon DEF PacketInv
  <2>g. DecoderInv(s)'
    <3>1. /\ codec[s] \cap (PacketsIn(l) \cup PacketsIn(Prio(s)) \cup InHands(s)) = {} =>
               codec[s] \cap (PacketsIn(k) \cup PacketsIn(Prio(s)) \cup InHands(s)) = {}
          /\ Kept(s) \cap (PacketsIn(l) \cup PacketsIn(Prio(s))) = {} =>
               Kept(s) \cap (PacketsIn(k) \cup PacketsIn(Prio(s))) = {}
      BY <2>d, <2>e
    <3> QED BY <2>3, <2>5, <2>7, <2>c, <3>1, Zenon DEF DecoderInv
  <2>12. ExactInv(s)'
    BY <1>7, <1>8 DEF ExactInv
  <2>13. AwakeInv(s)'
    BY <1>7, <1>8 DEF AwakeInv
  <2> QED BY <1>0, <2>8, <2>9, <2>10, <2>11, <2>g, <2>12, <2>13, NoPhase DEF StreamInv
<1> QED BY <1>9, <1>10, <1>11, <1>12 DEF SInv

(* What is left of an empty list.                                          *)
LEMMA NothingLeft ==
  ASSUME NEW S, NEW l \in Seq(S), NEW old, old = <<>>,
         \A i \in 1 .. Len(l) : \E j \in 1 .. Len(old) : l[i] = old[j]
  PROVE  l = <<>>
<1>1. 1 .. Len(old) = {}
  BY SMT
<1>2. Len(l) \in Nat /\ \A i \in 1 .. Len(l) : FALSE
  BY <1>1, LenProperties
<1>3. Len(l) = 0
  BY <1>2, SMT
<1> QED BY <1>3, EmptySeq

(* A queue is emptied of its packets; the phases of the flush go on with   *)
(* the order to flush.                                                     *)
LEMMA FlushPacketsKeeps ==
  ASSUME SInv, FlushPackets
  PROVE  SInv'
<1>0. /\ pc = "flush" /\ pc' = "tell"
      /\ queue' = [queue EXCEPT ![target] = FlushedOfPackets(queue[target])]
      /\ putBack' = [putBack EXCEPT ![target] = {}]
      /\ UNCHANGED <<thread, m_bStop, pMsg, onlyPrioMsgs, m_paused, codec, m_packets, decoded,
                     leaving, target, sent, opened, syncs, appVars>>
  BY DEF FlushPackets, At
<1>1. /\ TypeInv /\ target \in Stream /\ queue[target] \in Queues /\ queue \in [Stream -> Queues]
      /\ StreamInv(target) /\ leaving \in BOOLEAN
  BY DEF SInv, TypeInv
<1>2. PICK q : q = FlushedOfPackets(queue[target])
  OBVIOUS
<1>3. /\ q \in Queues /\ Alike(q, queue[target]) /\ q.m_hEvent = queue[target].m_hEvent
      /\ SizeIsExact(q)
      /\ LeftOf(q.m_messages, queue[target].m_messages)
      /\ LeftOf(q.m_prioMessages, queue[target].m_prioMessages)
  BY <1>1, <1>2, FlushedQueue
<1>4. queue' \in [Stream -> Queues] /\ queue'[target] = q
      /\ \A t \in Stream : t # target => queue'[t] = queue[t]
  <2>1. queue' = [queue EXCEPT ![target] = q]
    BY <1>0, <1>2
  <2> QED BY <1>1, <1>3, <2>1, Zenon
<1>a. /\ putBack' \in [Stream -> SUBSET Nat]
      /\ \A t \in Stream : t # target => putBack'[t] = putBack[t]
  <2>1. putBack \in [Stream -> SUBSET Nat] /\ {} \in SUBSET Nat
    BY <1>1 DEF TypeInv
  <2> QED BY <1>0, <1>1, <2>1, Zenon
<1>5. TypeInv'
  BY <1>0, <1>1, <1>4, <1>a, SMT DEF TypeInv, appVars, Flushing
<1>6. MainInv'
  BY <1>0, SMT DEF SInv, MainInv, Newest, Closing
<1>7. \A s \in Stream : /\ MeetInv(s)' /\ DrainInv(s)'
                        /\ Emptied(s)' => Emptied(s) \/ s = target
                        /\ Told(s)' => Told(s) /\ s # target
  BY <1>0, <1>1, SMT DEF MeetInv, Invited, AskedNext, DrainInv, Emptied, Told, Stream
<1>8. ASSUME NEW s \in Stream, s # target
      PROVE  StreamInv(s)'
  <2>1. Untouched(s)
    BY <1>0, <1>4, <1>a, <1>8, Zenon DEF Untouched
  <2>2. FlushInv(s)'
    <3>1. /\ Plain(s)' = Plain(s) /\ Prio(s)' = Prio(s) /\ Open(s)' = Open(s)
          /\ FlushPending(s)' = FlushPending(s)
      BY <2>1, Zenon DEF Untouched, Plain, Prio, Open, FlushPending
    <3>2. InHands(s)' = InHands(s) /\ Kept(s)' = Kept(s)
      BY <2>1, PlacesKept DEF Untouched
    <3> QED BY <1>7, <1>8, <2>1, <3>1, <3>2, Zenon DEF SInv, StreamInv, FlushInv, Untouched
  <2> QED BY <1>0, <1>7, <2>1, <2>2, UntouchedStatic DEF SInv, StreamInv
<1>9. StreamInv(target)'
  <2>1. /\ UNCHANGED <<thread, pMsg, onlyPrioMsgs, m_paused, codec, m_packets, decoded, sent, syncs>>
        /\ Newest' = Newest /\ target' = target
        /\ InHands(target)' = InHands(target) /\ Kept(target)' = Kept(target)
    BY <1>0, <1>1, PlacesKept DEF Newest
  <2>2. /\ LeftOf(Plain(target)', Plain(target)) /\ LeftOf(Prio(target)', Prio(target))
        /\ Open(target)' = Open(target)
        /\ queue'[target].m_hEvent = queue[target].m_hEvent
        /\ queue'[target].m_bAbortRequest = queue[target].m_bAbortRequest
    BY <1>3, <1>4, <2>1 DEF Plain, Prio, Alike, Open
  <2>3. /\ Plain(target) = <<>> => Plain(target)' = <<>>
        /\ Prio(target) = <<>> => Prio(target)' = <<>>
    <3>1. Plain(target)' \in Seq(PlainItem) /\ Prio(target)' \in Seq(PrioItem)
      BY <1>3, <1>4, <2>1, QueueFields DEF Plain, Prio
    <3> QED BY <2>2, <3>1, NothingLeft DEF LeftOf
  <2>4. HandsInv(target)'
    BY <1>1, <2>1, Zenon DEF StreamInv, HandsInv
  <2>5. ClosedInv(target)'
    BY <1>1, <2>1, <2>2, <2>3 DEF StreamInv, ClosedInv
  <2>6. KnownInv(target)'
    BY <1>1, <2>1, <2>2, Zenon DEF StreamInv, KnownInv, LeftOf
  <2>a. PacketsIn(Plain(target))' = {} /\ PacketsIn(Prio(target))' = {}
    <3>1. /\ PacketsIn(Plain(target)') = {} <=>
               \A i \in 1 .. Len(Plain(target)') : ~IsPacket(Plain(target)'[i])
          /\ PacketsIn(Prio(target)') = {} <=>
               \A i \in 1 .. Len(Prio(target)') : ~IsPacket(Prio(target)'[i])
      BY NoPacketIn
    <3> QED BY <2>2, <3>1 DEF LeftOf
  <2>b. InTurn(Plain(target), decoded[target])' /\ PacketsLast(Prio(target))'
    <3>1. \A l, had : (\A i \in 1 .. Len(l) : ~IsPacket(l[i])) => InTurn(l, had) /\ PacketsLast(l)
      BY DEF InTurn, PacketsLast
    <3> QED BY <2>2, <3>1, Zenon DEF LeftOf
  <2>c. PacketInv(target) /\ DecoderInv(target)
    BY <1>1 DEF StreamInv
  <2>7. PacketInv(target)'
    <3>1. /\ decoded[target] \cup InHands(target) \subseteq 1 .. sent[target]
          /\ codec[target] \cup Kept(target) \subseteq decoded[target]
          /\ Distinct(m_packets[target])
          /\ \A n \in InHands(target) \ decoded[target] : \A old \in decoded[target] : old < n
      BY <2>c DEF PacketInv
    <3> QED BY <2>1, <2>a, <2>b, <3>1 DEF PacketInv
  <2>d. DecoderInv(target)'
    <3>1. /\ thread[target] \notin {"none", "recover"} => Kept(target) \subseteq codec[target]
          /\ thread[target] # "recover" => codec[target] \cap InHands(target) = {}
      BY <2>c DEF DecoderInv
    <3> QED BY <2>1, <2>a, <3>1 DEF DecoderInv
  <2>8. ExactInv(target)'
    BY <1>3, <1>4, <2>1 DEF ExactInv
  <2>9. AwakeInv(target)'
    BY <1>1, <2>1, <2>2, <2>3 DEF StreamInv, AwakeInv
  <2>10. FlushInv(target)'
    BY <1>1, <1>7, <2>1, <2>a DEF FlushInv
  <2> QED BY <1>1, <1>7, <2>1, <2>4, <2>5, <2>6, <2>7, <2>d, <2>8, <2>9, <2>10 DEF StreamInv
<1> QED BY <1>0, <1>5, <1>6, <1>8, <1>9 DEF SInv

(* The messages with priority after m was put in front of them.            *)
FirstOf(new, old, m) ==
  /\ new[1].msg = m /\ 1 \in 1 .. Len(new)
  /\ \A i \in 1 .. Len(new) : i = 1 \/ (i - 1 \in 1 .. Len(old) /\ new[i] = old[i - 1])
  /\ \A i \in 1 .. Len(old) : i + 1 \in 1 .. Len(new) /\ new[i + 1] = old[i]
  /\ \A i, j \in 1 .. Len(new) : i - 1 < j - 1 => i < j
  /\ \A j \in 1 .. Len(new) : j = 1 \/ 1 < j

(* A stream that is sent a message with priority: if it is open, it is the *)
(* first of those, otherwise it is dropped.                                *)
LEMMA SentUrgently ==
  ASSUME TypeInv, NEW s \in Stream, NEW m \in SyncMessage \cup Setting,
         queue'[s] = Urgent(queue[s], m)
  PROVE  /\ queue'[s] \in Queues /\ Open(s)' = Open(s) /\ Plain(s)' = Plain(s)
         /\ queue'[s].m_iDataSize = queue[s].m_iDataSize
         /\ PacketsIn(Prio(s)') = PacketsIn(Prio(s))
         /\ PacketsLast(Prio(s)) => PacketsLast(Prio(s)')
         /\ ~Open(s) => queue'[s] = queue[s]
         /\ Open(s) =>
              /\ queue'[s].m_hEvent = TRUE
              /\ FirstOf(Prio(s)', Prio(s), m)
<1>1. queue[s] \in Queues /\ Prio(s) \in Seq(PrioItem)
  BY StreamTypes
<1>2. PICK p : p = Urgent(queue[s], m)
  OBVIOUS
<1>3. /\ p \in Queues /\ Alike(p, queue[s]) /\ PlainAlike(p, queue[s])
  BY <1>1, <1>2, PutWithPriority
<1>4. ~Open(s) => p = queue[s]
  BY <1>1, <1>2, PutWithPriority DEF Open
<1>5. Open(s) => /\ p.m_prioMessages = <<[msg |-> m, priority |-> 1]>> \o queue[s].m_prioMessages
                 /\ p.m_hEvent = TRUE
  BY <1>1, <1>2, PutWithPriority DEF Open
<1>6. PICK e : e = [msg |-> m, priority |-> 1]
  OBVIOUS
<1>7. e \in PrioItem /\ e.msg = m
  BY <1>6, Items
<1>8. PICK k : k = <<e>> \o Prio(s)
  OBVIOUS
<1>9. Open(s) => Prio(s)' = k /\ queue'[s].m_hEvent = TRUE
  BY <1>2, <1>5, <1>6, <1>8 DEF Prio
<1>10. /\ k[1] = e /\ 1 \in 1 .. Len(k)
       /\ \A i \in 1 .. Len(k) : i = 1 \/ (i - 1 \in 1 .. Len(Prio(s)) /\ k[i] = Prio(s)[i - 1])
       /\ \A i \in 1 .. Len(Prio(s)) : i + 1 \in 1 .. Len(k) /\ k[i + 1] = Prio(s)[i]
       /\ \A i, j \in 1 .. Len(k) : i - 1 < j - 1 => i < j
       /\ \A j \in 1 .. Len(k) : j = 1 \/ 1 < j
  BY <1>1, <1>7, <1>8, InFront
<1>11. /\ queue'[s] \in Queues /\ Open(s)' = Open(s) /\ Plain(s)' = Plain(s)
       /\ queue'[s].m_iDataSize = queue[s].m_iDataSize
       /\ ~Open(s) => queue'[s] = queue[s]
  BY <1>2, <1>3, <1>4 DEF Alike, PlainAlike, Open, Plain
<1>12. PacketsIn(k) = PacketsIn(Prio(s)) /\ (PacketsLast(Prio(s)) => PacketsLast(k))
  <2>1. ~IsPacket(e)
    BY <1>7, Kinds, SMT DEF IsPacket
  <2>2. Inserted(k, Prio(s), e, 1)
    BY <1>1, <1>7, <1>8, InsertedAtEnds
  <2>3. PacketsIn(k) = PacketsIn(Prio(s)) \cup PacketOf(e)
    BY <2>2, PacketsInserted
  <2>4. PacketsLast(Prio(s)) => PacketsLast(k)
    BY <2>1, <2>2, PacketsLastWith
  <2> QED BY <2>1, <2>3, <2>4 DEF PacketOf
<1>13. /\ PacketsIn(Prio(s)') = PacketsIn(Prio(s))
       /\ PacketsLast(Prio(s)) => PacketsLast(Prio(s)')
  <2>1. CASE Open(s)
    BY <1>9, <1>12, <2>1
  <2>2. CASE ~Open(s)
    <3>1. Prio(s)' = Prio(s)
      BY <1>11, <2>2 DEF Prio
    <3> QED BY <3>1
  <2> QED BY <2>1, <2>2
<1>14. FirstOf(k, Prio(s), m)
  BY <1>7, <1>10 DEF FirstOf
<1>15. Open(s) => FirstOf(Prio(s)', Prio(s), m)
  BY <1>9, <1>14
<1> QED BY <1>9, <1>11, <1>13, <1>15

(* What was announced stays announced, ...                                 *)
LEMMA KnownGrows ==
  ASSUME SInv, NEW s \in Stream, NEW n \in Nat, Newest <= n
  PROVE  /\ Known(pMsg[s], n)
         /\ \A i \in 1 .. Len(Plain(s)) : Known(Plain(s)[i].msg, n)
         /\ \A i \in 1 .. Len(Prio(s)) : Known(Prio(s)[i].msg, n)
<1>0. TypeInv /\ StreamInv(s) /\ Newest \in Nat
  BY StreamTypes DEF SInv
<1>1. ASSUME NEW x \in Message \cup {NoMessage}, Known(x, Newest)
      PROVE  Known(x, n)
  <2>1. x.kind = "sync" => x.n \in Nat
    <3>1. CASE x = NoMessage
      BY <3>1, SMT DEF NoMessage
    <3>2. CASE x \in Message
      <4>1. x.kind = "sync" => x \in SyncMessage
        BY <3>2, KindOf
      <4> QED BY <4>1, SMT DEF SyncMessage
    <3> QED BY <3>1, <3>2
  <2> QED BY <1>0, <1>1, <2>1, SMT DEF Known
<1>2. /\ pMsg[s] \in Message \cup {NoMessage}
      /\ \A i \in 1 .. Len(Plain(s)) : Plain(s)[i].msg \in Message \cup {NoMessage}
      /\ \A i \in 1 .. Len(Prio(s)) : Prio(s)[i].msg \in Message \cup {NoMessage}
  <2>1. \A i \in 1 .. Len(Plain(s)) : Plain(s)[i] \in PlainItem
    BY <1>0, StreamTypes, ElementOfSeq
  <2>2. \A i \in 1 .. Len(Prio(s)) : Prio(s)[i] \in PrioItem
    BY <1>0, StreamTypes, ElementOfSeq
  <2>3. \A x \in PlainItem : x.msg \in Message
    BY PlainItems, Kinds
  <2>4. \A x \in PrioItem : x.msg \in Message
    BY Items, Kinds
  <2> QED BY <1>0, <2>1, <2>2, <2>3, <2>4, StreamTypes
<1> QED BY <1>0, <1>1, <1>2 DEF StreamInv, KnownInv

(* ... and a rendezvous that was not announced, nobody is asked to.        *)
LEMMA Unannounced ==
  ASSUME SInv, NEW s \in Stream
  PROVE  /\ pMsg[s] # Sync(Newest + 1)
         /\ \A i \in 1 .. Len(Plain(s)) : Plain(s)[i].msg # Sync(Newest + 1)
         /\ \A i \in 1 .. Len(Prio(s)) : Prio(s)[i].msg # Sync(Newest + 1)
<1>1. \A x : Known(x, Newest) => x # Sync(Newest + 1)
  <2>1. Newest \in Nat
    BY StreamTypes DEF SInv
  <2> QED BY <2>1, SMT DEF Known, Sync
<1> QED BY <1>1 DEF SInv, StreamInv, KnownInv

(* Then it has what it had, and that message if it is open.                *)
LEMMA UrgentStatic ==
  ASSUME SInv, NEW s \in Stream, NEW m \in SyncMessage \cup Setting,
         queue'[s] = Urgent(queue[s], m), UNCHANGED playerVars, sent' = sent,
         Newest <= Newest', Newest' \in Nat, Known(m, Newest'),
         \A k \in 1 .. Newest : syncs'[k] = syncs[k]
  PROVE  /\ HandsInv(s)' /\ ClosedInv(s)' /\ KnownInv(s)' /\ PacketInv(s)' /\ DecoderInv(s)'
         /\ AwakeInv(s)' /\ ExactInv(s)'
         /\ InHands(s)' = InHands(s) /\ Kept(s)' = Kept(s)
         /\ PacketsIn(Prio(s))' = PacketsIn(Prio(s))
         /\ FlushPending(s)' <=> FlushPending(s) \/ (Open(s) /\ IsFlush(m))
         /\ \A x : (pMsg'[s] = x \/ \E i \in 1 .. Len(Prio(s)') : Prio(s)'[i].msg = x)
                     <=> \/ pMsg[s] = x
                         \/ \E i \in 1 .. Len(Prio(s)) : Prio(s)[i].msg = x
                         \/ Open(s) /\ m = x
<1>0. TypeInv /\ StreamInv(s) /\ Newest \in Nat
  BY StreamTypes DEF SInv
<1>1. /\ UNCHANGED <<thread, pMsg, onlyPrioMsgs, m_paused, codec, m_packets, decoded, putBack>>
      /\ InHands(s)' = InHands(s) /\ Kept(s)' = Kept(s)
  BY PlacesKept DEF playerVars, decoderVars
<1>2. /\ queue'[s] \in Queues /\ Open(s)' = Open(s) /\ Plain(s)' = Plain(s)
      /\ queue'[s].m_iDataSize = queue[s].m_iDataSize
      /\ PacketsIn(Prio(s)') = PacketsIn(Prio(s))
      /\ PacketsLast(Prio(s)) => PacketsLast(Prio(s)')
      /\ ~Open(s) => queue'[s] = queue[s] /\ Prio(s)' = Prio(s)
  BY <1>0, SentUrgently DEF Prio
<1>f. Open(s) => queue'[s].m_hEvent = TRUE /\ FirstOf(Prio(s)', Prio(s), m)
  BY <1>0, SentUrgently
<1>3. Open(s) =>
        /\ queue'[s].m_hEvent = TRUE
        /\ Prio(s)'[1].msg = m /\ 1 \in 1 .. Len(Prio(s)')
        /\ \A i \in 1 .. Len(Prio(s)') :
             i = 1 \/ (i - 1 \in 1 .. Len(Prio(s)) /\ Prio(s)'[i] = Prio(s)[i - 1])
        /\ \A i \in 1 .. Len(Prio(s)) : i + 1 \in 1 .. Len(Prio(s)') /\ Prio(s)'[i + 1] = Prio(s)[i]
  BY <1>f DEF FirstOf
<1>4. HandsInv(s)'
  <2>1. thread[s] = "sync" => pMsg[s].n \in 1 .. Newest
    BY <1>0, Hands DEF StreamInv, HandsInv
  <2> QED BY <1>0, <1>1, <2>1, Zenon DEF StreamInv, HandsInv
<1>5. ClosedInv(s)'
  BY <1>0, <1>1, <1>2, Zenon DEF StreamInv, ClosedInv
<1>6. AwakeInv(s)'
  BY <1>0, <1>1, <1>2, <1>3, Zenon DEF StreamInv, ClosedInv, AwakeInv
<1>7. ExactInv(s)'
  BY <1>0, <1>2, Zenon DEF StreamInv, ExactInv, SizeIsExact, Plain
<1>a. PacketsIn(Prio(s))' = PacketsIn(Prio(s)) /\ (PacketsLast(Prio(s)) => PacketsLast(Prio(s))')
  BY <1>2 DEF PacketsIn, PacketsLast
<1>8. PacketInv(s)'
  BY <1>0, <1>1, <1>2, <1>a, Zenon DEF StreamInv, PacketInv, IsFlush
<1>b. DecoderInv(s)'
  BY <1>0, <1>1, <1>2, <1>a, Zenon DEF StreamInv, DecoderInv
<1>9. KnownInv(s)'
  <2>3. /\ Known(pMsg[s], Newest')
        /\ \A i \in 1 .. Len(Plain(s)) : Known(Plain(s)[i].msg, Newest')
        /\ \A i \in 1 .. Len(Prio(s)) : Known(Prio(s)[i].msg, Newest')
    BY KnownGrows
  <2>4. \A i \in 1 .. Len(Prio(s)') : Known(Prio(s)'[i].msg, Newest')
    <3>1. CASE Open(s)
      BY <1>3, <2>3, <3>1
    <3>2. CASE ~Open(s)
      BY <1>2, <2>3, <3>2
    <3> QED BY <3>1, <3>2
  <2> QED BY <1>1, <1>2, <2>3, <2>4, Zenon DEF KnownInv
<1>10. FlushPending(s)' <=> FlushPending(s) \/ (Open(s) /\ IsFlush(m))
  <2>1. CASE Open(s)
    <3>1. ASSUME NEW i \in 1 .. Len(Prio(s)'), IsFlush(Prio(s)'[i].msg)
          PROVE  IsFlush(m) \/ \E j \in 1 .. Len(Prio(s)) : IsFlush(Prio(s)[j].msg)
      BY <1>3, <2>1, <3>1
    <3>2. ASSUME NEW i \in 1 .. Len(Prio(s)), IsFlush(Prio(s)[i].msg)
          PROVE  \E j \in 1 .. Len(Prio(s)') : IsFlush(Prio(s)'[j].msg)
      BY <1>3, <2>1, <3>2
    <3>3. IsFlush(m) => \E j \in 1 .. Len(Prio(s)') : IsFlush(Prio(s)'[j].msg)
      BY <1>3, <2>1
    <3> QED BY <1>1, <2>1, <3>1, <3>2, <3>3, Zenon DEF FlushPending
  <2>2. CASE ~Open(s)
    BY <1>1, <1>2, <2>2, Zenon DEF FlushPending
  <2> QED BY <2>1, <2>2
<1>11. ASSUME NEW x
       PROVE  (pMsg'[s] = x \/ \E i \in 1 .. Len(Prio(s)') : Prio(s)'[i].msg = x)
                <=> \/ pMsg[s] = x
                    \/ \E i \in 1 .. Len(Prio(s)) : Prio(s)[i].msg = x
                    \/ Open(s) /\ m = x
  <2>1. CASE Open(s)
    <3>1. ASSUME NEW i \in 1 .. Len(Prio(s)'), Prio(s)'[i].msg = x
          PROVE  m = x \/ \E j \in 1 .. Len(Prio(s)) : Prio(s)[j].msg = x
      BY <1>3, <2>1, <3>1
    <3>2. ASSUME NEW i \in 1 .. Len(Prio(s)), Prio(s)[i].msg = x
          PROVE  \E j \in 1 .. Len(Prio(s)') : Prio(s)'[j].msg = x
      BY <1>3, <2>1, <3>2
    <3>3. m = x => \E j \in 1 .. Len(Prio(s)') : Prio(s)'[j].msg = x
      BY <1>3, <2>1
    <3> QED BY <1>1, <2>1, <3>1, <3>2, <3>3, Zenon
  <2>2. CASE ~Open(s)
    BY <1>1, <1>2, <2>2, Zenon
  <2> QED BY <2>1, <2>2
<1> QED BY <1>1, <1>4, <1>5, <1>6, <1>7, <1>8, <1>a, <1>b, <1>9, <1>10, <1>11

(* A new rendezvous is the newest, and nobody has come to it.              *)
LEMMA Announced ==
  ASSUME SInv, NEW src \in {Stream, {"any"}}, syncs' = NewSync(src), Newest < MaxSyncs
  PROVE  /\ syncs' \in Seq(Rendezvous) /\ Newest' = Newest + 1 /\ Newest' <= MaxSyncs
         /\ Newest' > 0 /\ Newest' \in Nat /\ Newest' \in 1 .. MaxSyncs /\ Newest <= Newest'
         /\ \A k \in 1 .. Newest : syncs'[k] = syncs[k]
         /\ syncs'[Newest'].sources = src /\ syncs'[Newest'].reached = {}
         /\ \A k \in 1 .. Newest' : syncs'[k].reached \subseteq syncs'[k].sources
<1>1. PICK r : r = [sources |-> src, reached |-> {}, expired |-> FALSE]
  OBVIOUS
<1>2. r \in Rendezvous /\ r.sources = src /\ r.reached = {}
  BY <1>1, SMT DEF Rendezvous
<1>3. PICK n : n = Newest
  OBVIOUS
<1>4. n \in Nat /\ syncs \in Seq(Rendezvous) /\ n = Len(syncs) /\ MaxSyncs \in Nat /\ n < MaxSyncs
  BY <1>3, StreamTypes, BoundsAssumption DEF SInv, TypeInv, Newest
<1>5. syncs' = Append(syncs, r)
  BY <1>1 DEF NewSync
<1>6. /\ syncs' \in Seq(Rendezvous) /\ Len(syncs') = n + 1 /\ syncs'[n + 1] = r
      /\ \A k \in 1 .. n : syncs'[k] = syncs[k]
  BY <1>2, <1>4, <1>5, AppendAt
<1>7. n + 1 <= MaxSyncs /\ n + 1 > 0 /\ n + 1 \in Nat /\ n <= n + 1 /\ n + 1 \in 1 .. MaxSyncs
  BY <1>4, SMT
<1>8. \A k \in 1 .. n + 1 : syncs'[k].reached \subseteq syncs'[k].sources
  <2>1. \A k \in 1 .. n + 1 : k \in 1 .. n \/ k = n + 1
    BY <1>4, SMT
  <2>2. \A k \in 1 .. n : syncs[k].reached \subseteq syncs[k].sources
    BY <1>3 DEF SInv, MainInv
  <2> QED BY <1>2, <1>6, <2>1, <2>2
<1> QED BY <1>2, <1>3, <1>6, <1>7, <1>8 DEF Newest

(* A stream nobody touches while a rendezvous may be announced.            *)
LEMMA UntouchedGrown ==
  ASSUME SInv, NEW s \in Stream, Untouched(s), Newest <= Newest', Newest' \in Nat,
         \A k \in 1 .. Newest : syncs'[k] = syncs[k]
  PROVE  /\ HandsInv(s)' /\ ClosedInv(s)' /\ KnownInv(s)' /\ PacketInv(s)' /\ DecoderInv(s)'
         /\ AwakeInv(s)' /\ ExactInv(s)'
<1>0. TypeInv /\ StreamInv(s)
  BY DEF SInv
<1>1. HandsInv(s)'
  <2>1. thread[s] = "sync" => pMsg[s].n \in 1 .. Newest
    BY <1>0, Hands DEF StreamInv, HandsInv
  <2> QED BY <1>0, <2>1, Zenon DEF Untouched, StreamInv, HandsInv
<1>2. Plain(s)' = Plain(s) /\ Prio(s)' = Prio(s) /\ Open(s)' = Open(s)
  BY DEF Untouched, Plain, Prio, Open
<1>3. ClosedInv(s)'
  BY <1>0, <1>2, Zenon DEF Untouched, StreamInv, ClosedInv
<1>4. AwakeInv(s)'
  BY <1>0, <1>2, Zenon DEF Untouched, StreamInv, AwakeInv
<1>5. KnownInv(s)'
  <2>1. /\ Known(pMsg[s], Newest')
        /\ \A i \in 1 .. Len(Plain(s)) : Known(Plain(s)[i].msg, Newest')
        /\ \A i \in 1 .. Len(Prio(s)) : Known(Prio(s)[i].msg, Newest')
    BY KnownGrows
  <2> QED BY <1>2, <2>1, Zenon DEF Untouched, KnownInv
<1>6. PacketInv(s)' /\ DecoderInv(s)'
  <2>1. InHands(s)' = InHands(s) /\ Kept(s)' = Kept(s)
    BY PlacesKept DEF Untouched
  <2>2. PacketInv(s)'
    BY <1>0, <1>2, <2>1, Zenon DEF Untouched, StreamInv, PacketInv, IsFlush
  <2>3. DecoderInv(s)'
    BY <1>0, <1>2, <2>1, Zenon DEF Untouched, StreamInv, DecoderInv
  <2> QED BY <2>2, <2>3
<1>7. ExactInv(s)'
  BY <1>0, Zenon DEF Untouched, StreamInv, ExactInv
<1> QED BY <1>1, <1>3, <1>4, <1>5, <1>6, <1>7

(* A stream is told to flush.                                              *)
LEMMA TellToFlushKeeps ==
  ASSUME SInv, TellToFlush
  PROVE  SInv'
<1>1. PICK m : m = [kind |-> "flush"]
  OBVIOUS
<1>2. m \in Setting /\ m \in SyncMessage \cup Setting /\ IsFlush(m) /\ Known(m, Newest)
  BY <1>1, SMT DEF Setting, IsFlush, Known
<1>0. /\ pc = "tell" /\ queue' = [queue EXCEPT ![target] = Urgent(queue[target], m)]
      /\ \/ target = "audio" /\ target' = "video" /\ pc' = "flush"
         \/ target = "video" /\ target' = "audio" /\ pc' = "ask"
      /\ UNCHANGED <<playerVars, leaving, sent, opened, syncs, appVars>>
  BY <1>1 DEF TellToFlush, Put, Urgent
<1>3. TypeInv /\ target \in Stream /\ queue \in [Stream -> Queues] /\ leaving \in BOOLEAN /\ Newest \in Nat
  BY StreamTypes DEF SInv, TypeInv
<1>4. PICK q : q = Urgent(queue[target], m)
  OBVIOUS
<1>5. queue'[target] = q /\ \A t \in Stream : t # target => queue'[t] = queue[t]
  BY <1>0, <1>3, <1>4, Zenon
<1>6. q \in Queues
  <2>1. queue'[target] = Urgent(queue[target], m)
    BY <1>4, <1>5
  <2>2. queue'[target] \in Queues
    BY <1>2, <1>3, <2>1, SentUrgently
  <2> QED BY <1>5, <2>2
<1>7. queue' \in [Stream -> Queues]
  BY <1>0, <1>3, <1>4, <1>6, Zenon
<1>8. TypeInv'
  <2>1. target' \in Stream /\ pc' \in Flushing
    BY <1>0 DEF Stream, Flushing
  <2> QED BY <1>0, <1>3, <1>7, <2>1, MainTypes
<1>9. MainInv'
  BY <1>0, SMT DEF SInv, MainInv, Newest, Closing
<1>10. \A s \in Stream : /\ MeetInv(s)' /\ DrainInv(s)'
                         /\ Emptied(s)' => Emptied(s)
                         /\ Told(s)' => Told(s) \/ s = target
  BY <1>0, <1>3, SMT DEF MeetInv, Invited, AskedNext, DrainInv, Emptied, Told, Stream
<1>11. ASSUME NEW s \in Stream, s # target
       PROVE  StreamInv(s)'
  <2>1. Untouched(s)
    BY <1>0, <1>5, <1>11, Zenon DEF Untouched, playerVars, decoderVars
  <2>2. FlushInv(s)'
    <3>1. /\ Plain(s)' = Plain(s) /\ Prio(s)' = Prio(s) /\ Open(s)' = Open(s)
          /\ FlushPending(s)' = FlushPending(s)
      BY <2>1, Zenon DEF Untouched, Plain, Prio, Open, FlushPending
    <3>2. InHands(s)' = InHands(s) /\ Kept(s)' = Kept(s)
      BY <2>1, PlacesKept DEF Untouched
    <3> QED BY <1>10, <1>11, <2>1, <3>1, <3>2, Zenon DEF SInv, StreamInv, FlushInv, Untouched
  <2> QED BY <1>0, <1>10, <2>1, <2>2, UntouchedStatic DEF SInv, StreamInv
<1>12. ASSUME NEW s \in Stream, s = target
       PROVE  StreamInv(s)'
  <2>1. /\ HandsInv(s)' /\ ClosedInv(s)' /\ KnownInv(s)' /\ PacketInv(s)' /\ DecoderInv(s)'
        /\ AwakeInv(s)' /\ ExactInv(s)'
        /\ InHands(s)' = InHands(s) /\ Kept(s)' = Kept(s) /\ PacketsIn(Prio(s))' = PacketsIn(Prio(s))
        /\ FlushPending(s)' <=> FlushPending(s) \/ (Open(s) /\ IsFlush(m))
    <3>1. Newest' = Newest /\ Newest <= Newest /\ syncs' = syncs /\ sent' = sent /\ UNCHANGED playerVars
      BY <1>0, <1>3, SMT DEF Newest
    <3>2. queue'[s] = Urgent(queue[s], m)
      BY <1>4, <1>5, <1>12
    <3> QED BY <1>2, <1>3, <3>1, <3>2, UrgentStatic
  <2>2. Plain(s)' = Plain(s) /\ Open(s)' = Open(s)
    BY <1>2, <1>3, <1>4, <1>5, <1>12, SentUrgently
  <2>3. FlushInv(s)'
    <3>1. putBack' = putBack
      BY <1>0 DEF playerVars, decoderVars
    <3>2. Open(s) => FlushPending(s)'
      BY <1>2, <2>1
    <3>3. Emptied(s)' => PacketsIn(Plain(s)) \subseteq putBack[s]
      BY <1>3, <1>10 DEF SInv, StreamInv, FlushInv
    <3> QED BY <2>2, <3>1, <3>2, <3>3, Zenon DEF FlushInv
  <2> QED BY <1>10, <2>1, <2>3 DEF StreamInv
<1> QED BY <1>8, <1>9, <1>11, <1>12 DEF SInv

(* The first stream is asked to a new rendezvous.                          *)
LEMMA AskFirstKeeps ==
  ASSUME SInv, AskToMeet, target = "audio"
  PROVE  SInv'
<1>1. PICK k : k = Newest + 1
  OBVIOUS
<1>2. PICK m : m = Sync(k)
  OBVIOUS
<1>3. /\ pc = "ask" /\ pc' = "ask" /\ target' = "video" /\ syncs' = NewSync(Stream)
      /\ UNCHANGED <<playerVars, leaving, sent, opened, appVars>>
      /\ queue' = [queue EXCEPT ![target] = PutIn(queue[target], [kind |-> "sync", n |-> Newest'], 1, TRUE)]
  BY DEF AskToMeet, Put, Newest
<1>4. TypeInv /\ target \in Stream /\ queue \in [Stream -> Queues] /\ Newest \in Nat
  BY StreamTypes DEF SInv, TypeInv
<1>5. Newest < MaxSyncs
  BY <1>3 DEF SInv, MainInv
<1>6. /\ syncs' \in Seq(Rendezvous) /\ Newest' = k /\ k <= MaxSyncs /\ k > 0 /\ k \in Nat
      /\ k \in 1 .. MaxSyncs /\ Newest <= k
      /\ \A i \in 1 .. Newest : syncs'[i] = syncs[i]
      /\ syncs'[k].sources = Stream /\ syncs'[k].reached = {}
      /\ \A i \in 1 .. k : syncs'[i].reached \subseteq syncs'[i].sources
  BY <1>1, <1>3, <1>5, Announced
<1>7. m \in SyncMessage /\ m \in SyncMessage \cup Setting /\ ~IsFlush(m) /\ Known(m, k)
  BY <1>2, <1>6, SMT DEF SyncMessage, Sync, IsFlush, Known
<1>8. queue' = [queue EXCEPT ![target] = Urgent(queue[target], m)]
  BY <1>2, <1>3, <1>6 DEF Urgent, Sync
<1>9. PICK q : q = Urgent(queue[target], m)
  OBVIOUS
<1>10. queue'[target] = q /\ \A t \in Stream : t # target => queue'[t] = queue[t]
  BY <1>4, <1>8, <1>9, Zenon
<1>11. q \in Queues
  <2>1. queue'[target] = Urgent(queue[target], m)
    BY <1>9, <1>10
  <2>2. queue'[target] \in Queues
    BY <1>4, <1>7, <2>1, SentUrgently
  <2> QED BY <1>10, <2>2
<1>12. TypeInv'
  <2>1. queue' \in [Stream -> Queues]
    BY <1>4, <1>8, <1>9, <1>11, Zenon
  <2>2. target' \in Stream
    BY <1>3 DEF Stream
  <2>3. Len(syncs') <= MaxSyncs
    BY <1>6 DEF Newest
  <2>4. pc' = pc /\ syncs' \in Seq(Rendezvous) /\ UNCHANGED <<playerVars, leaving, sent, opened, appVars>>
    BY <1>3, <1>6
  <2> QED BY <1>4, <2>1, <2>2, <2>3, <2>4, SMT DEF TypeInv, playerVars, decoderVars, appVars
<1>13. MainInv'
  <2>1. Newest' > 0 /\ syncs'[Newest'].sources = Stream
    BY <1>6
  <2>2. \A i \in 1 .. Newest' : syncs'[i].reached \subseteq syncs'[i].sources
    BY <1>6
  <2>3. pc' = "ask" /\ target' # "audio" /\ "ask" \notin Closing
    BY <1>3 DEF Closing
  <2> QED BY <2>1, <2>2, <2>3 DEF MainInv
<1>14. Newest' \in Nat /\ Newest <= Newest'
  BY <1>6
<1>15. \A s \in Stream : /\ Emptied(s) /\ Told(s) /\ DrainInv(s)'
                         /\ ~Invited(s)' \/ s = target
                         /\ ~AskedNext(s)' \/ s # target
  BY <1>3, SMT DEF Emptied, Told, Invited, AskedNext, DrainInv, Stream
<1>16. ASSUME NEW s \in Stream, s # target
       PROVE  StreamInv(s)'
  <2>1. Untouched(s)
    BY <1>3, <1>10, <1>16, Zenon DEF Untouched, playerVars, decoderVars
  <2>2. Plain(s)' = Plain(s) /\ Prio(s)' = Prio(s) /\ pMsg'[s] = pMsg[s] /\ Open(s)' = Open(s)
    BY <2>1 DEF Untouched, Plain, Prio, Open
  <2>3. FlushInv(s)'
    <3>1. FlushPending(s)' = FlushPending(s)
      BY <2>2, Zenon DEF FlushPending
    <3>2. InHands(s)' = InHands(s) /\ Kept(s)' = Kept(s)
      BY <2>1, PlacesKept DEF Untouched
    <3> QED BY <1>15, <2>1, <2>2, <3>1, <3>2, Zenon DEF SInv, StreamInv, FlushInv, Untouched
  <2>4. MeetInv(s)'
    <3>1. ~Holds(s, Sync(Newest))'
      <4>1. Sync(Newest)' = Sync(Newest + 1)
        BY <1>1, <1>6 DEF Sync
      <4> QED BY <2>2, <4>1, Unannounced DEF Holds
    <3>2. s \notin syncs'[Newest'].reached
      BY <1>6
    <3> QED BY <1>15, <1>16, <3>1, <3>2 DEF MeetInv
  <2> QED BY <1>6, <1>14, <1>15, <2>1, <2>3, <2>4, UntouchedGrown DEF StreamInv
<1>17. ASSUME NEW s \in Stream, s = target
       PROVE  StreamInv(s)'
  <2>0. queue'[s] = Urgent(queue[s], m)
    BY <1>9, <1>10, <1>17
  <2>1. /\ HandsInv(s)' /\ ClosedInv(s)' /\ KnownInv(s)' /\ PacketInv(s)' /\ DecoderInv(s)'
        /\ AwakeInv(s)' /\ ExactInv(s)'
        /\ InHands(s)' = InHands(s) /\ Kept(s)' = Kept(s) /\ PacketsIn(Prio(s))' = PacketsIn(Prio(s))
        /\ FlushPending(s)' <=> FlushPending(s) \/ (Open(s) /\ IsFlush(m))
        /\ \A x : (pMsg'[s] = x \/ \E i \in 1 .. Len(Prio(s)') : Prio(s)'[i].msg = x)
                    <=> \/ pMsg[s] = x
                        \/ \E i \in 1 .. Len(Prio(s)) : Prio(s)[i].msg = x
                        \/ Open(s) /\ m = x
    <3>1. sent' = sent /\ UNCHANGED playerVars
      BY <1>3
    <3>2. Known(m, Newest') /\ \A i \in 1 .. Newest : syncs'[i] = syncs[i]
      BY <1>6, <1>7
    <3> QED BY <1>7, <1>14, <2>0, <3>1, <3>2, UrgentStatic
  <2>a. /\ Plain(s)' = Plain(s) /\ Open(s)' = Open(s)
        /\ ~Open(s) => queue'[s] = queue[s]
        /\ Open(s) => FirstOf(Prio(s)', Prio(s), m)
    BY <1>4, <1>7, <2>0, SentUrgently
  <2>2. /\ Plain(s)' = Plain(s) /\ Open(s)' = Open(s)
        /\ ~Open(s) => queue'[s] = queue[s]
        /\ Open(s) =>
             /\ \A i \in 1 .. Len(Prio(s)') :
                  i = 1 \/ (i - 1 \in 1 .. Len(Prio(s)) /\ Prio(s)'[i] = Prio(s)[i - 1])
             /\ Prio(s)'[1].msg = m
             /\ \A j \in 1 .. Len(Prio(s)') : j = 1 \/ 1 < j
    BY <2>a DEF FirstOf
  <2>3. UNCHANGED <<codec, putBack, pMsg>> /\ Sync(Newest)' = m
    BY <1>2, <1>3, <1>6 DEF playerVars, decoderVars, Sync
  <2>4. FlushInv(s)'
    <3>1. FlushPending(s)' <=> FlushPending(s)
      BY <1>7, <2>1
    <3>2. FlushInv(s) /\ Emptied(s) /\ Told(s) /\ Plain(s)' = Plain(s)
      BY <1>15, <2>2 DEF SInv, StreamInv
    <3> QED BY <2>1, <2>2, <2>3, <3>1, <3>2, Zenon DEF FlushInv
  <2>5. /\ pMsg[s] # m
        /\ \A i \in 1 .. Len(Plain(s)) : Plain(s)[i].msg # m
        /\ \A i \in 1 .. Len(Prio(s)) : Prio(s)[i].msg # m
    BY <1>1, <1>2, Unannounced
  <2>6. MeetInv(s)'
    <3>1. s \notin syncs'[Newest'].reached
      BY <1>6
    <3>2. ASSUME NEW i \in 1 .. Len(Prio(s)'), NEW j \in 1 .. Len(Prio(s)'),
                 Prio(s)'[i].msg = m, IsFlush(Prio(s)'[j].msg)
          PROVE  i < j
      <4>1. CASE Open(s)
        <5>1. i = 1
          BY <2>2, <2>5, <3>2, <4>1
        <5>2. j # 1
          BY <1>7, <2>2, <3>2, <4>1
        <5> QED BY <2>2, <4>1, <5>1, <5>2
      <4>2. CASE ~Open(s)
        <5>1. Prio(s)' = Prio(s)
          BY <2>2, <4>2 DEF Prio
        <5> QED BY <2>5, <3>2, <5>1
      <4> QED BY <4>1, <4>2
    <3>3. Open(s) => Holds(s, Sync(Newest))'
      BY <2>1, <2>3, Zenon DEF Holds
    <3>4. ~AskedNext(s)'
      BY <1>15, <1>17
    <3>5. \A i \in 1 .. Len(Plain(s)') : Plain(s)'[i].msg # Sync(Newest)'
      BY <2>2, <2>3, <2>5, Zenon
    <3>6. \A i, j \in 1 .. Len(Prio(s)') :
            Prio(s)'[i].msg = Sync(Newest)' /\ IsFlush(Prio(s)'[j].msg) => i < j
      BY <2>3, <3>2, Zenon
    <3>7. pMsg'[s] # Sync(Newest)'
      BY <2>3, <2>5, Zenon
    <3>8. Open(s)' => Holds(s, Sync(Newest))'
      BY <2>2, <3>3, Zenon
    <3> QED BY <3>1, <3>4, <3>5, <3>6, <3>7, <3>8, Zenon DEF MeetInv
  <2> QED BY <1>15, <2>1, <2>4, <2>6 DEF StreamInv
<1> QED BY <1>12, <1>13, <1>16, <1>17 DEF SInv

(* The second stream is asked to the same one.                             *)
LEMMA AskNextKeeps ==
  ASSUME SInv, AskToMeet, target = "video"
  PROVE  SInv'
<1>1. PICK k : k = Newest
  OBVIOUS
<1>2. PICK m : m = Sync(k)
  OBVIOUS
<1>3. /\ pc = "ask" /\ pc' = "meet" /\ target' = "audio" /\ syncs' = syncs
      /\ UNCHANGED <<playerVars, leaving, sent, opened, appVars>>
      /\ queue' = [queue EXCEPT ![target] = PutIn(queue[target], [kind |-> "sync", n |-> Newest'], 1, TRUE)]
  BY DEF AskToMeet, Put, Newest
<1>4. TypeInv /\ target \in Stream /\ queue \in [Stream -> Queues] /\ Newest \in Nat
  BY StreamTypes DEF SInv, TypeInv
<1>5. Newest > 0 /\ syncs[Newest].sources = Stream
  BY <1>3 DEF SInv, MainInv
<1>6. Newest' = k /\ k \in 1 .. MaxSyncs /\ k \in Nat /\ k <= k
  BY <1>1, <1>3, <1>4, <1>5, BoundsAssumption, SMT DEF Newest, TypeInv
<1>7. m \in SyncMessage /\ m \in SyncMessage \cup Setting /\ ~IsFlush(m) /\ Known(m, k)
  BY <1>2, <1>6, SMT DEF SyncMessage, Sync, IsFlush, Known
<1>8. queue' = [queue EXCEPT ![target] = Urgent(queue[target], m)]
  BY <1>2, <1>3, <1>6 DEF Urgent, Sync
<1>9. PICK q : q = Urgent(queue[target], m)
  OBVIOUS
<1>10. queue'[target] = q /\ \A t \in Stream : t # target => queue'[t] = queue[t]
  BY <1>4, <1>8, <1>9, Zenon
<1>11. q \in Queues
  <2>1. queue'[target] = Urgent(queue[target], m)
    BY <1>9, <1>10
  <2>2. queue'[target] \in Queues
    BY <1>4, <1>7, <2>1, SentUrgently
  <2> QED BY <1>10, <2>2
<1>12. TypeInv'
  <2>1. queue' \in [Stream -> Queues]
    BY <1>4, <1>8, <1>9, <1>11, Zenon
  <2>2. target' \in Stream /\ pc' \in Flushing
    BY <1>3 DEF Stream, Flushing
  <2> QED BY <1>3, <1>4, <2>1, <2>2, MainTypes DEF TypeInv
<1>13. MainInv'
  <2>1. Newest' > 0 /\ syncs'[Newest'].sources = Stream /\ "meet" \notin Closing
    BY <1>1, <1>3, <1>5, <1>6 DEF Closing
  <2>2. \A i \in 1 .. Newest' : syncs'[i].reached \subseteq syncs'[i].sources
    BY <1>1, <1>3, <1>6 DEF SInv, MainInv
  <2> QED BY <1>3, <2>1, <2>2 DEF MainInv
<1>15. \A s \in Stream : /\ Emptied(s) /\ Told(s) /\ DrainInv(s)' /\ ~AskedNext(s)'
                         /\ s # target => Invited(s)
                         /\ s = target => AskedNext(s)
  BY <1>3, SMT DEF Emptied, Told, Invited, AskedNext, DrainInv, Stream
<1>16. ASSUME NEW s \in Stream, s # target
       PROVE  StreamInv(s)'
  <2>1. Untouched(s)
    BY <1>3, <1>10, <1>16, Zenon DEF Untouched, playerVars, decoderVars
  <2>2. Plain(s)' = Plain(s) /\ Prio(s)' = Prio(s) /\ pMsg'[s] = pMsg[s] /\ Open(s)' = Open(s)
    BY <2>1 DEF Untouched, Plain, Prio, Open
  <2>3. /\ FlushPending(s)' = FlushPending(s)
        /\ InHands(s)' = InHands(s) /\ Kept(s)' = Kept(s)
    BY <2>1, <2>2, PlacesKept DEF FlushPending, Untouched
  <2>4. FlushInv(s)'
    BY <1>15, <2>1, <2>2, <2>3, Zenon DEF SInv, StreamInv, FlushInv, Untouched
  <2>5. MeetInv(s)'
    <3>1. Newest' = Newest /\ Sync(Newest)' = Sync(Newest) /\ Holds(s, Sync(Newest))' = Holds(s, Sync(Newest))
      BY <1>1, <1>6, <2>2, Zenon DEF Sync, Holds
    <3> QED BY <1>3, <1>15, <1>16, <2>2, <2>3, <3>1, Zenon DEF SInv, StreamInv, MeetInv
  <2> QED BY <1>3, <1>15, <2>1, <2>4, <2>5, UntouchedStatic DEF SInv, StreamInv
<1>17. ASSUME NEW s \in Stream, s = target
       PROVE  StreamInv(s)'
  <2>0. queue'[s] = Urgent(queue[s], m)
    BY <1>9, <1>10, <1>17
  <2>1. /\ HandsInv(s)' /\ ClosedInv(s)' /\ KnownInv(s)' /\ PacketInv(s)' /\ DecoderInv(s)'
        /\ AwakeInv(s)' /\ ExactInv(s)'
        /\ InHands(s)' = InHands(s) /\ Kept(s)' = Kept(s) /\ PacketsIn(Prio(s))' = PacketsIn(Prio(s))
        /\ FlushPending(s)' <=> FlushPending(s) \/ (Open(s) /\ IsFlush(m))
        /\ \A x : (pMsg'[s] = x \/ \E i \in 1 .. Len(Prio(s)') : Prio(s)'[i].msg = x)
                    <=> \/ pMsg[s] = x
                        \/ \E i \in 1 .. Len(Prio(s)) : Prio(s)[i].msg = x
                        \/ Open(s) /\ m = x
    <3>1. sent' = sent /\ UNCHANGED playerVars /\ Newest' \in Nat /\ Newest <= Newest'
      BY <1>1, <1>3, <1>6
    <3>2. Known(m, Newest') /\ \A i \in 1 .. Newest : syncs'[i] = syncs[i]
      BY <1>3, <1>6, <1>7
    <3> QED BY <1>7, <2>0, <3>1, <3>2, UrgentStatic
  <2>a. /\ Plain(s)' = Plain(s) /\ Open(s)' = Open(s)
        /\ ~Open(s) => queue'[s] = queue[s]
        /\ Open(s) => FirstOf(Prio(s)', Prio(s), m)
    BY <1>4, <1>7, <2>0, SentUrgently
  <2>2. /\ Plain(s)' = Plain(s) /\ Open(s)' = Open(s)
        /\ ~Open(s) => queue'[s] = queue[s]
        /\ Open(s) =>
             /\ \A i \in 1 .. Len(Prio(s)') :
                  i = 1 \/ (i - 1 \in 1 .. Len(Prio(s)) /\ Prio(s)'[i] = Prio(s)[i - 1])
             /\ Prio(s)'[1].msg = m
             /\ \A j \in 1 .. Len(Prio(s)') : j = 1 \/ 1 < j
    BY <2>a DEF FirstOf
  <2>3. UNCHANGED <<codec, putBack, pMsg>> /\ Sync(Newest)' = m
    BY <1>2, <1>3, <1>6 DEF playerVars, decoderVars, Sync
  <2>4. FlushInv(s)'
    <3>1. FlushPending(s)' <=> FlushPending(s)
      BY <1>7, <2>1
    <3>2. FlushInv(s) /\ Emptied(s) /\ Told(s) /\ Plain(s)' = Plain(s)
      BY <1>15, <2>2 DEF SInv, StreamInv
    <3> QED BY <2>1, <2>2, <2>3, <3>1, <3>2, Zenon DEF FlushInv
  <2>5. /\ pMsg[s] # m /\ s \notin syncs[Newest].reached
        /\ \A i \in 1 .. Len(Plain(s)) : Plain(s)[i].msg # m
        /\ \A i \in 1 .. Len(Prio(s)) : Prio(s)[i].msg # m
    <3>1. ~Holds(s, Sync(Newest)) /\ s \notin syncs[Newest].reached
      BY <1>15, <1>17 DEF SInv, StreamInv, MeetInv
    <3> QED BY <1>1, <1>2, <3>1 DEF Holds
  <2>6. MeetInv(s)'
    <3>1. s \notin syncs'[Newest'].reached
      BY <1>1, <1>3, <1>6, <2>5
    <3>2. ASSUME NEW i \in 1 .. Len(Prio(s)'), NEW j \in 1 .. Len(Prio(s)'),
                 Prio(s)'[i].msg = m, IsFlush(Prio(s)'[j].msg)
          PROVE  i < j
      <4>1. CASE Open(s)
        <5>1. i = 1
          BY <2>2, <2>5, <3>2, <4>1
        <5>2. j # 1
          BY <1>7, <2>2, <3>2, <4>1
        <5> QED BY <2>2, <4>1, <5>1, <5>2
      <4>2. CASE ~Open(s)
        <5>1. Prio(s)' = Prio(s)
          BY <2>2, <4>2 DEF Prio
        <5> QED BY <2>5, <3>2, <5>1
      <4> QED BY <4>1, <4>2
    <3>3. Open(s) => Holds(s, Sync(Newest))'
      BY <2>1, <2>3, Zenon DEF Holds
    <3>4. ~AskedNext(s)'
      BY <1>15
    <3>5. \A i \in 1 .. Len(Plain(s)') : Plain(s)'[i].msg # Sync(Newest)'
      BY <2>2, <2>3, <2>5, Zenon
    <3>6. \A i, j \in 1 .. Len(Prio(s)') :
            Prio(s)'[i].msg = Sync(Newest)' /\ IsFlush(Prio(s)'[j].msg) => i < j
      BY <2>3, <3>2, Zenon
    <3>7. pMsg'[s] # Sync(Newest)'
      BY <2>3, <2>5, Zenon
    <3>8. Open(s)' => Holds(s, Sync(Newest))'
      BY <2>2, <3>3, Zenon
    <3> QED BY <3>1, <3>4, <3>5, <3>6, <3>7, <3>8, Zenon DEF MeetInv
  <2> QED BY <1>15, <2>1, <2>4, <2>6 DEF StreamInv
<1> QED BY <1>12, <1>13, <1>16, <1>17 DEF SInv

(* The marker of a drain is put behind all packets.                        *)
LEMMA PutMarkerKeeps ==
  ASSUME SInv, PutMarker
  PROVE  SInv'
<1>1. PICK k : k = Newest + 1
  OBVIOUS
<1>2. PICK m : m = Sync(k)
  OBVIOUS
<1>3. /\ pc = "drain" /\ pc' = "draining" /\ syncs' = NewSync({"any"})
      /\ UNCHANGED <<playerVars, leaving, target, sent, opened, appVars>>
      /\ queue' = [queue EXCEPT ![target] = PutIn(queue[target], [kind |-> "sync", n |-> Newest'], 0, TRUE)]
  BY DEF PutMarker, At, Put, Newest
<1>4. /\ TypeInv /\ target \in Stream /\ queue \in [Stream -> Queues] /\ Newest \in Nat /\ Open(target)
      /\ queue[target] \in Queues
  BY <1>3, StreamTypes DEF SInv, TypeInv, MainInv, Closing
<1>5. Newest < MaxSyncs
  BY <1>3 DEF SInv, MainInv
<1>6. /\ syncs' \in Seq(Rendezvous) /\ Newest' = k /\ k <= MaxSyncs /\ k > 0 /\ k \in Nat
      /\ k \in 1 .. MaxSyncs /\ Newest <= k
      /\ \A i \in 1 .. Newest : syncs'[i] = syncs[i]
      /\ syncs'[k].sources = {"any"} /\ syncs'[k].reached = {}
      /\ \A i \in 1 .. k : syncs'[i].reached \subseteq syncs'[i].sources
  BY <1>1, <1>3, <1>5, Announced
<1>7. /\ m \in SyncMessage /\ m \in Packet \cup SyncMessage /\ m.kind # "packet"
      /\ Known(m, k) /\ ~IsFlush(m)
  BY <1>2, <1>6, SMT DEF SyncMessage, Sync, IsFlush, Known
<1>8. queue' = [queue EXCEPT ![target] = Queued(queue[target], m)]
  BY <1>2, <1>3, <1>6 DEF Queued, Sync
<1>9. PICK q : q = Queued(queue[target], m)
  OBVIOUS
<1>10. queue'[target] = q /\ \A t \in Stream : t # target => queue'[t] = queue[t]
  BY <1>4, <1>8, <1>9, Zenon
<1>11. /\ q \in Queues /\ Alike(q, queue[target]) /\ SizeIsExact(q)
       /\ q.m_prioMessages = queue[target].m_prioMessages /\ q.m_hEvent = TRUE
       /\ q.m_messages = <<[msg |-> m, priority |-> 0]>> \o queue[target].m_messages
  <2>1. queue[target].m_bInitialized /\ SizeIsExact(queue[target])
    BY <1>4 DEF Open, SInv, StreamInv, ExactInv
  <2> QED BY <1>4, <1>7, <1>9, <2>1, PutWithout
<1>12. TypeInv'
  <2>1. queue' \in [Stream -> Queues]
    BY <1>4, <1>8, <1>9, <1>11, Zenon
  <2>2. target' \in Stream /\ pc' \in {"run", "exit", "gone"} \cup Flushing \cup Closing
    BY <1>3, <1>4 DEF Closing
  <2>3. Len(syncs') <= MaxSyncs
    BY <1>6 DEF Newest
  <2>4. syncs' \in Seq(Rendezvous) /\ UNCHANGED <<playerVars, leaving, sent, opened, appVars>>
    BY <1>3, <1>6
  <2>5. /\ leaving' \in BOOLEAN /\ sent' \in [Stream -> Nat] /\ opened' \in [Stream -> Nat]
        /\ m_displayLost' \in BOOLEAN /\ m_bAbortRequest' \in BOOLEAN /\ toggles' \in Nat
    BY <1>4, <2>4 DEF TypeInv, appVars
  <2>6. /\ thread' \in [Stream -> {"none", "get", "wait", "have", "sync", "recover"}]
        /\ pMsg' \in [Stream -> Message \cup {NoMessage}]
        /\ m_bStop' \in [Stream -> BOOLEAN] /\ onlyPrioMsgs' \in [Stream -> BOOLEAN]
        /\ m_paused' \in [Stream -> BOOLEAN]
        /\ codec' \in [Stream -> SUBSET Nat] /\ m_packets' \in [Stream -> Seq(Packet)]
        /\ decoded' \in [Stream -> SUBSET Nat] /\ putBack' \in [Stream -> SUBSET Nat]
    BY <1>4, <2>4 DEF TypeInv, playerVars, decoderVars
  <2> QED BY <2>1, <2>2, <2>3, <2>4, <2>5, <2>6 DEF TypeInv
<1>13. MainInv'
  <2>1. Newest' > 0 /\ syncs'[Newest'].sources = {"any"}
    BY <1>6
  <2>2. \A i \in 1 .. Newest' : syncs'[i].reached \subseteq syncs'[i].sources
    BY <1>6
  <2>3. Open(target)'
    BY <1>3, <1>4, <1>10, <1>11 DEF Open, Alike
  <2> QED BY <1>3, <2>1, <2>2, <2>3 DEF MainInv
<1>14. Newest' \in Nat /\ Newest <= Newest'
  BY <1>6
<1>15. \A s \in Stream : FlushInv(s)' /\ MeetInv(s)'
  BY <1>3, SMT DEF FlushInv, Emptied, Told, MeetInv, Invited, AskedNext
<1>a. Sync(Newest)' = m
  BY <1>2, <1>6 DEF Sync
<1>b. \A s \in Stream :
        /\ pMsg[s] # m
        /\ \A i \in 1 .. Len(Plain(s)) : Plain(s)[i].msg # m
        /\ \A i \in 1 .. Len(Prio(s)) : Prio(s)[i].msg # m
  BY <1>1, <1>2, Unannounced
<1>16. ASSUME NEW s \in Stream, s # target
       PROVE  StreamInv(s)'
  <2>1. Untouched(s)
    BY <1>3, <1>10, <1>16, Zenon DEF Untouched, playerVars, decoderVars
  <2>2. Plain(s)' = Plain(s) /\ Prio(s)' = Prio(s) /\ pMsg'[s] = pMsg[s]
    BY <2>1 DEF Untouched, Plain, Prio
  <2>3. DrainInv(s)'
    <3>1. ~Holds(s, Sync(Newest))'
      BY <1>a, <1>b, <2>2 DEF Holds
    <3> QED BY <1>3, <1>16, <3>1 DEF DrainInv
  <2> QED BY <1>6, <1>14, <1>15, <2>1, <2>3, UntouchedGrown DEF StreamInv
<1>17. ASSUME NEW s \in Stream, s = target
       PROVE  StreamInv(s)'
  <2>0. StreamInv(s)
    BY DEF SInv
  <2>1. PICK e : e = [msg |-> m, priority |-> 0]
    OBVIOUS
  <2>2. e \in PlainItem /\ e.msg = m /\ ~IsPacket(e)
    BY <1>7, <2>1, Items DEF IsPacket
  <2>3. PICK l : l = Plain(s)
    OBVIOUS
  <2>4. PICK n : n = <<e>> \o l
    OBVIOUS
  <2>5. Plain(s)' = n /\ Prio(s)' = Prio(s) /\ Open(s)'
    BY <1>4, <1>10, <1>11, <1>17, <2>1, <2>3, <2>4 DEF Plain, Prio, Open, Alike
  <2>6. /\ n[1] = e /\ 1 \in 1 .. Len(n)
        /\ \A i \in 1 .. Len(n) : i = 1 \/ (i - 1 \in 1 .. Len(l) /\ n[i] = l[i - 1])
        /\ \A j \in 1 .. Len(n) : j = 1 \/ 1 < j
        /\ Inserted(n, l, e, 1)
    <3>1. l \in Seq(PlainItem)
      BY <1>4, <2>3, StreamTypes
    <3>2. Inserted(n, l, e, 1)
      BY <2>2, <2>4, <3>1, InsertedAtEnds
    <3> QED BY <2>2, <2>4, <3>1, <3>2, InFront
  <2>7. /\ UNCHANGED <<thread, pMsg, codec, m_packets, decoded, putBack, sent>>
        /\ InHands(s)' = InHands(s) /\ Kept(s)' = Kept(s)
    BY <1>3, PlacesKept DEF playerVars, decoderVars
  <2>8. HandsInv(s)'
    <3>1. thread[s] = "sync" => pMsg[s].n \in 1 .. Newest
      BY <1>4, <2>0, Hands DEF StreamInv, HandsInv
    <3> QED BY <1>6, <2>0, <2>7, <3>1, Zenon DEF StreamInv, HandsInv
  <2>9. ClosedInv(s)'
    BY <2>5 DEF ClosedInv
  <2>10. KnownInv(s)'
    <3>1. /\ Known(pMsg[s], k)
          /\ \A i \in 1 .. Len(l) : Known(l[i].msg, k)
          /\ \A i \in 1 .. Len(Prio(s)) : Known(Prio(s)[i].msg, k)
      BY <1>6, <2>3, KnownGrows
    <3>2. \A i \in 1 .. Len(n) : Known(n[i].msg, k)
      BY <1>7, <2>2, <2>6, <3>1
    <3> QED BY <1>6, <2>5, <2>7, <3>1, <3>2, Zenon DEF KnownInv
  <2>a. PacketsIn(n) = PacketsIn(l)
    <3>1. PacketsIn(n) = PacketsIn(l) \cup PacketOf(e)
      BY <2>6, PacketsInserted
    <3> QED BY <2>2, <3>1 DEF PacketOf
  <2>11. PacketInv(s)'
    <3>1. PacketInv(s) /\ InTurn(l, decoded[s])
      BY <2>0, <2>3 DEF StreamInv, PacketInv
    <3>2. InTurn(n, decoded[s])
      BY <2>2, <2>6, <3>1, InTurnWith
    <3>3. PacketsIn(Plain(s))' = PacketsIn(Plain(s))
      BY <2>3, <2>5, <2>a
    <3> QED BY <2>5, <2>7, <3>1, <3>2, <3>3, Zenon DEF PacketInv, IsFlush
  <2>b. DecoderInv(s)'
    <3>1. PacketsIn(Plain(s))' = PacketsIn(Plain(s)) /\ DecoderInv(s)
      BY <2>0, <2>3, <2>5, <2>a DEF StreamInv
    <3> QED BY <2>5, <2>7, <3>1, Zenon DEF DecoderInv
  <2>12. ExactInv(s)'
    BY <1>10, <1>11, <1>17 DEF ExactInv
  <2>13. AwakeInv(s)'
    BY <1>10, <1>11, <1>17 DEF AwakeInv
  <2>14. DrainInv(s)'
    <3>1. \A i \in 1 .. Len(Prio(s)) : Prio(s)[i].msg # m
      BY <1>b
    <3>2. ASSUME NEW i \in 1 .. Len(n), NEW j \in 1 .. Len(n), n[i].msg = m, IsPacket(n[j])
          PROVE  i < j
      <4>1. i = 1
        BY <1>b, <2>3, <2>6, <3>2
      <4>2. j # 1
        BY <2>2, <2>6, <3>2
      <4> QED BY <2>6, <4>1, <4>2
    <3>3. pMsg'[s] # m /\ syncs'[Newest'].reached = {}
      BY <1>6, <1>b, <2>7
    <3>4. \E i \in 1 .. Len(Plain(s)') : Plain(s)'[i].msg = m
      BY <2>2, <2>5, <2>6
    <3>5. Holds(s, Sync(Newest))'
      BY <1>a, <3>4, Zenon DEF Holds
    <3> QED BY <1>3, <1>17, <1>a, <2>5, <3>1, <3>2, <3>3, <3>5, Zenon DEF DrainInv
  <2> QED BY <1>15, <2>8, <2>9, <2>10, <2>11, <2>b, <2>12, <2>13, <2>14 DEF StreamInv
<1> QED BY <1>12, <1>13, <1>16, <1>17 DEF SInv

(* Every step of the player's thread.                                      *)
LEMMA MainStepKeeps ==
  ASSUME SInv, MainStep
  PROVE  SInv'
<1>1. target \in {"audio", "video"}
  BY DEF SInv, TypeInv, Stream
<1>2. AskToMeet => SInv'
  BY <1>1, AskFirstKeeps, AskNextKeeps
<1> QED BY <1>2, SendPacketKeeps, OpenStreamKeeps, FlushBuffersKeeps, FlushPacketsKeeps, TellToFlushKeeps,
        MeetPlayersKeeps, QuietSteps, PutMarkerKeeps, DrainedKeeps, EndDrainKeeps, AbortQueueKeeps,
        StopThreadKeeps, EndQueueKeeps
        DEF MainStep

-----------------------------------------------------------------------------
(* The application's thread, and time                                      *)

(* Both streams are told of a setting: no phase is disturbed by it.        *)
LEMMA TellBothKeeps ==
  ASSUME SInv, NEW kind \in {"pause", "resume"}, TellBoth(kind),
         m_displayLost' \in BOOLEAN, toggles' \in Nat
  PROVE  SInv'
<1>1. PICK m : m = [kind |-> kind]
  OBVIOUS
<1>2. m \in Setting /\ m \in SyncMessage \cup Setting /\ ~IsFlush(m) /\ Known(m, Newest)
  BY <1>1, SMT DEF Setting, IsFlush, Known
<1>3. /\ queue' = [s \in Stream |-> Urgent(queue[s], m)]
      /\ UNCHANGED <<playerVars, mainVars, syncs, m_bAbortRequest>>
  BY <1>1, Zenon DEF TellBoth, Urgent
<1>4. /\ UNCHANGED playerVars /\ UNCHANGED <<pc, target, sent, syncs, m_bAbortRequest>>
      /\ Newest' = Newest /\ Newest \in Nat /\ Newest <= Newest /\ TypeInv
      /\ target \in Stream
  BY <1>3, StreamTypes, SMT DEF mainVars, Newest, SInv, TypeInv
<1>a. ASSUME NEW s \in Stream
      PROVE  /\ queue'[s] = Urgent(queue[s], m) /\ queue'[s] \in Queues
             /\ Open(s)' = Open(s) /\ Plain(s)' = Plain(s)
             /\ ~Open(s) => queue'[s] = queue[s]
             /\ Open(s) => FirstOf(Prio(s)', Prio(s), m)
  <2>1. queue'[s] = Urgent(queue[s], m)
    BY <1>3
  <2> QED BY <1>2, <1>4, <2>1, SentUrgently
<1>5. ASSUME NEW s \in Stream
      PROVE  /\ queue'[s] = Urgent(queue[s], m) /\ queue'[s] \in Queues
             /\ Open(s)' = Open(s) /\ Plain(s)' = Plain(s)
             /\ ~Open(s) => queue'[s] = queue[s]
             /\ Open(s) =>
                  /\ Prio(s)'[1].msg = m
                  /\ \A i \in 1 .. Len(Prio(s)') :
                       i = 1 \/ (i - 1 \in 1 .. Len(Prio(s)) /\ Prio(s)'[i] = Prio(s)[i - 1])
                  /\ \A i, j \in 1 .. Len(Prio(s)') : i - 1 < j - 1 => i < j
  BY <1>a DEF FirstOf
<1>6. TypeInv'
  <2>1. queue' \in [Stream -> Queues]
    BY <1>3, <1>5
  <2> QED BY <1>3, <2>1, SMT DEF SInv, TypeInv, playerVars, decoderVars, mainVars
<1>7. MainInv'
  <2>1. \A s \in Stream : queue'[s].m_bInitialized = queue[s].m_bInitialized
    BY <1>5 DEF Open
  <2> QED BY <1>4, <2>1, MainKept DEF SInv
<1>8. ASSUME NEW s \in Stream
      PROVE  StreamInv(s)'
  <2>0. StreamInv(s)
    BY DEF SInv
  <2>1. /\ HandsInv(s)' /\ ClosedInv(s)' /\ KnownInv(s)' /\ PacketInv(s)' /\ DecoderInv(s)'
        /\ AwakeInv(s)' /\ ExactInv(s)'
        /\ InHands(s)' = InHands(s) /\ Kept(s)' = Kept(s) /\ PacketsIn(Prio(s))' = PacketsIn(Prio(s))
        /\ FlushPending(s)' <=> FlushPending(s) \/ (Open(s) /\ IsFlush(m))
        /\ \A x : (pMsg'[s] = x \/ \E i \in 1 .. Len(Prio(s)') : Prio(s)'[i].msg = x)
                    <=> \/ pMsg[s] = x
                        \/ \E i \in 1 .. Len(Prio(s)) : Prio(s)[i].msg = x
                        \/ Open(s) /\ m = x
    <3>1. Known(m, Newest') /\ Newest <= Newest' /\ Newest' \in Nat /\ syncs' = syncs
      BY <1>2, <1>4
    <3> QED BY <1>2, <1>4, <1>5, <3>1, UrgentStatic
  <2>2. UNCHANGED <<codec, decoded, putBack, pMsg>> /\ Sync(Newest)' = Sync(Newest)
    BY <1>4 DEF playerVars, decoderVars, Sync
  <2>3. FlushPending(s)' <=> FlushPending(s)
    BY <1>2, <2>1
  <2>4. m # Sync(Newest)
    BY <1>1, SMT DEF Sync
  <2>5. Holds(s, Sync(Newest))' <=> Holds(s, Sync(Newest))
    <3>1. PICK x : x = Sync(Newest)
      OBVIOUS
    <3>2. (pMsg'[s] = x \/ \E i \in 1 .. Len(Prio(s)') : Prio(s)'[i].msg = x)
            <=> \/ pMsg[s] = x
                \/ \E i \in 1 .. Len(Prio(s)) : Prio(s)[i].msg = x
      BY <2>1, <2>4, <3>1
    <3>3. Plain(s)' = Plain(s) /\ Sync(Newest)' = x
      BY <1>5, <2>2, <3>1
    <3> QED BY <3>1, <3>2, <3>3, Zenon DEF Holds
  <2>6. FlushInv(s)'
    BY <1>4, <1>5, <2>0, <2>1, <2>2, <2>3, Zenon DEF StreamInv, FlushInv, Emptied, Told
  <2>7. MeetInv(s)'
    <3>1. ASSUME Invited(s), NEW i \in 1 .. Len(Prio(s)'), NEW j \in 1 .. Len(Prio(s)'),
                 Prio(s)'[i].msg = Sync(Newest), IsFlush(Prio(s)'[j].msg)
          PROVE  i < j
      <4>1. \A a, b \in 1 .. Len(Prio(s)) :
              Prio(s)[a].msg = Sync(Newest) /\ IsFlush(Prio(s)[b].msg) => a < b
        BY <2>0, <3>1 DEF StreamInv, MeetInv
      <4>2. CASE Open(s)
        <5>1. i # 1 /\ j # 1
          BY <1>2, <1>5, <2>4, <3>1, <4>2
        <5>2. /\ i - 1 \in 1 .. Len(Prio(s)) /\ Prio(s)'[i] = Prio(s)[i - 1]
              /\ j - 1 \in 1 .. Len(Prio(s)) /\ Prio(s)'[j] = Prio(s)[j - 1]
          BY <1>5, <3>1, <4>2, <5>1
        <5>3. i - 1 < j - 1
          BY <3>1, <4>1, <5>2
        <5> QED BY <1>5, <3>1, <4>2, <5>3
      <4>3. CASE ~Open(s)
        <5>1. Prio(s)' = Prio(s)
          BY <1>5, <4>3 DEF Prio
        <5> QED BY <3>1, <4>1, <5>1
      <4> QED BY <4>2, <4>3
    <3> QED BY <1>4, <1>5, <2>0, <2>2, <2>3, <2>5, <3>1, Zenon DEF StreamInv, MeetInv, Invited, AskedNext
  <2>8. DrainInv(s)'
    <3>1. ASSUME \A i \in 1 .. Len(Prio(s)) : Prio(s)[i].msg # Sync(Newest)
          PROVE  \A i \in 1 .. Len(Prio(s)') : Prio(s)'[i].msg # Sync(Newest)
      <4>1. CASE Open(s)
        BY <1>5, <2>4, <3>1, <4>1
      <4>2. CASE ~Open(s)
        <5>1. Prio(s)' = Prio(s)
          BY <1>5, <4>2 DEF Prio
        <5> QED BY <3>1, <5>1
      <4> QED BY <4>1, <4>2
    <3>2. Met(Newest)' <=> Met(Newest)
      BY <1>4 DEF Met
    <3>3. AllHad(s)' <=> AllHad(s)
      BY <1>5, <2>1, <2>2 DEF AllHad
    <3> QED BY <1>4, <1>5, <2>0, <2>2, <2>5, <3>1, <3>2, <3>3, Zenon DEF StreamInv, DrainInv
  <2> QED BY <2>1, <2>6, <2>7, <2>8 DEF StreamInv
<1> QED BY <1>6, <1>7, <1>8 DEF SInv

(* Every step of the application's thread.                                 *)
LEMMA AppStepKeeps ==
  ASSUME SInv, AppStep
  PROVE  SInv'
<1>1. CASE OnLostDisplay
  <2>1. toggles' \in Nat
    BY <1>1, SMT DEF OnLostDisplay, SInv, TypeInv
  <2> QED BY <1>1, <2>1, TellBothKeeps DEF OnLostDisplay
<1>2. CASE OnResetDisplay
  <2>1. toggles' \in Nat
    BY <1>2 DEF OnResetDisplay, SInv, TypeInv
  <2> QED BY <1>2, <2>1, TellBothKeeps DEF OnResetDisplay
<1>3. CASE CloseFile
  <2>1. /\ UNCHANGED <<queue, playerVars, mainVars, syncs, m_displayLost, toggles>>
        /\ m_bAbortRequest' = TRUE
    BY <1>3 DEF CloseFile
  <2>2. TypeInv'
    BY <2>1, SMT DEF SInv, TypeInv, playerVars, decoderVars, mainVars
  <2>3. MainInv'
    BY <2>1, Zenon DEF SInv, MainInv, Met, Newest, Open, mainVars
  <2>4. \A s \in Stream : StreamInv(s)'
    <3>1. \A s \in Stream : Untouched(s)
      BY <2>1 DEF Untouched, playerVars, decoderVars, mainVars
    <3>2. UNCHANGED <<syncs, pc, target>>
      BY <2>1 DEF mainVars
    <3> QED BY <3>1, <3>2, UntouchedKept DEF SInv
  <2> QED BY <2>2, <2>3, <2>4 DEF SInv
<1> QED BY <1>1, <1>2, <1>3 DEF AppStep

(* The time of the newest rendezvous is over: nobody has come or gone.     *)
LEMMA ExpireKeeps ==
  ASSUME SInv, Expire
  PROVE  SInv'
<1>0. /\ pc \in {"meet", "draining"}
      /\ syncs' = [syncs EXCEPT ![Newest] = [syncs[Newest] EXCEPT !.expired = TRUE]]
      /\ UNCHANGED <<queue, playerVars, mainVars, appVars>>
  BY Zenon DEF Expire, Newest
<1>1. PICK n : n = Newest
  OBVIOUS
<1>2. n \in 1 .. n /\ n \in Nat /\ TypeInv /\ syncs \in Seq(Rendezvous) /\ n = Len(syncs)
      /\ syncs[n] \in Rendezvous
  <2>1. n \in Nat /\ n > 0 /\ TypeInv /\ syncs \in Seq(Rendezvous) /\ n = Len(syncs)
    BY <1>0, <1>1, StreamTypes DEF SInv, TypeInv, MainInv, Newest
  <2>2. n \in 1 .. n
    BY <2>1, SMT
  <2> QED BY <2>1, <2>2, ElementOfSeq
<1>3. PICK r : r = [syncs[n] EXCEPT !.expired = TRUE]
  OBVIOUS
<1>4. r \in Rendezvous /\ r.sources = syncs[n].sources /\ r.reached = syncs[n].reached /\ r.expired = TRUE
  BY <1>2, <1>3, Zenon DEF Rendezvous
<1>5. /\ syncs' \in Seq(Rendezvous) /\ Len(syncs') = n /\ syncs'[n] = r
      /\ \A k \in 1 .. n : k # n => syncs'[k] = syncs[k]
  <2>1. syncs' = [syncs EXCEPT ![n] = r]
    BY <1>0, <1>1, <1>3
  <2> QED BY <1>2, <1>4, <2>1, ExceptSeq, SMT
<1>6. /\ Newest' = Newest
      /\ \A k \in 1 .. Newest : /\ syncs'[k].sources = syncs[k].sources
                                /\ syncs'[k].reached = syncs[k].reached
      /\ Met(Newest)' /\ Newest \in 1 .. Newest
  BY <1>1, <1>2, <1>4, <1>5 DEF Newest, Met
<1>7. UNCHANGED <<pc, target, m_bAbortRequest, sent>> /\ UNCHANGED playerVars /\ UNCHANGED queue
  BY <1>0 DEF mainVars, appVars
<1>8. TypeInv'
  BY <1>0, <1>2, <1>5, SMT DEF TypeInv, playerVars, decoderVars, mainVars, appVars
<1>9. MainInv'
  <2>1. Open(target)' = Open(target)
    BY <1>7 DEF Open
  <2> QED BY <1>6, <1>7, <2>1, Zenon DEF SInv, MainInv
<1>10. ASSUME NEW s \in Stream
       PROVE  StreamInv(s)'
  <2>0. StreamInv(s)
    BY DEF SInv
  <2>1. MessagesKept(s)
    BY <1>7 DEF MessagesKept, Plain, Prio, playerVars, decoderVars
  <2>2. /\ thread' = thread /\ onlyPrioMsgs' = onlyPrioMsgs /\ m_paused' = m_paused /\ queue' = queue
        /\ pMsg' = pMsg
    BY <1>7 DEF playerVars
  <2>3. HandsInv(s)'
    <3>1. thread[s] = "sync" => pMsg[s].n \in 1 .. Newest
      BY <1>2, <2>0, Hands DEF StreamInv, HandsInv
    <3> QED BY <1>6, <2>0, <2>2, <3>1, Zenon DEF StreamInv, HandsInv
  <2>a. InHands(s)' = InHands(s) /\ Kept(s)' = Kept(s)
    BY <2>1, PlacesKept DEF MessagesKept
  <2>4. Open(s)' = Open(s) /\ AllHad(s)' = AllHad(s)
        /\ FlushPending(s)' = FlushPending(s) /\ Sync(Newest)' = Sync(Newest)
        /\ Holds(s, Sync(Newest))' = Holds(s, Sync(Newest))
    BY <1>6, <2>1, <2>a, Zenon DEF MessagesKept, Open, AllHad, FlushPending, Sync, Holds
  <2>5. ClosedInv(s)'
    BY <2>0, <2>1, <2>2, <2>4, Zenon DEF StreamInv, MessagesKept, ClosedInv
  <2>6. KnownInv(s)'
    BY <1>6, <2>0, <2>1, Zenon DEF StreamInv, MessagesKept, KnownInv, Known
  <2>7. PacketInv(s)'
    BY <2>0, <2>1, <2>a, Zenon DEF StreamInv, MessagesKept, PacketInv, IsFlush
  <2>b. DecoderInv(s)'
    BY <2>0, <2>1, <2>2, DecoderKept DEF StreamInv
  <2>8. FlushInv(s)'
    BY <1>7, <2>0, <2>1, <2>4, <2>a, Zenon DEF StreamInv, MessagesKept, FlushInv, Emptied, Told
  <2>9. MeetInv(s)'
    BY <1>6, <1>7, <2>0, <2>1, <2>4, Zenon DEF StreamInv, MessagesKept, MeetInv, Invited, AskedNext
  <2>10. DrainInv(s)'
    <3>1. pc # "drained"
      BY <1>0
    <3> QED BY <1>6, <1>7, <2>0, <2>1, <2>4, <3>1, Zenon DEF StreamInv, MessagesKept, DrainInv
  <2>11. AwakeInv(s)'
    BY <2>0, <2>1, <2>2, Zenon DEF StreamInv, MessagesKept, AwakeInv
  <2>12. ExactInv(s)'
    BY <2>0, <2>2, Zenon DEF StreamInv, ExactInv
  <2> QED BY <2>3, <2>5, <2>6, <2>7, <2>b, <2>8, <2>9, <2>10, <2>11, <2>12 DEF StreamInv
<1> QED BY <1>8, <1>9, <1>10 DEF SInv

-----------------------------------------------------------------------------
(* The invariant                                                           *)

(* Nothing is open at first.                                               *)
LEMMA InitHolds ==
  ASSUME SInit
  PROVE  SInv
<1>1. /\ <<>> \in Seq(PlainItem) /\ <<>> \in Seq(PrioItem) /\ <<>> \in Seq(Rendezvous)
      /\ Len(<<>>) = 0 /\ 1 .. Len(<<>>) = {} /\ 0 \in Int /\ 0 \in Nat /\ 0 <= 0
  BY EmptySeq, SMT
<1>2. NewQueue \in Queues
  BY <1>1, Zenon DEF Queues, NewQueue
<1>3. /\ NewQueue.m_messages = <<>> /\ NewQueue.m_prioMessages = <<>> /\ NewQueue.m_iDataSize = 0
  BY Zenon DEF NewQueue
<1>4. Newest = 0
  BY <1>1 DEF SInit, Newest
<1>5. TypeInv
  <2>1. queue \in [Stream -> Queues]
    BY <1>2 DEF SInit
  <2>2. syncs \in Seq(Rendezvous) /\ Len(syncs) <= MaxSyncs
    <3>1. syncs = <<>> /\ MaxSyncs \in Nat /\ Len(syncs) = 0
      BY <1>1, BoundsAssumption DEF SInit
    <3>2. Len(syncs) <= MaxSyncs
      BY <3>1, SMT
    <3> QED BY <1>1, <3>1, <3>2
  <2>3. /\ thread \in [Stream -> {"none", "get", "wait", "have", "sync", "recover"}]
        /\ pMsg \in [Stream -> Message \cup {NoMessage}]
    BY DEF SInit
  <2>4. /\ m_bStop \in [Stream -> BOOLEAN] /\ onlyPrioMsgs \in [Stream -> BOOLEAN]
        /\ m_paused \in [Stream -> BOOLEAN]
    BY DEF SInit
  <2>5. /\ codec \in [Stream -> SUBSET Nat] /\ m_packets \in [Stream -> Seq(Packet)]
        /\ decoded \in [Stream -> SUBSET Nat] /\ putBack \in [Stream -> SUBSET Nat]
        /\ sent \in [Stream -> Nat] /\ opened \in [Stream -> Nat]
    <3>1. <<>> \in Seq(Packet) /\ {} \in SUBSET Nat
      BY EmptySeq
    <3> QED BY <1>1, <3>1 DEF SInit
  <2>6. /\ pc \in {"run", "exit", "gone"} \cup Flushing \cup Closing
        /\ leaving \in BOOLEAN /\ target \in Stream
    BY DEF SInit, Stream
  <2>7. m_displayLost \in BOOLEAN /\ m_bAbortRequest \in BOOLEAN /\ toggles \in Nat
    BY <1>1, Zenon DEF SInit
  <2> QED BY <2>1, <2>2, <2>3, <2>4, <2>5, <2>6, <2>7 DEF TypeInv
<1>6. MainInv
  BY <1>4, SMT DEF SInit, MainInv, Closing
<1>7. ASSUME NEW s \in Stream
      PROVE  StreamInv(s)
  <2>1. /\ queue[s] = NewQueue /\ thread[s] = "none" /\ pMsg[s] = NoMessage /\ codec[s] = {}
        /\ m_packets[s] = <<>> /\ decoded[s] = {} /\ pc = "run"
    BY DEF SInit
  <2>2. Plain(s) = <<>> /\ Prio(s) = <<>> /\ ~HasPacket(s) /\ Known(pMsg[s], Newest)
    BY <1>3, <2>1, SMT DEF Plain, Prio, HasPacket, Known, NoMessage
  <2>3. HandsInv(s)
    BY <2>1 DEF HandsInv
  <2>4. ClosedInv(s)
    BY <2>1, <2>2 DEF ClosedInv
  <2>5. KnownInv(s)
    BY <1>1, <2>2, Zenon DEF KnownInv
  <2>6. PacketInv(s)
    <3>1. PacketsIn(<<>>) = {} /\ Numbers(<<>>) = {} /\ Distinct(<<>>)
      BY NoPacketIn, NothingRemembered
    <3>2. InHands(s) = {} /\ PacketsIn(Plain(s)) = {} /\ PacketsIn(Prio(s)) = {} /\ Kept(s) = {}
      BY <2>1, <2>2, <3>1 DEF InHands, Kept
    <3>3. InTurn(<<>>, decoded[s]) /\ PacketsLast(<<>>)
      BY <1>1 DEF InTurn, PacketsLast
    <3> QED BY <2>1, <2>2, <3>1, <3>2, <3>3 DEF PacketInv
  <2>a. DecoderInv(s)
    BY <2>1 DEF DecoderInv
  <2>7. FlushInv(s) /\ MeetInv(s) /\ DrainInv(s)
    BY <2>1 DEF FlushInv, Emptied, Told, MeetInv, Invited, AskedNext, DrainInv
  <2>8. AwakeInv(s)
    BY <2>1 DEF AwakeInv
  <2>9. ExactInv(s)
    BY <1>3, <2>1, SizeOfEmpty DEF ExactInv, SizeIsExact
  <2> QED BY <2>3, <2>4, <2>5, <2>6, <2>a, <2>7, <2>8, <2>9 DEF StreamInv
<1> QED BY <1>5, <1>6, <1>7 DEF SInv

(* Every step keeps it.                                                    *)
LEMMA StepKeeps ==
  ASSUME SInv, [SNext]_svars
  PROVE  SInv'
<1>1. CASE \E s \in Stream : PlayerStep(s)
  BY <1>1, PlayerStepKeeps
<1>2. CASE MainStep
  BY <1>2, MainStepKeeps
<1>3. CASE AppStep
  BY <1>3, AppStepKeeps
<1>4. CASE Expire
  BY <1>4, ExpireKeeps
<1>5. CASE UNCHANGED svars
  <2>1. /\ UNCHANGED <<queue, playerVars, mainVars, syncs, appVars>>
        /\ UNCHANGED <<syncs, pc, target, m_bAbortRequest>>
    BY <1>5 DEF svars, mainVars, appVars
  <2>2. TypeInv'
    BY <2>1, SMT DEF SInv, TypeInv, playerVars, decoderVars, mainVars, appVars
  <2>3. \A s \in Stream : Untouched(s)
    BY <2>1 DEF Untouched, playerVars, decoderVars, mainVars
  <2>4. \A s \in Stream : StreamInv(s)'
    BY <2>1, <2>3, UntouchedKept DEF SInv
  <2>5. MainInv'
    BY <2>1, MainKept DEF SInv, TypeInv
  <2> QED BY <2>2, <2>4, <2>5 DEF SInv
<1> QED BY <1>1, <1>2, <1>3, <1>4, <1>5 DEF SNext

(* The invariant holds of every behaviour.                                 *)
THEOREM StreamInvariant == SSpec => []SInv
<1>1. SInit => SInv
  BY InitHolds
<1>2. SInv /\ [SNext]_svars => SInv'
  BY StepKeeps
<1> QED BY <1>1, <1>2, PTL DEF SSpec

(* The packets of a queue are in its two lists.                            *)
LEMMA WherePacketsAre ==
  ASSUME TypeInv, NEW s \in Stream
  PROVE  Packets(queue[s]) \subseteq PacketsIn(Plain(s)) \cup PacketsIn(Prio(s))
<1> SUFFICES ASSUME NEW x \in Packets(queue[s])
             PROVE  x \in PacketsIn(Plain(s)) \cup PacketsIn(Prio(s))
  OBVIOUS
<1>1. PICK e \in ToSet(Plain(s)) \cup ToSet(Prio(s)) : IsPacket(e) /\ x = e.msg.n
  BY Zenon DEF Packets, Plain, Prio
<1>2. DOMAIN Plain(s) = 1 .. Len(Plain(s)) /\ DOMAIN Prio(s) = 1 .. Len(Prio(s))
  BY StreamTypes, LenProperties
<1> QED BY <1>1, <1>2 DEF ToSet, PacketsIn

-----------------------------------------------------------------------------
(* What the runs check                                                     *)

(* The size the demuxer is told to stop by is the size of the packets in   *)
(* the queue (CDVDMessageQueue::m_iDataSize).                              *)
THEOREM SizesAreExact == SSpec => []DataSizeIsExact
<1>1. SInv => DataSizeIsExact
  BY DEF SInv, StreamInv, ExactInv, DataSizeIsExact
<1> QED BY <1>1, StreamInvariant, PTL

(* A stream player asleep in Get() with its event clear has nothing to get *)
(* and is not asked to end.                                                *)
THEOREM NobodySleepsOverAMessage == SSpec => []NoMessageIsSleptOver
<1>1. SInv => NoMessageIsSleptOver
  <2> SUFFICES ASSUME SInv, NEW s \in Stream, thread[s] = "wait", ~queue[s].m_hEvent
               PROVE  ~HasMessage(queue[s], Priority(s)) /\ ~queue[s].m_bAbortRequest
    BY DEF NoMessageIsSleptOver
  <2>1. /\ queue[s].m_prioMessages = <<>> /\ ~queue[s].m_bAbortRequest
        /\ onlyPrioMsgs[s] \/ m_paused[s] \/ queue[s].m_messages = <<>>
    BY DEF SInv, StreamInv, AwakeInv, Plain, Prio
  <2>2. Priority(s) \in {0, 1} /\ (onlyPrioMsgs[s] \/ m_paused[s] => Priority(s) # 0)
    BY SMT DEF Priority
  <2>3. queue[s] \in Queues
    BY DEF SInv, TypeInv
  <2> QED BY <2>1, <2>2, <2>3, WhatThereIsToGet
<1> QED BY <1>1, StreamInvariant, PTL

(* When the wait for empty buffers ends in time, no packet is left that the*)
(* decoder never had.                                                      *)
THEOREM DrainsAreComplete == SSpec => []DrainIsComplete
<1>1. SInv => DrainIsComplete
  <2> SUFFICES ASSUME SInv, pc = "drained", ~syncs[Len(syncs)].expired
               PROVE  /\ Packets(queue[target]) \subseteq decoded[target]
                      /\ pMsg[target].kind = "packet" => pMsg[target].n \in decoded[target]
    BY DEF DrainIsComplete
  <2>1. TypeInv /\ target \in Stream
    BY DEF SInv, TypeInv
  <2>2. AllHad(target) /\ PacketsIn(Prio(target)) \subseteq decoded[target]
    BY <2>1 DEF SInv, StreamInv, DrainInv, PacketInv, Newest
  <2>3. Packets(queue[target]) \subseteq PacketsIn(Plain(target)) \cup PacketsIn(Prio(target))
    BY <2>1, WherePacketsAre
  <2> QED BY <2>2, <2>3 DEF AllHad, InHands, HasPacket
<1> QED BY <1>1, StreamInvariant, PTL

(* After the rendezvous of a flush only packets put back are left of what  *)
(* was sent before; a closed stream has nothing.                           *)
THEOREM OnlyWhatWasPutBackSurvives == SSpec => []OnlyPutBackSurvives
<1>1. SInv => OnlyPutBackSurvives
  <2> SUFFICES ASSUME SInv, NEW s \in Stream
               PROVE  /\ FlushWorked => OldPackets(s) \subseteq putBack[s]
                      /\ ~Open(s) => /\ thread[s] = "none"
                                     /\ queue[s].m_messages = <<>> /\ queue[s].m_prioMessages = <<>>
    BY DEF OnlyPutBackSurvives
  <2>1. ~Open(s) => /\ thread[s] = "none"
                    /\ queue[s].m_messages = <<>> /\ queue[s].m_prioMessages = <<>>
    BY DEF SInv, StreamInv, ClosedInv, Plain, Prio
  <2>2. ASSUME FlushWorked
        PROVE  OldPackets(s) \subseteq putBack[s]
    <3>1. pc = "flushed" /\ Met(Newest) /\ ~syncs[Newest].expired /\ syncs[Newest].sources = Stream
      BY <2>2 DEF FlushWorked, SInv, MainInv, Newest
    <3>2. s \in syncs[Newest].reached
      BY <3>1 DEF Met
    <3>3. Emptied(s) /\ Told(s) /\ Invited(s)
      BY <3>1 DEF Emptied, Told, Invited
    <3>4. ~FlushPending(s) /\ Open(s)
      BY <3>2, <3>3 DEF SInv, StreamInv, MeetInv
    <3>5. codec[s] \cup Kept(s) \cup PacketsIn(Prio(s)) \cup PacketsIn(Plain(s)) \subseteq putBack[s]
      BY <3>3, <3>4 DEF SInv, StreamInv, FlushInv
    <3>6. Packets(queue[s]) \subseteq PacketsIn(Plain(s)) \cup PacketsIn(Prio(s))
      BY WherePacketsAre DEF SInv
    <3>7. DOMAIN m_packets[s] = 1 .. Len(m_packets[s])
      BY StreamTypes, LenProperties DEF SInv
    <3> QED BY <3>5, <3>6, <3>7 DEF OldPackets, Kept, Numbers
  <2> QED BY <2>1, <2>2
<1> QED BY <1>1, StreamInvariant, PTL

(* While the player's thread waits for a rendezvous, each open stream it   *)
(* asked has come to it or still has the message.                          *)
THEOREM NobodyWaitsInVain == SSpec => []NobodyIsWaitedForInVain
<1>1. SInv => NobodyIsWaitedForInVain
  <2> SUFFICES ASSUME SInv
               PROVE  NobodyIsWaitedForInVain
    OBVIOUS
  <2>1. TypeInv /\ target \in Stream
    BY DEF SInv, TypeInv
  <2>2. ASSUME NEW s \in Stream, Holds(s, Sync(Newest))
        PROVE  HasSync(s, Newest)
    <3>1. DOMAIN Plain(s) = 1 .. Len(Plain(s)) /\ DOMAIN Prio(s) = 1 .. Len(Prio(s))
      BY <2>1, StreamTypes, LenProperties
    <3>2. /\ \A i \in 1 .. Len(Plain(s)) : Plain(s)[i] \in ToSet(queue[s].m_messages)
          /\ \A i \in 1 .. Len(Prio(s)) : Prio(s)[i] \in ToSet(queue[s].m_prioMessages)
      BY <3>1 DEF ToSet, Plain, Prio
    <3>3. PICK x : x = [kind |-> "sync", n |-> Newest]
      OBVIOUS
    <3>4. Sync(Newest) = x
      BY <3>3 DEF Sync
    <3> QED BY <2>2, <3>2, <3>3, <3>4, Zenon DEF Holds, HasSync
  <2>3. ASSUME pc = "meet", NEW s \in Stream, Open(s)
        PROVE  s \in syncs[Newest].reached \/ HasSync(s, Newest)
    <3>1. Invited(s)
      BY <2>3 DEF Invited
    <3>2. s \in syncs[Newest].reached \/ Holds(s, Sync(Newest))
      BY <2>3, <3>1 DEF SInv, StreamInv, MeetInv
    <3> QED BY <2>2, <3>2
  <2>4. ASSUME pc = "draining"
        PROVE  Met(Newest) \/ HasSync(target, Newest)
    <3>1. Met(Newest) \/ Holds(target, Sync(Newest))
      BY <2>1, <2>4 DEF SInv, StreamInv, DrainInv
    <3> QED BY <2>1, <2>2, <3>1
  <2> QED BY <2>3, <2>4 DEF NobodyIsWaitedForInVain, Newest
<1> QED BY <1>1, StreamInvariant, PTL

(* What a stream player has in its hands to give to the decoder, it does   *)
(* not have since it was reset; and what it never had is older than all    *)
(* that is in the queue, and newer than all it had, though a video player  *)
(* sends itself packets again when its decoder lost them.                  *)
THEOREM PacketsAreDecodedInOrder == SSpec => []DecodedInOrder
<1>1. SInv => DecodedInOrder
  <2> SUFFICES ASSUME SInv, NEW s \in Stream, thread[s] = "have", pMsg[s].kind = "packet",
                      NEW n, n = pMsg[s].n
               PROVE  /\ n \notin codec[s]
                      /\ n \notin decoded[s] => /\ \A old \in decoded[s] : old < n
                                                /\ \A other \in Packets(queue[s]) : other > n
    BY DEF DecodedInOrder
  <2>1. TypeInv /\ PacketInv(s) /\ DecoderInv(s) /\ n \in InHands(s)
    BY DEF SInv, StreamInv, InHands, HasPacket
  <2>2. n \notin codec[s]
    BY <2>1 DEF DecoderInv
  <2>3. ASSUME n \notin decoded[s], NEW old \in decoded[s]
        PROVE  old < n
    BY <2>1, <2>3 DEF PacketInv
  <2>4. ASSUME n \notin decoded[s], NEW other \in Packets(queue[s])
        PROVE  other > n
    <3>1. PacketsIn(Prio(s)) = {} /\ \A x \in PacketsIn(Plain(s)) : n < x
      BY <2>1, <2>4 DEF PacketInv
    <3>2. other \in PacketsIn(Plain(s))
      BY <2>1, <2>4, <3>1, WherePacketsAre
    <3>3. n \in 1 .. sent[s] /\ other \in 1 .. sent[s] /\ sent[s] \in Nat
      BY <2>1, <3>2, StreamTypes DEF PacketInv
    <3> QED BY <3>1, <3>2, <3>3, SMT
  <2> QED BY <2>2, <2>3, <2>4
<1> QED BY <1>1, StreamInvariant, PTL
=============================================================================
