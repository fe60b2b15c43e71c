---------------------------- MODULE MessageQueue ----------------------------
(***************************************************************************)
(* CDVDMessageQueue (xbmc/cores/VideoPlayer/DVDMessageQueue.cpp): what     *)
(* each operation makes of a queue, as one step under m_section.  A queue  *)
(* is a record with the members' names; both std::lists are sequences      *)
(* whose last element is back(), the one Get() takes.                      *)
(*                                                                         *)
(* A message is a record with a kind; a demuxer packet carries its number, *)
(* which also stands for its size: sizes are positive and distinct, so a   *)
(* packet that is counted twice or not at all shows in m_iDataSize.  The   *)
(* packets have no time stamps: the queue is data based (IsDataBased).     *)
(***************************************************************************)
EXTENDS Integers, SequencesExt

CONSTANTS
  Message,       \* the messages; a packet has a number n > 0
  MaxDataSize    \* m_iMaxDataSize

ListItem == [msg : Message, priority : Int]

IsPacket(item) == item.msg.kind = "packet"
Size(m) == IF m.kind = "packet" THEN m.n ELSE 0

(* The constructor, and End(): nothing in the lists, no Put accepted.      *)
Closed(q) == [q EXCEPT !.m_messages = <<>>, !.m_prioMessages = <<>>, !.m_iDataSize = 0,
                       !.m_bInitialized = FALSE, !.m_bAbortRequest = FALSE]

NewQueue == [m_messages |-> <<>>, m_prioMessages |-> <<>>, m_iDataSize |-> 0,
             m_bInitialized |-> FALSE, m_bAbortRequest |-> FALSE, m_drain |-> FALSE,
             m_hEvent |-> FALSE]

Initialized(q) == [q EXCEPT !.m_iDataSize = 0, !.m_bAbortRequest = FALSE,
                            !.m_bInitialized = TRUE, !.m_drain = FALSE]

(* Plausible bug: the event is left to the next Put.                       *)
Aborted_Silently(q) == [q EXCEPT !.m_bAbortRequest = TRUE]

Aborted(q) == [q EXCEPT !.m_bAbortRequest = TRUE, !.m_hEvent = TRUE]

(* std::list::remove_if: the others stay, in their order.                  *)
WithoutPackets(list) ==
  LET kept[i \in 0 .. Len(list)] ==
        IF i = 0 THEN <<>>
        ELSE IF IsPacket(list[i]) THEN kept[i - 1] ELSE Append(kept[i - 1], list[i])
  IN  kept[Len(list)]

(* Plausible bug: the size is left to the packets being taken.             *)
FlushedOfPackets_KeepsSize(q) ==
  [q EXCEPT !.m_messages = WithoutPackets(@), !.m_prioMessages = WithoutPackets(@)]

(* Flush(DEMUXER_PACKET), the default.                                     *)
FlushedOfPackets(q) ==
  [q EXCEPT !.m_messages = WithoutPackets(@), !.m_prioMessages = WithoutPackets(@),
            !.m_iDataSize = 0]

(* std::find_if, and emplace in front of what it found.                    *)
InsertedAt(list, item, prio) ==
  LET place == SelectInSeq(list, LAMBDA i : prio <= i.priority)
  IN  InsertAt(list, IF place = 0 THEN Len(list) + 1 ELSE place, item)

(* Put and PutBack (front = FALSE).  A queue that is not initialized drops *)
(* the message.                                                            *)
PutIn(q, m, priority, front) ==
  LET item == [msg |-> m, priority |-> priority]
      base == IF q.m_messages = <<>> THEN 0 ELSE q.m_iDataSize
  IN  IF ~q.m_bInitialized THEN q
      ELSE IF priority > 0
      THEN [q EXCEPT !.m_prioMessages = InsertedAt(@, item, IF front THEN priority ELSE priority + 1),
                     !.m_hEvent = TRUE]
      ELSE [q EXCEPT !.m_messages = IF front THEN <<item>> \o @ ELSE Append(@, item),
                     !.m_iDataSize = base + (IF priority = 0 THEN Size(m) ELSE 0),
                     !.m_hEvent = TRUE]

-----------------------------------------------------------------------------
(* Get: the list it looks at, and whether it has a message for a caller    *)
(* that asks for this priority or a higher one.                            *)
Candidates(q, priority) ==
  IF priority > 0 \/ q.m_prioMessages # <<>> THEN q.m_prioMessages ELSE q.m_messages

HasMessage(q, priority) ==
  LET msgs == Candidates(q, priority)
  IN  msgs # <<>> /\ (Last(msgs).priority >= priority \/ q.m_drain)

NextItem(q, priority) == Last(Candidates(q, priority))

Taken(q, priority) ==
  LET item   == NextItem(q, priority)
      packet == IF item.priority = 0 THEN Size(item.msg) ELSE 0
  IN  IF priority > 0 \/ q.m_prioMessages # <<>>
      THEN [q EXCEPT !.m_prioMessages = Front(@), !.m_iDataSize = @ - packet]
      ELSE [q EXCEPT !.m_messages = Front(@), !.m_iDataSize = @ - packet]

(* GetLevel() = 100, for a queue whose fill is measured by its data.       *)
IsFull(q) == q.m_iDataSize >= MaxDataSize

-----------------------------------------------------------------------------
Packets(q) == {i.msg.n : i \in {i \in ToSet(q.m_messages) \cup ToSet(q.m_prioMessages) : IsPacket(i)}}

TotalSize(list) ==
  LET upTo[i \in 0 .. Len(list)] == IF i = 0 THEN 0 ELSE upTo[i - 1] + Size(list[i].msg)
  IN  upTo[Len(list)]

SizeIsExact(q) == q.m_iDataSize = TotalSize(q.m_messages)
=============================================================================
