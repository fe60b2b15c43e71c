---------------------------- MODULE StreamPlayers ----------------------------
(***************************************************************************)
(* CVideoPlayer's thread and its audio and video player, each a thread of  *)
(* its own that is fed through a CDVDMessageQueue, as far as what they     *)
(* tell each other goes: packets, opening and closing of streams, draining,*)
(* the flush before a seek, which ends in a rendezvous of the three        *)
(* (CDVDMsgGeneralSynchronize), and the pause the application's thread     *)
(* sends while the display is lost.                                        *)
(*                                                                         *)
(* The video player keeps the packets its decoder got last: when the       *)
(* decoder reports that it lost its state (VC_FLUSHED, VC_REOPEN), after a *)
(* packet or when nothing came in time, it sends them to itself again, with*)
(* a priority above that of all other messages, and starts the decoder     *)
(* afresh.  The audio player has nothing of the kind.                      *)
(*                                                                         *)
(* Left out are the messages that only tell the decoder something: one that*)
(* resets it (GENERAL_RESET), and two after which it may lose its state    *)
(* (VIDEO_DRAIN, GENERAL_STREAMCHANGE), as it may when nothing came in     *)
(* time; the speeds at which a flush does without the rendezvous; and the  *)
(* states of a stream player (waiting to be synchronized) that make it ask *)
(* for messages with priority only, as its being paused does.              *)
(***************************************************************************)
EXTENDS Integers, Sequences

CONSTANTS
  MaxDataSize,   \* of a queue
  ConvergeCount, \* the most packets the video decoder needs to recover
  MaxPackets,    \* bound: packets of each stream
  MaxOpens,      \* bound: how often a stream is opened
  MaxSyncs,      \* bound: flushes and waits for empty buffers
  MaxToggles,    \* bound: how often the display comes or goes
  MaxWithLoss    \* bound: packets of each stream in behaviours in which it goes

Stream  == {"audio", "video"}

ASSUME BoundsAssumption ==
  /\ MaxDataSize \in Nat \ {0} /\ ConvergeCount \in Nat
  /\ MaxPackets \in [Stream -> Nat] /\ MaxOpens \in Nat
  /\ MaxSyncs \in Nat /\ MaxToggles \in Nat /\ MaxWithLoss \in Nat

Packet  == [kind : {"packet"}, n : UNION {1 .. MaxPackets[s] : s \in Stream}]
Message == Packet \cup [kind : {"sync"}, n : 1 .. MaxSyncs]
             \cup [kind : {"pause", "resume", "flush"}]
NoMessage == [kind |-> "none"]

INSTANCE MessageQueue

VARIABLES
  queue,        \* m_messageQueue of each stream player
  thread,       \* where each is: "none", "get", "wait" (in Get), "have", "sync" (in Wait),
                \* "recover" (in ProcessDecoderOutput, to send packets again)
  m_bStop,      \* of its CThread
  pMsg,         \* the message in its hands
  onlyPrioMsgs, \* it has something to output first
  m_paused,
  codec,        \* the packets the decoder got since it was reset
  m_packets,    \* those of them it may need again, the oldest first
  pc,           \* where CVideoPlayer's thread is
  leaving,      \* it has left the loop of Process()
  target,       \* the stream it is opening, closing or flushing
  syncs,        \* the GENERAL_SYNCHRONIZE messages
  m_displayLost,
  m_bAbortRequest

VARIABLES       \* history
  sent,         \* packets put in, per stream
  decoded,      \* the packets the decoder has ever got
  putBack,      \* those put back since the queue was last flushed
  opened,       \* how often each stream was opened
  toggles

decoderVars == <<codec, m_packets, decoded, putBack>>
playerVars == <<thread, m_bStop, pMsg, onlyPrioMsgs, m_paused, decoderVars>>
mainVars   == <<pc, leaving, target, sent, opened>>
appVars    == <<m_displayLost, m_bAbortRequest, toggles>>
svars == <<queue, playerVars, mainVars, syncs, appVars>>

SInit ==
  /\ queue = [s \in Stream |-> NewQueue]
  /\ thread = [s \in Stream |-> "none"] /\ m_bStop = [s \in Stream |-> FALSE]
  /\ pMsg = [s \in Stream |-> NoMessage]
  /\ onlyPrioMsgs = [s \in Stream |-> FALSE] /\ m_paused = [s \in Stream |-> FALSE]
  /\ codec = [s \in Stream |-> {}] /\ m_packets = [s \in Stream |-> <<>>]
  /\ decoded = [s \in Stream |-> {}] /\ putBack = [s \in Stream |-> {}]
  /\ pc = "run" /\ leaving = FALSE /\ target = "audio" /\ sent = [s \in Stream |-> 0]
  /\ opened = [s \in Stream |-> 0]
  /\ syncs = <<>>
  /\ m_displayLost = FALSE /\ m_bAbortRequest = FALSE /\ toggles = 0

Open(s) == queue[s].m_bInitialized

Put(s, m, priority) == queue' = [queue EXCEPT ![s] = PutIn(@, m, priority, TRUE)]

-----------------------------------------------------------------------------
(* CDVDMsgGeneralSynchronize.  Its own time out is global: once it has     *)
(* passed, everyone who waits or will wait goes on.                        *)
NewSync(sources) == Append(syncs, [sources |-> sources, reached |-> {}, expired |-> FALSE])

Arrive(s, k) ==
  syncs' = [syncs EXCEPT ![k].reached = @ \cup (syncs[k].sources \cap {s, "any"})]

Met(k) == syncs[k].reached = syncs[k].sources \/ syncs[k].expired

-----------------------------------------------------------------------------
(* A stream player: Process().  It asks for a message of this priority.    *)
Priority(s) == IF onlyPrioMsgs[s] \/ m_paused[s] THEN 1 ELSE 0

Leaves(s) == queue[s].m_bAbortRequest \/ m_bStop[s]

Exit(s) ==
  /\ thread[s] = "get" /\ Leaves(s)
  /\ thread' = [thread EXCEPT ![s] = "none"]
  /\ UNCHANGED <<queue, m_bStop, pMsg, onlyPrioMsgs, m_paused, decoderVars, mainVars, syncs, appVars>>

GetMessage(s) ==
  /\ thread[s] = "get" /\ ~Leaves(s) /\ HasMessage(queue[s], Priority(s))
  /\ pMsg' = [pMsg EXCEPT ![s] = NextItem(queue[s], Priority(s)).msg]
  /\ queue' = [queue EXCEPT ![s] = Taken(@, Priority(s))]
  /\ thread' = [thread EXCEPT ![s] = "have"]
  /\ onlyPrioMsgs' = [onlyPrioMsgs EXCEPT ![s] = FALSE]
  /\ UNCHANGED <<m_bStop, m_paused, decoderVars, mainVars, syncs, appVars>>

GetWaits(s) ==
  /\ thread[s] = "get" /\ ~Leaves(s) /\ ~HasMessage(queue[s], Priority(s))
  /\ queue' = [queue EXCEPT ![s].m_hEvent = FALSE]
  /\ thread' = [thread EXCEPT ![s] = "wait"]
  /\ UNCHANGED <<m_bStop, pMsg, onlyPrioMsgs, m_paused, decoderVars, mainVars, syncs, appVars>>

(* ProcessDecoderOutput: the decoder may have more to output; or it was    *)
(* flushed or has to be opened again, which only CVideoPlayerVideo minds.  *)
DecoderGoesOn(s, more) ==
  /\ thread' = [thread EXCEPT ![s] = "get"]
  /\ onlyPrioMsgs' = [onlyPrioMsgs EXCEPT ![s] = more]

DecoderFlushed(s) ==
  /\ s = "video"
  /\ thread' = [thread EXCEPT ![s] = "recover"]
  /\ onlyPrioMsgs' = [onlyPrioMsgs EXCEPT ![s] = FALSE]

(* The event was set, and Get looks again; or the wait timed out: Get      *)
(* returns, and the player looks for output, a new one if it is not paused.*)
(* Without packets there is none, unless a picture was not shown in time.  *)
GetWakes(s) ==
  /\ thread[s] = "wait"
  /\ \/ queue[s].m_hEvent /\ thread' = [thread EXCEPT ![s] = "get"] /\ UNCHANGED onlyPrioMsgs
     \/ \E more \in BOOLEAN : (more => codec[s] # {} \/ s = "video") /\ DecoderGoesOn(s, more)
     \/ ~m_paused[s] /\ DecoderFlushed(s)
  /\ UNCHANGED <<queue, m_bStop, pMsg, m_paused, decoderVars, mainVars, syncs, appVars>>

Released(s) == pMsg' = [pMsg EXCEPT ![s] = NoMessage] /\ thread' = [thread EXCEPT ![s] = "get"]

HandleSetting(s) ==
  /\ thread[s] = "have" /\ pMsg[s].kind \in {"pause", "resume"}
  /\ m_paused' = [m_paused EXCEPT ![s] = (pMsg[s].kind = "pause")]
  /\ Released(s)
  /\ UNCHANGED <<queue, m_bStop, onlyPrioMsgs, decoderVars, mainVars, syncs, appVars>>

(* Plausible bug: whatever is in the queue is taken for old.               *)
HandleFlush_EmptiesQueue(s) ==
  /\ thread[s] = "have" /\ pMsg[s].kind = "flush"
  /\ queue' = [queue EXCEPT ![s].m_messages = <<>>, ![s].m_prioMessages = <<>>, ![s].m_iDataSize = 0]
  /\ codec' = [codec EXCEPT ![s] = {}] /\ m_packets' = [m_packets EXCEPT ![s] = <<>>]
  /\ Released(s)
  /\ UNCHANGED <<m_bStop, onlyPrioMsgs, m_paused, decoded, putBack, mainVars, syncs, appVars>>

HandleFlush(s) ==
  /\ thread[s] = "have" /\ pMsg[s].kind = "flush"
  /\ codec' = [codec EXCEPT ![s] = {}] /\ m_packets' = [m_packets EXCEPT ![s] = <<>>]
  /\ Released(s)
  /\ UNCHANGED <<queue, m_bStop, onlyPrioMsgs, m_paused, decoded, putBack, mainVars, syncs, appVars>>

(* m_packets with the packet the decoder took; the oldest leaves when there*)
(* are more than the decoder needs, whose number changes, or 10 s of them. *)
Remembered(s) ==
  LET list == Append(m_packets[s], pMsg[s])
  IN  IF s = "video" THEN {l \in {list, Tail(list)} : Len(l) <= ConvergeCount} ELSE {<<>>}

(* The queue and m_packets hold references of their own to the message.    *)
HandlePacket(s) ==
  /\ thread[s] = "have" /\ pMsg[s].kind = "packet"
  /\ codec' = [codec EXCEPT ![s] = @ \cup {pMsg[s].n}]
  /\ decoded' = [decoded EXCEPT ![s] = @ \cup {pMsg[s].n}]
  /\ \E list \in Remembered(s) : m_packets' = [m_packets EXCEPT ![s] = list]
  /\ pMsg' = [pMsg EXCEPT ![s] = NoMessage]
  /\ (\E more \in BOOLEAN : DecoderGoesOn(s, more)) \/ DecoderFlushed(s)
  /\ UNCHANGED <<queue, m_bStop, m_paused, putBack, mainVars, syncs, appVars>>

(* VC_FLUSHED and VC_REOPEN: what is remembered is sent again, one by one, *)
(* in front of everything but in order; then the decoder is reset.         *)
SendAgain(s) ==
  /\ thread[s] = "recover" /\ m_packets[s] # <<>>
  /\ Put(s, Head(m_packets[s]), 10)
  /\ m_packets' = [m_packets EXCEPT ![s] = Tail(@)]
  /\ UNCHANGED <<thread, m_bStop, pMsg, onlyPrioMsgs, m_paused, codec, decoded, putBack, mainVars, syncs, appVars>>

DecoderReset(s) ==
  /\ thread[s] = "recover" /\ m_packets[s] = <<>>
  /\ codec' = [codec EXCEPT ![s] = {}]
  /\ thread' = [thread EXCEPT ![s] = "get"]
  /\ UNCHANGED <<queue, m_bStop, pMsg, onlyPrioMsgs, m_paused, m_packets, decoded, putBack, mainVars, syncs, appVars>>

(* Plausible bug: the packet the decoder has no room for is put at the end.*)
PutPacketBack_AtTheEnd(s) ==
  /\ thread[s] = "have" /\ pMsg[s].kind = "packet"
  /\ queue' = [queue EXCEPT ![s] = PutIn(@, pMsg[s], 0, TRUE)]
  /\ putBack' = [putBack EXCEPT ![s] = @ \cup {pMsg[s].n}]
  /\ onlyPrioMsgs' = [onlyPrioMsgs EXCEPT ![s] = TRUE]
  /\ Released(s)
  /\ UNCHANGED <<m_bStop, m_paused, codec, m_packets, decoded, mainVars, syncs, appVars>>

(* AddData() has no room for the packet.  One that was sent again loses its*)
(* priority, and the next one overtakes it.                                *)
PutPacketBack(s) ==
  /\ thread[s] = "have" /\ pMsg[s].kind = "packet"
  /\ queue' = [queue EXCEPT ![s] = PutIn(@, pMsg[s], 0, FALSE)]
  /\ putBack' = [putBack EXCEPT ![s] = @ \cup {pMsg[s].n}]
  /\ onlyPrioMsgs' = [onlyPrioMsgs EXCEPT ![s] = TRUE]
  /\ Released(s)
  /\ UNCHANGED <<m_bStop, m_paused, codec, m_packets, decoded, mainVars, syncs, appVars>>

HandleSync(s) ==
  /\ thread[s] = "have" /\ pMsg[s].kind = "sync"
  /\ Arrive(s, pMsg[s].n)
  /\ thread' = [thread EXCEPT ![s] = "sync"]
  /\ UNCHANGED <<queue, m_bStop, pMsg, onlyPrioMsgs, m_paused, decoderVars, mainVars, appVars>>

SyncReached(s) ==
  /\ thread[s] = "sync" /\ Met(pMsg[s].n)
  /\ Released(s)
  /\ UNCHANGED <<queue, m_bStop, onlyPrioMsgs, m_paused, decoderVars, mainVars, syncs, appVars>>

(* 100 ms without the others: the message goes back in, behind the others  *)
(* with priority.                                                          *)
SyncLater(s) ==
  /\ thread[s] = "sync" /\ ~Met(pMsg[s].n)
  /\ Put(s, pMsg[s], 1)
  /\ Released(s)
  /\ UNCHANGED <<m_bStop, onlyPrioMsgs, m_paused, decoderVars, mainVars, syncs, appVars>>

PlayerStep(s) ==
  \/ Exit(s) \/ GetMessage(s) \/ GetWaits(s) \/ GetWakes(s)
  \/ HandleSetting(s) \/ HandleFlush(s) \/ HandlePacket(s) \/ PutPacketBack(s)
  \/ SendAgain(s) \/ DecoderReset(s)
  \/ HandleSync(s) \/ SyncReached(s) \/ SyncLater(s)

-----------------------------------------------------------------------------
(* CVideoPlayer's thread.  While the display is lost it starts nothing.    *)
Running == pc = "run" /\ ~m_displayLost /\ ~m_bAbortRequest

SendPacket(s) ==
  /\ Running /\ Open(s) /\ sent[s] < MaxPackets[s]
  /\ toggles > 0 => sent[s] < MaxWithLoss
  /\ \A t \in Stream : Open(t) => ~IsFull(queue[t])
  /\ sent' = [sent EXCEPT ![s] = @ + 1]
  /\ Put(s, [kind |-> "packet", n |-> sent'[s]], 0)
  /\ UNCHANGED <<playerVars, pc, leaving, target, opened, syncs, appVars>>

OpenStream(s) ==
  /\ Running /\ ~Open(s) /\ opened[s] < MaxOpens
  /\ opened' = [opened EXCEPT ![s] = @ + 1]
  /\ queue' = [queue EXCEPT ![s] = Initialized(@)]
  /\ thread' = [thread EXCEPT ![s] = "get"] /\ m_bStop' = [m_bStop EXCEPT ![s] = FALSE]
  /\ onlyPrioMsgs' = [onlyPrioMsgs EXCEPT ![s] = FALSE]
  /\ m_packets' = [m_packets EXCEPT ![s] = <<>>]
  /\ UNCHANGED <<pMsg, m_paused, codec, decoded, putBack, pc, leaving, target, sent, syncs, appVars>>

At(here, there) == pc = here /\ pc' = there

(* FlushBuffers: each player's Flush() empties its queue and tells it so,  *)
(* then both are asked to meet.                                            *)
FlushBuffers ==
  /\ Running /\ Len(syncs) < MaxSyncs /\ pc' = "flush" /\ target' = "audio"
  /\ UNCHANGED <<queue, playerVars, leaving, sent, opened, syncs, appVars>>

FlushPackets ==
  /\ At("flush", "tell")
  /\ queue' = [queue EXCEPT ![target] = FlushedOfPackets(@)]
  /\ putBack' = [putBack EXCEPT ![target] = {}]
  /\ UNCHANGED <<thread, m_bStop, pMsg, onlyPrioMsgs, m_paused, codec, m_packets, decoded, leaving, target, sent, opened, syncs, appVars>>

(* Plausible bug: the order to flush has no priority.                      *)
TellToFlush_NoPriority ==
  /\ pc = "tell"
  /\ Put(target, [kind |-> "flush"], 0)
  /\ \/ target = "audio" /\ target' = "video" /\ pc' = "flush"
     \/ target = "video" /\ target' = "audio" /\ pc' = "ask"
  /\ UNCHANGED <<playerVars, leaving, sent, opened, syncs, appVars>>

TellToFlush ==
  /\ pc = "tell"
  /\ Put(target, [kind |-> "flush"], 1)
  /\ \/ target = "audio" /\ target' = "video" /\ pc' = "flush"
     \/ target = "video" /\ target' = "audio" /\ pc' = "ask"
  /\ UNCHANGED <<playerVars, leaving, sent, opened, syncs, appVars>>

AskToMeet ==
  /\ pc = "ask"
  /\ \/ /\ target = "audio" /\ target' = "video" /\ pc' = "ask"
        /\ syncs' = NewSync(Stream)
     \/ /\ target = "video" /\ target' = "audio" /\ pc' = "meet"
        /\ UNCHANGED syncs
  /\ Put(target, [kind |-> "sync", n |-> Len(syncs')], 1)
  /\ UNCHANGED <<playerVars, leaving, sent, opened, appVars>>

(* CDVDMsgGeneralSynchronize::Wait(m_bStop, 0)                             *)
MeetPlayers ==
  /\ At("meet", "flushed") /\ (Met(Len(syncs)) \/ m_bAbortRequest)
  /\ UNCHANGED <<queue, playerVars, leaving, target, sent, opened, syncs, appVars>>

FlushDone ==
  /\ At("flushed", "run")
  /\ UNCHANGED <<queue, playerVars, leaving, target, sent, opened, syncs, appVars>>

-----------------------------------------------------------------------------
(* CloseStream: with the buffers drained first, unless someone waits for   *)
(* the player to end.                                                      *)
CloseStream(s, wait) ==
  /\ Open(s) /\ target' = s
  /\ IF wait /\ ~m_bAbortRequest /\ Len(syncs) < MaxSyncs
     THEN /\ queue' = [queue EXCEPT ![s].m_drain = TRUE]
          /\ pc' = "drain"
     ELSE /\ UNCHANGED queue
          /\ pc' = "abort"
  /\ UNCHANGED <<playerVars, leaving, sent, opened, syncs, appVars>>

CloseOne == Running /\ \E s \in Stream, wait \in BOOLEAN : CloseStream(s, wait)

(* Plausible bug: the marker overtakes the packets.                        *)
PutMarker_WithPriority ==
  /\ At("drain", "draining")
  /\ syncs' = NewSync({"any"})
  /\ Put(target, [kind |-> "sync", n |-> Len(syncs')], 1)
  /\ UNCHANGED <<playerVars, leaving, target, sent, opened, appVars>>

PutMarker ==
  /\ At("drain", "draining")
  /\ syncs' = NewSync({"any"})
  /\ Put(target, [kind |-> "sync", n |-> Len(syncs')], 0)
  /\ UNCHANGED <<playerVars, leaving, target, sent, opened, appVars>>

Drained ==
  /\ At("draining", "drained") /\ Met(Len(syncs))
  /\ UNCHANGED <<queue, playerVars, leaving, target, sent, opened, syncs, appVars>>

EndDrain ==
  /\ At("drained", "abort")
  /\ queue' = [queue EXCEPT ![target].m_drain = FALSE]
  /\ UNCHANGED <<playerVars, leaving, target, sent, opened, syncs, appVars>>

AbortQueue ==
  /\ At("abort", "stop")
  /\ queue' = [queue EXCEPT ![target] = Aborted(@)]
  /\ UNCHANGED <<playerVars, leaving, target, sent, opened, syncs, appVars>>

StopThread ==
  /\ At("stop", "join")
  /\ m_bStop' = [m_bStop EXCEPT ![target] = TRUE]
  /\ UNCHANGED <<queue, thread, pMsg, onlyPrioMsgs, m_paused, decoderVars, leaving, target, sent, opened, syncs, appVars>>

EndQueue ==
  /\ At("join", IF leaving THEN "exit" ELSE "run")
  /\ thread[target] = "none"
  /\ queue' = [queue EXCEPT ![target] = Closed(@)]
  /\ codec' = [codec EXCEPT ![target] = {}]
  /\ UNCHANGED <<thread, m_bStop, pMsg, onlyPrioMsgs, m_paused, m_packets, decoded, putBack, leaving, target, sent, opened, syncs, appVars>>

(* The loop ends at the end of the file or because it was told to; the     *)
(* last streams are closed in OnExit, after which the thread is gone.      *)
LeaveLoop ==
  /\ At("run", "exit") /\ leaving' = TRUE /\ (m_bAbortRequest \/ ~m_displayLost)
  /\ UNCHANGED <<queue, playerVars, target, sent, opened, syncs, appVars>>

OnExit ==
  /\ pc = "exit"
  /\ \/ Open("audio") /\ CloseStream("audio", TRUE)
     \/ ~Open("audio") /\ CloseStream("video", TRUE)
     \/ /\ \A s \in Stream : ~Open(s)
        /\ pc' = "gone"
        /\ UNCHANGED <<queue, playerVars, leaving, target, sent, opened, syncs, appVars>>

MainStep ==
  \/ \E s \in Stream : SendPacket(s) \/ OpenStream(s)
  \/ FlushBuffers \/ FlushPackets \/ TellToFlush \/ AskToMeet \/ MeetPlayers \/ FlushDone
  \/ CloseOne \/ PutMarker \/ Drained \/ EndDrain \/ AbortQueue \/ StopThread \/ EndQueue
  \/ LeaveLoop \/ OnExit

-----------------------------------------------------------------------------
(* The application's thread: the display is lost and comes back (two Puts, *)
(* in queues that only meet in what they are sent); CloseFile() asks the   *)
(* player to end.  Bound: it does one or the other in a behaviour.         *)
TellBoth(m) ==
  /\ queue' = [s \in Stream |-> PutIn(queue[s], [kind |-> m], 1, TRUE)]
  /\ UNCHANGED <<playerVars, mainVars, syncs, m_bAbortRequest>>

OnLostDisplay ==
  /\ ~m_bAbortRequest /\ toggles < MaxToggles /\ toggles' = toggles + 1
  /\ \A s \in Stream : sent[s] <= MaxWithLoss
  /\ ~m_displayLost /\ m_displayLost' = TRUE
  /\ TellBoth("pause")

OnResetDisplay ==
  /\ m_displayLost /\ m_displayLost' = FALSE
  /\ TellBoth("resume") /\ UNCHANGED toggles

CloseFile ==
  /\ toggles = 0 /\ ~m_bAbortRequest /\ m_bAbortRequest' = TRUE
  /\ UNCHANGED <<queue, playerVars, mainVars, syncs, m_displayLost, toggles>>

AppStep == OnLostDisplay \/ OnResetDisplay \/ CloseFile

(* Time passes: the message's own time out is over.  It is long: the time  *)
(* is enough for threads that are there and not paused.                    *)
Asked(k) == IF syncs[k].sources = Stream THEN Stream ELSE {target}

Expire ==
  /\ pc \in {"meet", "draining"} /\ ~Met(Len(syncs))
  /\ \E s \in Asked(Len(syncs)) : thread[s] = "none" \/ pc # "meet"
  /\ syncs' = [syncs EXCEPT ![Len(syncs)].expired = TRUE]
  /\ UNCHANGED <<queue, playerVars, mainVars, appVars>>

SNext == (\E s \in Stream : PlayerStep(s)) \/ MainStep \/ AppStep \/ Expire

SSpec == SInit /\ [][SNext]_svars

-----------------------------------------------------------------------------
(* m_iDataSize, a running sum with three places that reset it, is the size *)
(* of the packets in the queue: the demuxer is told when to stop by it.    *)
DataSizeIsExact == \A s \in Stream : SizeIsExact(queue[s])

(* A thread asleep in Get() with its event clear has nothing to get: the   *)
(* event is reset under the lock and waited for without it.                *)
NoMessageIsSleptOver ==
  \A s \in Stream : thread[s] = "wait" /\ ~queue[s].m_hEvent =>
    ~HasMessage(queue[s], Priority(s)) /\ ~queue[s].m_bAbortRequest

(* A packet is given to the decoder once until the decoder is reset, and a *)
(* packet it never had comes in its turn: after all older ones, and after  *)
(* everything sent again to recover, whatever is put back, flushed or sent *)
(* with priority meanwhile.                                                *)
DecodedInOrder ==
  \A s \in Stream : thread[s] = "have" /\ pMsg[s].kind = "packet" =>
    LET n == pMsg[s].n IN
    /\ n \notin codec[s]
    /\ n \notin decoded[s] => /\ \A old \in decoded[s] : old < n
                              /\ \A other \in Packets(queue[s]) : other > n

(* When the wait for empty buffers ends, and not by its time out, no       *)
(* packet is left in the queue or in the stream player's hands but those   *)
(* that the decoder had and gets again.                                    *)
DrainIsComplete ==
  pc = "drained" /\ ~syncs[Len(syncs)].expired =>
    /\ Packets(queue[target]) \subseteq decoded[target]
    /\ pMsg[target].kind = "packet" => pMsg[target].n \in decoded[target]

(* After the rendezvous of a flush nothing of before it is in a queue, in a*)
(* decoder or kept for it, except for what a stream player had in its hands*)
(* or was sending again when its queue was flushed, and put back then: the *)
(* comment in CVideoPlayerVideo::Flush() means that to be gone as well.    *)
(* And a closed stream leaves nothing in its queue, nor lets anything in.  *)
OldPackets(s) == Packets(queue[s]) \cup codec[s] \cup {m_packets[s][i].n : i \in DOMAIN m_packets[s]}
FlushWorked == pc = "flushed" /\ ~syncs[Len(syncs)].expired /\ ~m_bAbortRequest

OnlyPutBackSurvives ==
  \A s \in Stream :
    /\ FlushWorked => OldPackets(s) \subseteq putBack[s]
    /\ ~Open(s) => thread[s] = "none" /\ queue[s].m_messages = <<>> /\ queue[s].m_prioMessages = <<>>

(* No rendezvous waits for someone who will not come: while the player's   *)
(* thread waits, each open stream it asked has arrived, or still has the   *)
(* message, however often it put it back.                                  *)
HasSync(s, k) ==
  \/ pMsg[s] = [kind |-> "sync", n |-> k]
  \/ \E i \in ToSet(queue[s].m_prioMessages) \cup ToSet(queue[s].m_messages) :
       i.msg = [kind |-> "sync", n |-> k]

NobodyIsWaitedForInVain ==
  LET k == Len(syncs) IN
  /\ pc = "meet" => \A s \in Stream : Open(s) => s \in syncs[k].reached \/ HasSync(s, k)
  /\ pc = "draining" => Met(k) \/ HasSync(target, k)
=============================================================================
