------------------------------ MODULE FileCache ------------------------------
(***************************************************************************)
(* CFileCache (xbmc/filesystem/FileCache.cpp): a thread reads a file ahead *)
(* into a CCircularCache for one reader.  A seek that leaves the window of *)
(* the cache is handed to the thread with m_seekEvent and answered with    *)
(* m_seekEnded, both auto-reset events; while the reader waits for the     *)
(* answer it holds m_sync.                                                 *)
(*                                                                         *)
(* Both classes poll with short timed waits (m_space, m_written, and the   *)
(* rate limiter); such a wait is the thread staying where it is.           *)
(* m_nSeekResult is left out: nothing reads it after the answer.           *)
(***************************************************************************)
EXTENDS CircularCache

CONSTANTS
  m_chunkSize,   \* how much is read from the source at once
  Faults,        \* sets of what may go wrong with the source: "stall" (it
                 \* returns no data for now), "read" (it fails to read), "seek"
                 \* (it fails to seek), "unseekable" (it cannot seek at all),
                 \* "timeout" (data takes longer than the reader waits)
  KeepsCalling   \* bound: whether the reader goes on after a failure, when
                 \* nothing is promised but that its calls return

ASSUME FileCacheAssumption ==
  /\ m_chunkSize \in Nat \ {0}
  /\ KeepsCalling \in BOOLEAN
  /\ Faults \subseteq SUBSET {"stall", "read", "seek", "unseekable", "timeout"}

VARIABLES
  m_seekEvent, m_seekEnded,
  m_seekPossible, m_seekPos, m_readPos, m_writePos, m_bStop,
  m_StopEvent,   \* of CThread
  source,        \* the position of m_source
  fpc,           \* where the thread is in Process()
  chunk,         \* its buffer: the position it was read from, its length, and
                 \* how much of it has been written
  cacheMaxPos, cacheReachEOF,   \* locals of Process()
  rpc, target    \* where the reader is, and what it seeks or how much it reads

VARIABLES        \* environment and history
  faults,        \* what may go wrong with this source
  got,           \* the bytes the last Read() returned
  broken         \* the source failed, or a seek was refused

eventVars == <<m_seekEvent, m_seekEnded, m_StopEvent>>
seekVars  == <<m_seekPossible, m_seekPos>>
localVars == <<chunk, cacheMaxPos, cacheReachEOF>>
readVars  == <<rpc, target, got>>
fvars == <<cacheVars, eventVars, seekVars, m_readPos, m_writePos, m_bStop, source,
           fpc, localVars, readVars, faults, broken>>

(* The thread: at the head of its loop, seeking the source, resetting the  *)
(* cache, in the rate limiter, about to read, waiting to retry, at the end *)
(* of the input, letting the cache drain, writing, looking for a seek      *)
(* after a write, between taking m_seekEvent and setting it again (to go   *)
(* on with reading, the loop, or the end of writing), leaving, gone.       *)
FillerStates == {"top", "seek", "reset", "throttle", "read", "stalled", "eof", "drain",
                 "write", "check", "putback_read", "putback_top", "putback_tail",
                 "exit", "done"}
(* The reader: outside, in Read, waiting for data in Read, waiting in the  *)
(* cache's Seek, for the thread's answer, for the rest of the data, in the *)
(* cache's second Seek, in Close before and after m_StopEvent, done.       *)
ReaderStates == {"idle", "read", "wait", "ahead", "answer", "remaining", "again",
                 "stop", "join", "closed"}

NoChunk == [from |-> 0, len |-> 0, written |-> 0]

(* Open(): the source is open at its beginning, and the thread created.    *)
FileCacheInit ==
  /\ CacheInit
  /\ m_seekEvent = FALSE /\ m_seekEnded = FALSE /\ m_StopEvent = FALSE
  /\ faults \in Faults
  /\ m_seekPossible = ("unseekable" \notin faults)
  /\ m_seekPos = 0 /\ m_readPos = 0 /\ m_writePos = 0 /\ m_bStop = FALSE
  /\ source = 0
  /\ fpc = "top" /\ chunk = NoChunk /\ cacheMaxPos = 0 /\ cacheReachEOF = FALSE
  /\ rpc = "idle" /\ target = 0 /\ got = <<>> /\ broken = FALSE

-----------------------------------------------------------------------------
(* The thread                                                              *)

fillerRest == <<m_StopEvent, m_readPos, source, readVars, broken>>

(* The head of the loop, without a seek to do.                             *)
TopOfLoop ==
  /\ fpc = "top"
  /\ \/ m_bStop /\ fpc' = "exit"
     \/ ~m_bStop /\ ~m_seekEvent /\ fpc' = "throttle"
  /\ UNCHANGED <<cacheVars, m_seekEvent, m_seekEnded, seekVars, m_writePos, m_bStop,
                 localVars, fillerRest>>

(* A seek is to be done: m_seekEvent is consumed.                          *)
TakeSeek ==
  /\ fpc = "top" /\ ~m_bStop /\ m_seekEvent
  /\ m_seekEvent' = FALSE
  /\ cacheMaxPos' = CachedDataEndPosIfSeekTo(m_seekPos)
  /\ cacheReachEOF' = (CachedDataEndPosIfSeekTo(m_seekPos) = FileSize)
  /\ fpc' = "seek"
  /\ UNCHANGED <<cacheVars, m_seekEnded, seekVars, m_writePos, m_bStop, chunk, fillerRest>>

(* Plausible bug: the source stays where it is when the position is cached. *)
SeekSource_OnlyIfNotCached ==
  /\ fpc = "seek"
  /\ source' = IF cacheReachEOF \/ IsCachedPosition(m_seekPos) THEN source ELSE cacheMaxPos
  /\ fpc' = "reset"
  /\ UNCHANGED <<cacheVars, eventVars, seekVars, m_readPos, m_writePos, m_bStop,
                 localVars, readVars, broken>>

(* The source is moved to the end of what is cached, unless that is the    *)
(* end of the file.                                                        *)
SeekSource ==
  /\ fpc = "seek"
  /\ source' = IF cacheReachEOF THEN source ELSE cacheMaxPos
  /\ fpc' = "reset"
  /\ UNCHANGED <<cacheVars, eventVars, seekVars, m_readPos, m_writePos, m_bStop,
                 localVars, readVars, broken>>

(* It does not move: the reader gets its answer all the same.              *)
SeekSourceFails ==
  /\ fpc = "seek" /\ ~cacheReachEOF /\ "seek" \in faults
  /\ m_seekPossible' \in BOOLEAN
  /\ m_seekEnded' = TRUE
  /\ fpc' = "throttle"
  /\ broken' = TRUE
  /\ UNCHANGED <<cacheVars, m_seekEvent, m_StopEvent, m_seekPos, m_readPos, m_writePos,
                 m_bStop, source, localVars, readVars>>

(* The cache is reset to the new position, and the reader told.            *)
ResetCache ==
  /\ fpc = "reset"
  /\ Reset(m_seekPos)
  /\ m_readPos' = m_seekPos /\ m_writePos' = m_end'
  /\ m_seekEnded' = TRUE
  /\ fpc' = "throttle" /\ cacheMaxPos' = 0
  /\ UNCHANGED <<m_seekEvent, m_StopEvent, seekVars, m_bStop, source, chunk, cacheReachEOF,
                 readVars, broken>>

(* The rate limiter lets the thread pass, ...                              *)
Throttle ==
  /\ fpc = "throttle"
  /\ fpc' = "read"
  /\ UNCHANGED <<cacheVars, m_seekEvent, m_seekEnded, seekVars, m_writePos, m_bStop,
                 localVars, fillerRest>>

(* ... or a seek ends its wait, as it ends the wait before a retry or the  *)
(* writing of a chunk: the event, which the wait consumed, is put back.    *)
SeekInterrupts(from, to) ==
  /\ fpc = from /\ m_seekEvent
  /\ m_seekEvent' = FALSE
  /\ fpc' = to
  /\ UNCHANGED <<cacheVars, m_seekEnded, seekVars, m_writePos, m_bStop, localVars, fillerRest>>
Interrupted ==
  \/ SeekInterrupts("throttle", "putback_read")
  \/ SeekInterrupts("stalled", "putback_top")
  \/ SeekInterrupts("check", "putback_tail")
  \/ SeekInterrupts("drain", "exit")

(* Plausible bug: the seek is forgotten.                                   *)
PutBack_Forgets(from, to) ==
  /\ fpc = from
  /\ fpc' = to
  /\ UNCHANGED <<cacheVars, m_seekEvent, m_seekEnded, seekVars, m_writePos, m_bStop,
                 localVars, fillerRest>>

(* "if (!m_bStop) m_seekEvent.Set()"                                       *)
PutBack(from, to) ==
  /\ fpc = from
  /\ m_seekEvent' = (m_seekEvent \/ ~m_bStop)
  /\ fpc' = to
  /\ UNCHANGED <<cacheVars, m_seekEnded, seekVars, m_writePos, m_bStop, localVars, fillerRest>>

(* The cache is full: back to the head of the loop.                        *)
CacheFull ==
  /\ fpc = "read" /\ GetMaxWriteSize(m_chunkSize) = 0 /\ ~cacheReachEOF
  /\ fpc' = "top"
  /\ UNCHANGED <<cacheVars, m_seekEvent, m_seekEnded, seekVars, m_writePos, m_bStop,
                 localVars, fillerRest>>

(* The source has data: at most what the cache has room for is read.  (The *)
(* thread alone uses the source, so asking for the room and reading are    *)
(* one step.)                                                              *)
ReadSource(n) ==
  /\ fpc = "read" /\ ~cacheReachEOF
  /\ n <= GetMaxWriteSize(m_chunkSize) /\ source + n <= FileSize
  /\ chunk' = [from |-> source, len |-> n, written |-> 0]
  /\ source' = source + n
  /\ fpc' = "write"
  /\ UNCHANGED <<cacheVars, eventVars, seekVars, m_readPos, m_writePos, m_bStop,
                 cacheMaxPos, cacheReachEOF, readVars, broken>>

(* It has none: wait and try again if this is not the end of the file and  *)
(* the reader has something left to read, else mark the end of the input.  *)
SourceIsEmpty ==
  \/ cacheReachEOF
  \/ GetMaxWriteSize(m_chunkSize) > 0 /\ (source = FileSize \/ "stall" \in faults)
ReadNothing ==
  /\ fpc = "read" /\ SourceIsEmpty
  /\ IF m_writePos < FileSize /\ Front > 0
     THEN fpc' = "stalled" /\ UNCHANGED cacheVars
     ELSE fpc' = "eof" /\ SetEndOfInput(TRUE)
  /\ UNCHANGED <<m_seekEvent, m_seekEnded, seekVars, m_writePos, m_bStop, localVars, fillerRest>>
RetryRead ==
  /\ fpc = "stalled"
  /\ fpc' = "top"
  /\ UNCHANGED <<cacheVars, m_seekEvent, m_seekEnded, seekVars, m_writePos, m_bStop,
                 localVars, fillerRest>>

(* Plausible bug: the mark stays when the reader seeks back.               *)
LeaveEof_KeepsMark ==
  /\ fpc = "eof"
  /\ \/ m_seekEvent /\ m_seekEvent' = FALSE /\ fpc' = "putback_top"
     \/ m_StopEvent /\ fpc' = "exit" /\ UNCHANGED m_seekEvent
  /\ UNCHANGED <<cacheVars, m_seekEnded, seekVars, m_writePos, m_bStop, localVars, fillerRest>>

(* AbortableWait(m_seekEvent) at the end of the input.                     *)
LeaveEof ==
  /\ fpc = "eof"
  /\ \/ /\ m_seekEvent
        /\ m_seekEvent' = FALSE
        /\ SetEndOfInput(FALSE)
        /\ fpc' = "putback_top"
     \/ /\ m_StopEvent
        /\ fpc' = "exit"
        /\ UNCHANGED <<cacheVars, m_seekEvent>>
  /\ UNCHANGED <<m_seekEnded, seekVars, m_writePos, m_bStop, localVars, fillerRest>>

(* A fatal error: the thread only waits for the cache to be read.          *)
ReadFails ==
  /\ fpc = "read" /\ ~cacheReachEOF /\ GetMaxWriteSize(m_chunkSize) > 0 /\ "read" \in faults
  /\ fpc' = "drain"
  /\ broken' = TRUE
  /\ UNCHANGED <<cacheVars, eventVars, seekVars, m_readPos, m_writePos, m_bStop, source,
                 localVars, readVars>>
Drained ==
  /\ fpc = "drain" /\ Front = 0
  /\ fpc' = "exit"
  /\ UNCHANGED <<cacheVars, m_seekEvent, m_seekEnded, seekVars, m_writePos, m_bStop,
                 localVars, fillerRest>>

ChunkLeft == chunk.len - chunk.written

(* Plausible bug: the rest of a chunk is written from its beginning.       *)
WriteChunk_Again ==
  /\ fpc = "write" /\ ~m_bStop /\ ChunkLeft > 0
  /\ LET n == Writable(ChunkLeft)
     IN  IF n = 0 THEN UNCHANGED <<cacheVars, chunk>>
         ELSE /\ WriteToCache(chunk.from, n)
              /\ chunk' = [chunk EXCEPT !.written = @ + n]
  /\ fpc' = "check"
  /\ UNCHANGED <<m_seekEvent, m_seekEnded, seekVars, m_writePos, m_bStop, cacheMaxPos,
                 cacheReachEOF, fillerRest>>

(* One turn of the writing loop; without room nothing is written.          *)
WriteChunk ==
  /\ fpc = "write" /\ ~m_bStop /\ ChunkLeft > 0
  /\ LET n == Writable(ChunkLeft)
     IN  IF n = 0 THEN UNCHANGED <<cacheVars, chunk>>
         ELSE /\ WriteToCache(chunk.from + chunk.written, n)
              /\ chunk' = [chunk EXCEPT !.written = @ + n]
  /\ fpc' = "check"
  /\ UNCHANGED <<m_seekEvent, m_seekEnded, seekVars, m_writePos, m_bStop, cacheMaxPos,
                 cacheReachEOF, fillerRest>>
NoSeekAfterWrite ==
  /\ fpc = "check" /\ ~m_seekEvent
  /\ fpc' = "write"
  /\ UNCHANGED <<cacheVars, m_seekEvent, m_seekEnded, seekVars, m_writePos, m_bStop,
                 localVars, fillerRest>>

(* The loop ends; what is left of the chunk is dropped.                    *)
EndOfWriting ==
  /\ m_writePos' = m_writePos + chunk.written
  /\ chunk' = NoChunk
  /\ fpc' = "top"
(* Plausible bug: the writing loop does not look at m_bStop.               *)
WriteDone_OnlyWhole ==
  /\ fpc = "write" /\ ChunkLeft = 0
  /\ EndOfWriting
  /\ UNCHANGED <<cacheVars, m_seekEvent, m_seekEnded, seekVars, m_bStop, cacheMaxPos,
                 cacheReachEOF, fillerRest>>

WriteDone ==
  /\ fpc = "write" /\ (m_bStop \/ ChunkLeft = 0)
  /\ EndOfWriting
  /\ UNCHANGED <<cacheVars, m_seekEvent, m_seekEnded, seekVars, m_bStop, cacheMaxPos,
                 cacheReachEOF, fillerRest>>
WriteInterrupted ==
  /\ fpc = "putback_tail"
  /\ m_seekEvent' = (m_seekEvent \/ ~m_bStop)
  /\ EndOfWriting
  /\ UNCHANGED <<cacheVars, m_seekEnded, seekVars, m_bStop, cacheMaxPos,
                 cacheReachEOF, fillerRest>>

OnExit ==
  /\ fpc = "exit"
  /\ m_bStop' = TRUE /\ SetEndOfInput(TRUE) /\ m_seekEnded' = TRUE
  /\ fpc' = "done"
  /\ UNCHANGED <<m_seekEvent, seekVars, m_writePos, localVars, fillerRest>>

FillerStep ==
  /\ \/ TopOfLoop \/ TakeSeek \/ SeekSource \/ SeekSourceFails \/ ResetCache
     \/ Throttle \/ Interrupted
     \/ PutBack("putback_read", "read") \/ PutBack("putback_top", "top")
     \/ CacheFull \/ (\E n \in 1 .. m_chunkSize : ReadSource(n)) \/ ReadNothing \/ RetryRead
     \/ LeaveEof \/ ReadFails \/ Drained
     \/ WriteChunk \/ NoSeekAfterWrite \/ WriteDone \/ WriteInterrupted
     \/ OnExit
  /\ UNCHANGED faults

-----------------------------------------------------------------------------
(* The reader                                                              *)

readerRest == <<m_seekPossible, m_writePos, source, fpc, localVars>>
readerGoes == <<m_seekEvent, m_seekEnded, m_StopEvent, m_seekPos, m_bStop, readerRest>>

Read(len) ==
  /\ rpc = "idle"
  /\ rpc' = "read" /\ target' = len
  /\ UNCHANGED <<cacheVars, m_readPos, got, broken, readerGoes>>

Return == rpc' = "idle" /\ target' = 0

(* The cache has data.                                                     *)
ReadData ==
  /\ rpc = "read"
  /\ LET n == Readable(target)
     IN  /\ ReadFromCache(n)
         /\ got' = BytesRead(n)
         /\ m_readPos' = m_readPos + n
  /\ Return
  /\ UNCHANGED <<broken, readerGoes>>

(* It has none, for good or for now (CACHE_RC_WOULD_BLOCK).                *)
ReadNone ==
  /\ rpc = "read" /\ Readable(target) = 0
  /\ \/ m_bEndOfInput /\ Return /\ got' = <<>>
     \/ ~m_bEndOfInput /\ rpc' = "wait" /\ UNCHANGED <<target, got>>
  /\ UNCHANGED <<cacheVars, m_readPos, broken, readerGoes>>

(* WaitForData(1, 10000): try again, or return 0, after a timeout too.     *)
Over(minimum) == Arrived(minimum) \/ "timeout" \in faults
ReadWaited ==
  /\ rpc = "wait" /\ Over(1)
  /\ \/ Front > 0 /\ rpc' = "read" /\ UNCHANGED <<target, got>>
     \/ Front = 0 /\ Return /\ got' = <<>>
  /\ UNCHANGED <<cacheVars, m_readPos, broken, readerGoes>>

Refuse == Return /\ broken' = TRUE

(* The cache cannot seek to the position: the thread is asked to, but      *)
(* never closer than a chunk to the end of the file.                       *)
SeekMissed(pos) ==
  /\ ~IsCachedPosition(pos)
  /\ \/ /\ m_seekPossible
        /\ m_seekPos' = Least(pos, IF m_chunkSize < FileSize THEN FileSize - m_chunkSize ELSE 0)
        /\ m_seekEvent' = TRUE
        /\ rpc' = "answer" /\ target' = pos
        /\ UNCHANGED broken
     \/ ~m_seekPossible /\ Refuse /\ UNCHANGED <<m_seekPos, m_seekEvent>>
  /\ UNCHANGED <<cacheVars, m_readPos>>

SeekHit(pos) ==
  /\ IsCachedPosition(pos)
  /\ SeekTo(pos)
  /\ m_readPos' = pos
  /\ Return
  /\ UNCHANGED <<m_seekEvent, m_seekPos, broken>>

seekRest == <<m_seekEnded, m_StopEvent, m_bStop, readerRest>>

(* Seek(): a little ahead of the window, within it, or elsewhere.          *)
Seek(pos) ==
  /\ rpc = "idle" /\ pos # m_readPos
  /\ got' = <<>>
  /\ \/ /\ IsAhead(pos)
        /\ SeekAhead
        /\ rpc' = "ahead" /\ target' = pos
        /\ UNCHANGED <<m_seekEvent, m_seekPos, m_readPos, broken>>
     \/ ~IsAhead(pos) /\ (SeekHit(pos) \/ SeekMissed(pos))
  /\ UNCHANGED seekRest

(* The cache has waited for the data ahead.                                *)
SeekWaited ==
  /\ rpc = "ahead" /\ Over(target - m_cur)
  /\ SeekHit(target) \/ SeekMissed(target)
  /\ UNCHANGED <<got, seekRest>>

(* m_seekEnded.Wait() returns: wait for the rest if the target is close    *)
(* to the end of the file.                                                 *)
SeekAnswered ==
  /\ rpc = "answer" /\ m_seekEnded
  /\ m_seekEnded' = FALSE
  /\ \/ m_seekPos < target /\ rpc' = "remaining" /\ UNCHANGED <<target, m_readPos, m_seekEvent>>
     \/ m_seekPos = target /\ Return /\ m_readPos' = target /\ m_seekEvent' = FALSE
  /\ UNCHANGED <<cacheVars, got, m_seekPos, broken, m_StopEvent, m_bStop, readerRest>>

(* When the rest is there, the cache is told to seek once more, which      *)
(* waits again if it ends where the target is; otherwise -1.               *)
SeekFinished ==
  /\ IF IsCachedPosition(target) THEN SeekTo(target) ELSE UNCHANGED cacheVars
  /\ m_readPos' = target /\ m_seekEvent' = FALSE
  /\ Return
SeekRemaining ==
  /\ rpc = "remaining" /\ Over(target - m_seekPos)
  /\ \/ /\ Front < target - m_seekPos
        /\ Refuse
        /\ UNCHANGED <<cacheVars, m_readPos, m_seekEvent>>
     \/ /\ Front >= target - m_seekPos /\ ~IsAhead(target)
        /\ SeekFinished
        /\ UNCHANGED broken
     \/ /\ Front >= target - m_seekPos /\ IsAhead(target)
        /\ SeekAhead
        /\ rpc' = "again"
        /\ UNCHANGED <<target, m_readPos, m_seekEvent, broken>>
  /\ UNCHANGED <<got, m_seekPos, seekRest>>
SeekAgain ==
  /\ rpc = "again" /\ Over(target - m_cur)
  /\ SeekFinished
  /\ UNCHANGED <<got, m_seekPos, broken, seekRest>>

(* Close(): StopThread() sets m_bStop, then the events, and joins.         *)
Close ==
  /\ rpc = "idle"
  /\ m_bStop' = TRUE /\ m_seekEvent' = TRUE
  /\ rpc' = "stop"
  /\ UNCHANGED <<cacheVars, m_seekEnded, m_StopEvent, m_seekPos, target, got, m_readPos,
                 broken, readerRest>>
SetStopEvent ==
  /\ rpc = "stop"
  /\ m_StopEvent' = TRUE
  /\ rpc' = "join"
  /\ UNCHANGED <<cacheVars, m_seekEvent, m_seekEnded, m_seekPos, m_bStop, target, got,
                 m_readPos, broken, readerRest>>
Joined ==
  /\ rpc = "join" /\ fpc = "done"
  /\ rpc' = "closed"
  /\ UNCHANGED <<cacheVars, target, got, m_readPos, broken, readerGoes>>

ReaderCalls ==
  /\ \/ (broken => KeepsCalling) /\ \E len \in 1 .. FileSize : Read(len)
     \/ (broken => KeepsCalling) /\ \E pos \in Position : Seek(pos)
     \/ Close
  /\ UNCHANGED faults
ReaderStep ==
  /\ \/ ReadData \/ ReadNone \/ ReadWaited
     \/ SeekWaited \/ SeekAnswered \/ SeekRemaining \/ SeekAgain
     \/ SetStopEvent \/ Joined
  /\ UNCHANGED faults

(* One session: the file stays closed.                                     *)
Closed == rpc = "closed" /\ UNCHANGED fvars

FileCacheNext == FillerStep \/ ReaderCalls \/ ReaderStep \/ Closed

FileCacheSpec == FileCacheInit /\ [][FileCacheNext]_fvars

(* The two threads are scheduled; the reader need not call anything.       *)
FileCacheFairSpec == FileCacheSpec /\ WF_fvars(FillerStep) /\ WF_fvars(ReaderStep)

-----------------------------------------------------------------------------
(* What the reader sees is the file: Read() returns the bytes at           *)
(* GetPosition(), wherever the seeks and the thread have left the ring     *)
(* buffer, it returns none only at the end of the file, and no seek is     *)
(* refused, unless the source misbehaves (FileStream).                     *)
Stream == INSTANCE FileStream WITH pos <- m_readPos, steady <- (faults = {})
ReadsLikeTheFile == Stream!Spec

(* The thread writes only what follows the end of the window, and the      *)
(* cache is moved only within it or emptied.                               *)
Follows == IF broken' THEN TRUE ELSE CacheNext \/ UNCHANGED cacheVars
UsesCacheAsSpecified == [][Follows]_fvars

(* What the thread reads next is what follows the window, whatever it had  *)
(* read and dropped because of a seek, unless the window ends with the     *)
(* file.                                                                   *)
SourceFollowsWindow ==
  fpc = "read" /\ ~m_bStop /\ ~broken => IF cacheReachEOF THEN m_end = FileSize ELSE source = m_end

(* A seek and a read end: the thread answers, whatever it was waiting for, *)
(* as long as the source does not make it give up.                         *)
Calling == rpc \in {"answer", "remaining", "again", "ahead", "wait"}
CallsReturn == Calling /\ "read" \notin faults ~> rpc = "idle"

(* "just in case someone's waiting..." (OnExit): nobody is left waiting    *)
(* for a thread that has gone.                                             *)
SeeksAreAnswered == rpc = "answer" ~> rpc # "answer"

(* Close() gets the thread out of each of its waits, as long as the source *)
(* does not make it give up.                                               *)
CloseReturns == rpc = "stop" /\ "read" \notin faults ~> rpc = "closed"
=============================================================================
