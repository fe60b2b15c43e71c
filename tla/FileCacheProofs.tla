--------------------------- MODULE FileCacheProofs ---------------------------
(***************************************************************************)
(* The ring buffer of CCircularCache keeps the window of the file, and     *)
(* CFileCache, which fills it from a thread of its own, reads like the     *)
(* file: for every size of file, buffer, back buffer and chunk, and        *)
(* whatever the source does until it fails.                                *)
(***************************************************************************)
EXTENDS FileCache, TLAPS

-----------------------------------------------------------------------------
(* Positions and slots                                                     *)

(* Division with a remainder.                                              *)
LEMMA Division ==
  ASSUME NEW m \in Nat \ {0}, NEW a \in Nat
  PROVE  a = m * (a \div m) + (a % m) /\ a % m \in 0 .. m - 1 /\ a \div m \in Nat
BY Z3

(* No multiple of m lies strictly between 0 and m.                         *)
LEMMA NoMultipleBetween ==
  ASSUME NEW m \in Nat \ {0}, NEW q \in Int, 0 < m * q, m * q < m
  PROVE  FALSE
<1>1. CASE q <= 0 BY <1>1, Z3
<1>2. CASE q >= 1 BY <1>2, Z3
<1> QED BY <1>1, <1>2

(* Multiples of m differ by a multiple of m.                               *)
LEMMA Distributes ==
  ASSUME NEW m \in Nat \ {0}, NEW x \in Int, NEW y \in Int
  PROVE  m * x - m * y = m * (x - y)
BY Z3

(* Positions less than the size of the buffer apart have different slots.  *)
LEMMA SlotsDiffer ==
  ASSUME CacheAssumption, NEW a \in Nat, NEW k \in Nat, 0 < k, k < m_size
  PROVE  Slot(a + k) # Slot(a)
<1> SUFFICES ASSUME (a + k) % m_size = a % m_size
             PROVE  FALSE
  BY DEF Slot
<1> USE DEF CacheAssumption
<1>1. PICK q \in Nat : a = m_size * q + (a % m_size)
  BY Division
<1>2. a + k \in Nat
  OBVIOUS
<1>3. PICK r \in Nat : a + k = m_size * r + ((a + k) % m_size)
  BY <1>2, Division
<1>4. a % m_size \in Int /\ (a + k) % m_size \in Int /\ m_size * q \in Int /\ m_size * r \in Int
  BY <1>2, Division, Z3
<1>5. k = m_size * r - m_size * q
  BY <1>1, <1>3, <1>4
<1>6. k = m_size * (r - q)
  BY <1>5, Distributes
<1> QED BY <1>6, NoMultipleBetween

(* Up to where the buffer wraps around, slots follow the positions.        *)
LEMMA SlotsFollow ==
  ASSUME CacheAssumption, NEW a \in Nat, NEW k \in Nat, Slot(a) + k < m_size
  PROVE  Slot(a + k) = Slot(a) + k
<1> USE DEF CacheAssumption
<1>1. PICK u \in 0 .. m_size - 1 : u = Slot(a)
  BY Division DEF Slot
<1>2. a + k \in Nat
  OBVIOUS
<1>3. PICK v \in 0 .. m_size - 1 : v = Slot(a + k)
  BY <1>2, Division DEF Slot
<1>4. PICK q \in Nat : a = m_size * q + u
  BY <1>1, Division DEF Slot
<1>5. PICK r \in Nat : a + k = m_size * r + v
  BY <1>2, <1>3, Division DEF Slot
<1>6. m_size * q \in Int /\ m_size * r \in Int
  BY Z3
<1>7. m_size * (r - q) = (u + k) - v
  BY <1>4, <1>5, <1>6, Distributes
<1>8. CASE u + k > v
  BY <1>1, <1>3, <1>7, <1>8, NoMultipleBetween
<1>9. CASE u + k < v
  <2>1. m_size * (q - r) = v - (u + k)
    BY <1>7, <1>9, Distributes, Z3
  <2> QED BY <2>1, <1>9, NoMultipleBetween
<1> QED BY <1>1, <1>3, <1>8, <1>9

(* Every position has a slot of the buffer.                                *)
LEMMA SlotInBuffer ==
  ASSUME CacheAssumption, NEW a \in Nat
  PROVE  Slot(a) \in 0 .. m_size - 1
BY Division DEF Slot, CacheAssumption

-----------------------------------------------------------------------------
(* The inductive invariant: the positions are in order, and the window has *)
(* its bytes.                                                              *)
CacheInv == CacheTypeOK /\ PositionsInOrder /\ WindowHoldsFile

(* What a write puts in ends before the buffer does, and takes the place of *)
(* nothing that the reader has still to read or may go back to.            *)
LEMMA WriteFits ==
  ASSUME CacheAssumption, CacheInv, NEW len \in Position, Writable(len) > 0
  PROVE  /\ Writable(len) \in Nat
         /\ Slot(m_end) + Writable(len) <= m_size
         /\ Writable(len) <= m_size - (m_end - m_cur)
         /\ m_cur - m_beg <= m_size_back \/ Writable(len) <= m_size - m_size_back - (m_end - m_cur)
         /\ m_cur - m_beg > m_size_back \/ Writable(len) <= m_size - (m_end - m_beg)
<1>1. /\ m_beg \in Nat /\ m_end \in Nat /\ m_cur \in Nat
      /\ m_beg <= m_cur /\ m_cur <= m_end /\ m_end - m_beg <= m_size
      /\ m_size \in Nat \ {0} /\ m_size_back \in 0 .. m_size /\ len \in Nat
  BY DEF CacheAssumption, CacheInv, CacheTypeOK, PositionsInOrder, Position
<1>2. PICK s \in 0 .. m_size - 1 : s = Slot(m_end)
  BY <1>1, SlotInBuffer
<1>3. PICK l \in Int : /\ l = Limit
                      /\ l = m_size - (m_end - m_cur) - (IF m_cur - m_beg < m_size_back
                                                         THEN m_cur - m_beg ELSE m_size_back)
  BY <1>1 DEF Limit, Least, Front, Back
<1>4. PICK n \in Int : n = Writable(len) /\ n <= l /\ n <= m_size - s
  BY <1>1, <1>2, <1>3 DEF Writable, Least
<1> QED BY <1>1, <1>2, <1>3, <1>4

(* A write puts the new bytes where no byte of the new window is.          *)
LEMMA WriteKeepsWindow ==
  ASSUME CacheAssumption, CacheInv,
         NEW len \in Position, m_end + Writable(len) \in Position,
         WriteToCache(m_end, Writable(len))
  PROVE  CacheInv'
<1> DEFINE N == Writable(len)
<1>1. /\ N \in Nat /\ N > 0
      /\ Slot(m_end) + N <= m_size
      /\ N <= m_size - (m_end - m_cur)
  BY WriteFits DEF WriteToCache
<1>2. PICK n \in Nat : n = N
  BY <1>1
<1> HIDE DEF N
<1> USE DEF Position
<1>3. /\ n > 0 /\ Slot(m_end) + n <= m_size /\ n <= m_size - (m_end - m_cur)
      /\ m_end + n \in Position
  BY <1>1, <1>2 DEF N
<1>4. /\ m_buf' = [i \in 0 .. m_size - 1 |->
                     IF i \in Slot(m_end) .. Slot(m_end) + n - 1
                     THEN m_end + (i - Slot(m_end)) ELSE m_buf[i]]
      /\ m_end' = m_end + n
      /\ m_beg' = IF m_end + n - m_beg > m_size THEN m_end + n - m_size ELSE m_beg
      /\ m_cur' = m_cur /\ m_bEndOfInput' = m_bEndOfInput
  BY <1>2 DEF WriteToCache, N
<1>5. /\ m_beg \in Nat /\ m_end \in Nat /\ m_cur \in Nat
      /\ m_beg <= m_cur /\ m_cur <= m_end /\ m_end - m_beg <= m_size
      /\ m_size \in Nat \ {0} /\ FileSize \in Nat
  BY DEF CacheInv, CacheTypeOK, PositionsInOrder, CacheAssumption
<1>6. PositionsInOrder'
  BY <1>3, <1>4, <1>5 DEF PositionsInOrder
<1>7. PICK s \in 0 .. m_size - 1 : s = Slot(m_end)
  BY <1>5, SlotInBuffer
<1>8. CacheTypeOK'
  <2>1. m_buf' \in [0 .. m_size - 1 -> Position \cup {Nowhere}]
    <3> SUFFICES ASSUME NEW i \in 0 .. m_size - 1
                 PROVE  (IF i \in s .. s + n - 1 THEN m_end + (i - s) ELSE m_buf[i])
                          \in Position \cup {Nowhere}
      BY <1>4, <1>7
    <3>1. CASE i \in s .. s + n - 1
      BY <3>1, <1>3, <1>5, <1>7
    <3>2. CASE i \notin s .. s + n - 1
      BY <3>2 DEF CacheInv, CacheTypeOK
    <3> QED BY <3>1, <3>2
  <2> QED BY <2>1, <1>3, <1>4, <1>5, <1>6 DEF CacheInv, CacheTypeOK, PositionsInOrder
<1>9. WindowHoldsFile'
  <2> SUFFICES ASSUME NEW p \in m_beg' .. m_end' - 1
               PROVE  m_buf'[Slot(p)] = p
    BY DEF WindowHoldsFile, Slot
  <2>1. p \in Nat /\ p < m_end + n /\ p >= m_end + n - m_size /\ p >= m_beg
    BY <1>3, <1>4, <1>5
  <2>2. PICK t \in 0 .. m_size - 1 : t = Slot(p)
    BY <2>1, SlotInBuffer
  <2>3. CASE p >= m_end
    <3>1. PICK k \in Nat : p = m_end + k
      BY <2>1, <2>3, <1>5
    <3>2. t = s + k
      BY <3>1, <2>1, <2>2, <1>3, <1>5, <1>7, SlotsFollow
    <3> QED BY <3>1, <3>2, <2>1, <2>2, <1>4, <1>5, <1>7
  <2>4. CASE p < m_end
    <3>1. t \notin s .. s + n - 1
      <4> SUFFICES ASSUME t \in s .. s + n - 1
                   PROVE  FALSE
        OBVIOUS
      <4>0. t - s \in 0 .. n - 1 /\ t = s + (t - s)
        BY <1>2
      <4>1. PICK k \in 0 .. n - 1 : t = s + k
        BY <4>0
      <4>2. Slot(m_end + k) = t
        <5>1. k \in Nat /\ Slot(m_end) + k < m_size
          BY <4>1, <1>3, <1>5, <1>7
        <5> QED BY <5>1, <4>1, <1>5, <1>7, SlotsFollow
      <4>3. PICK d \in Nat : m_end + k = p + d /\ 0 < d /\ d < m_size
        BY <4>1, <2>1, <2>4, <1>5
      <4> QED BY <4>2, <4>3, <2>1, <2>2, SlotsDiffer
    <3>2. p \in m_beg .. m_end - 1
      BY <2>1, <2>4, <1>5
    <3>3. m_buf[t] = p
      BY <3>2, <2>2 DEF CacheInv, WindowHoldsFile
    <3> QED BY <3>1, <3>3, <2>2, <1>4, <1>7
  <2> QED BY <2>3, <2>4, <2>1, <1>5
<1> QED BY <1>6, <1>8, <1>9 DEF CacheInv

(* Every other operation moves positions within the window, or empties it. *)
LEMMA CacheStep ==
  ASSUME CacheAssumption, CacheInv, [CacheNext]_cacheVars
  PROVE  CacheInv'
<1> USE DEF CacheInv, CacheTypeOK, PositionsInOrder, WindowHoldsFile, CacheAssumption, Position
<1>1. ASSUME NEW len \in Position, m_end + Writable(len) \in Position,
             WriteToCache(m_end, Writable(len))
      PROVE  CacheInv'
  BY <1>1, WriteKeepsWindow
<1>2. ASSUME NEW len \in Position, ReadFromCache(Readable(len))
      PROVE  CacheInv'
  <2>1. PICK t \in 0 .. m_size - 1 : t = Slot(m_cur)
    BY SlotInBuffer
  <2>2. Readable(len) \in Nat /\ m_cur + Readable(len) <= m_end
    BY <2>1 DEF Readable, Least, Front
  <2> QED BY <1>2, <2>2 DEF ReadFromCache, Slot
<1>3. CASE SeekAhead
  BY <1>3 DEF SeekAhead, Slot
<1>4. ASSUME NEW pos \in Position, IsCachedPosition(pos), SeekTo(pos)
      PROVE  CacheInv'
  BY <1>4 DEF IsCachedPosition, SeekTo, Slot
<1>5. ASSUME NEW pos \in Position, Reset(pos)
      PROVE  CacheInv'
  BY <1>5 DEF Reset, IsCachedPosition, Slot
<1>6. ASSUME NEW b \in BOOLEAN, SetEndOfInput(b)
      PROVE  CacheInv'
  BY <1>6 DEF SetEndOfInput, Slot
<1>7. CASE UNCHANGED cacheVars
  BY <1>7 DEF cacheVars, Slot
<1> QED BY <1>1, <1>2, <1>3, <1>4, <1>5, <1>6, <1>7 DEF CacheNext

(* An empty ring buffer keeps the window.                                  *)
LEMMA CacheStart ==
  ASSUME CacheAssumption, CacheInit
  PROVE  CacheInv
<1>1. m_buf \in [0 .. m_size - 1 -> Position \cup {Nowhere}]
  BY DEF CacheInit
<1>2. CacheTypeOK
  <2>1. 0 \in Position
    BY DEF CacheAssumption, Position
  <2>2. m_beg = 0 /\ m_end = 0 /\ m_cur = 0 /\ m_bEndOfInput \in BOOLEAN
    BY DEF CacheInit
  <2> QED BY <1>1, <2>1, <2>2, Zenon DEF CacheTypeOK
<1> USE DEF CacheAssumption, CacheInit, Position
<1>3. PositionsInOrder
  BY DEF PositionsInOrder
<1>4. WindowHoldsFile
  BY DEF WindowHoldsFile
<1> QED BY <1>2, <1>3, <1>4 DEF CacheInv

-----------------------------------------------------------------------------
(* The window holds its bytes of the file, in every state of the cache.    *)
THEOREM WindowIsTheFile == CacheSpec => []CacheInv
<1>1. CacheInit => CacheInv
  BY CacheAssumption, CacheStart
<1>2. CacheInv /\ [CacheNext]_cacheVars => CacheInv'
  BY CacheAssumption, CacheStep
<1> QED BY <1>1, <1>2, PTL DEF CacheSpec

(* The inequalities that CircularCache.cpp says always apply, do.          *)
THEOREM PositionsStayInOrder == CacheSpec => []PositionsInOrder
<1>1. CacheInv => PositionsInOrder
  BY DEF CacheInv
<1> QED BY <1>1, WindowIsTheFile, PTL

(* What a read returns is the part of the file from the reading position   *)
(* on.                                                                     *)
THEOREM ReadsTheFile ==
  ASSUME CacheInv, NEW len \in Position, NEW k \in 1 .. Readable(len)
  PROVE  BytesRead(Readable(len))[k] = m_cur + k - 1
<1> USE CacheAssumption DEF CacheAssumption, CacheInv, CacheTypeOK, PositionsInOrder, Position
<1>1. PICK s \in 0 .. m_size - 1 : s = Slot(m_cur)
  BY SlotInBuffer
<1>2. PICK n \in Nat : n = Readable(len) /\ n <= m_size - s /\ m_cur + n <= m_end
  BY <1>1 DEF Readable, Least, Front
<1>3. k \in 1 .. n
  BY <1>2
<1>4. PICK j \in Nat : k = j + 1
  BY <1>3
<1>5. Slot(m_cur + j) = s + j
  BY <1>1, <1>2, <1>3, <1>4, SlotsFollow
<1>6. m_cur + j \in m_beg .. m_end - 1
  BY <1>2, <1>3, <1>4
<1>7. m_buf[s + j] = m_cur + j
  BY <1>5, <1>6 DEF WindowHoldsFile
<1>8. BytesRead(n)[k] = m_buf[s + k - 1]
  BY <1>1, <1>3 DEF BytesRead
<1> QED BY <1>2, <1>4, <1>7, <1>8

(* A write drops history only beyond the part kept for seeking back.       *)
THEOREM BackBufferIsKept == CacheSpec => KeepsBackBuffer
<1> DEFINE Keeps == m_end' > m_end /\ m_beg' # m_beg /\ m_cur' = m_cur => m_cur - m_beg' >= m_size_back
<1>1. ASSUME CacheInv, [CacheNext]_cacheVars
      PROVE  Keeps
  <2> USE CacheAssumption DEF CacheAssumption, CacheInv, CacheTypeOK, PositionsInOrder, Position
  <2>1. ASSUME NEW len \in Position, WriteToCache(m_end, Writable(len))
        PROVE  Keeps
    <3>1. Writable(len) > 0
      BY <2>1 DEF WriteToCache
    <3>2. PICK n \in Nat :
            /\ n = Writable(len)
            /\ m_cur - m_beg <= m_size_back \/ n <= m_size - m_size_back - (m_end - m_cur)
            /\ m_cur - m_beg > m_size_back \/ n <= m_size - (m_end - m_beg)
      BY <1>1, <3>1, WriteFits
    <3>3. m_beg' = IF m_end + n - m_beg > m_size THEN m_end + n - m_size ELSE m_beg
      BY <2>1, <3>2 DEF WriteToCache
    <3>4. /\ m_beg \in Nat /\ m_end \in Nat /\ m_cur \in Nat
          /\ m_size \in Nat /\ m_size_back \in Nat
      BY <1>1
    <3> QED BY <3>2, <3>3, <3>4
  <2>2. ASSUME NEW len \in Position, ReadFromCache(Readable(len))
        PROVE  Keeps
    BY <1>1, <2>2 DEF ReadFromCache
  <2>3. CASE SeekAhead
    BY <2>3 DEF SeekAhead
  <2>4. ASSUME NEW pos \in Position, SeekTo(pos)
        PROVE  Keeps
    BY <2>4 DEF SeekTo
  <2>5. ASSUME NEW pos \in Position, Reset(pos)
        PROVE  Keeps
    BY <1>1, <2>5 DEF Reset, IsCachedPosition
  <2>6. ASSUME NEW b \in BOOLEAN, SetEndOfInput(b)
        PROVE  Keeps
    BY <2>6 DEF SetEndOfInput
  <2>7. CASE UNCHANGED cacheVars
    BY <2>7 DEF cacheVars
  <2> QED BY <1>1, <2>1, <2>2, <2>3, <2>4, <2>5, <2>6, <2>7 DEF CacheNext
<1> QED BY <1>1, WindowIsTheFile, PTL DEF CacheSpec, KeepsBackBuffer


-----------------------------------------------------------------------------
(* The inductive invariant.  After a failure nothing is promised.          *)

(* The types of what the two threads share and keep.                       *)
FTypes ==
  /\ m_seekEvent \in BOOLEAN /\ m_seekEnded \in BOOLEAN /\ m_StopEvent \in BOOLEAN
  /\ m_bStop \in BOOLEAN /\ m_seekPossible \in BOOLEAN /\ cacheReachEOF \in BOOLEAN
  /\ source \in Position /\ m_seekPos \in Position /\ m_readPos \in Position
  /\ cacheMaxPos \in Position /\ target \in Position
  /\ chunk \in [from : Nat, len : Nat, written : Nat]
  /\ fpc \in FillerStates /\ rpc \in ReaderStates

(* The thread goes when it is told to.                                     *)
Stopping ==
  /\ m_StopEvent => m_bStop
  /\ m_bStop <=> rpc \in {"stop", "join", "closed"}
  /\ fpc \in {"exit", "done"} => m_bStop
  /\ fpc \in {"seek", "reset"} => ~m_bStop
  /\ fpc # "drain"

(* A seek that the reader waits for is in one place: with the event, with  *)
(* the thread, or answered.                                                *)
Taken == {"seek", "reset", "putback_read", "putback_top", "putback_tail"}
SeekIsOnce ==
  ~m_bStop =>
    /\ rpc = "answer" <=> m_seekEvent \/ fpc \in Taken \/ m_seekEnded
    /\ ~(m_seekEvent /\ fpc \in Taken)
    /\ ~(m_seekEvent /\ m_seekEnded)
    /\ ~(fpc \in Taken /\ m_seekEnded)

(* What is read from the source next follows the window, unless the window *)
(* ends with the file.                                                     *)
Continues == IF cacheReachEOF THEN m_end = FileSize ELSE source = m_end

(* Where the source is, for each place of the thread: a chunk in its hands *)
(* lies between the window and the source, and one that it dropped leaves  *)
(* a seek to be done first.                                                *)
SourceIsAt ==
  ~m_bStop =>
    /\ fpc = "top" => m_seekEvent \/ Continues
    /\ fpc \in {"throttle", "read", "stalled", "eof", "putback_read"} => Continues
    /\ fpc \in {"write", "check"} =>
         /\ ~cacheReachEOF
         /\ source = chunk.from + chunk.len
         /\ m_end = chunk.from + chunk.written
         /\ chunk.written <= chunk.len
    /\ fpc \in {"seek", "reset"} =>
         /\ cacheMaxPos = CachedDataEndPosIfSeekTo(m_seekPos)
         /\ cacheReachEOF <=> cacheMaxPos = FileSize
    /\ fpc = "reset" => cacheReachEOF \/ source = cacheMaxPos

(* The end of the input is marked while the thread waits there.            *)
MarkIsRight ==
  /\ m_bEndOfInput /\ ~m_bStop => fpc = "eof"
  /\ faults = {} =>
       /\ m_seekPossible
       /\ fpc = "eof" /\ ~m_bStop => m_end = FileSize

(* Where the reader is, and what it asked for.                             *)
Waiting == {"ahead", "answer", "remaining", "again"}
ReaderIsAt ==
  /\ rpc \in {"idle", "read", "wait"} => m_readPos = m_cur
  /\ rpc \in {"read", "wait"} => target > 0
  /\ rpc \in Waiting => got = <<>>
  /\ rpc \in {"answer", "remaining", "again"} =>
       m_seekPos <= target /\ target - m_seekPos <= m_chunkSize
  /\ rpc = "answer" /\ m_seekEnded => m_cur = m_seekPos
  /\ rpc = "remaining" => m_cur = m_seekPos
  /\ rpc = "again" => m_cur = target

FParts == FTypes /\ CacheInv /\ Stopping /\ SeekIsOnce /\ SourceIsAt /\ MarkIsRight /\ ReaderIsAt
FInv == broken \in BOOLEAN /\ (~broken => FParts)

(* All but the ring buffer, whose steps are known from above.               *)
FRest == FTypes /\ Stopping /\ SeekIsOnce /\ SourceIsAt /\ MarkIsRight /\ ReaderIsAt

(* The positions are integers, in their order.                             *)
LEMMA Positions ==
  ASSUME FParts
  PROVE  /\ FileSize \in Nat /\ m_size \in Nat \ {0} /\ m_size_back \in Nat
         /\ m_chunkSize \in Nat \ {0} /\ SEEK_AHEAD \in Nat
         /\ m_beg \in Position /\ m_end \in Position /\ m_cur \in Position
         /\ m_beg <= m_cur /\ m_cur <= m_end /\ m_bEndOfInput \in BOOLEAN
BY CacheAssumption, FileCacheAssumption
   DEF CacheAssumption, FileCacheAssumption, FParts, CacheInv, CacheTypeOK, PositionsInOrder

-----------------------------------------------------------------------------
(* The thread                                                              *)

(* The steps that leave the cache alone.                                   *)
Waits ==
  \/ TopOfLoop \/ Throttle \/ Interrupted
  \/ PutBack("putback_read", "read") \/ PutBack("putback_top", "top")
  \/ CacheFull \/ RetryRead \/ Drained \/ NoSeekAfterWrite

(* A seek that one of them takes is set again before anything is read.     *)
LEMMA WaitsKeep ==
  ASSUME FParts, Waits, UNCHANGED faults, ~broken'
  PROVE  FRest' /\ UNCHANGED cacheVars
<1> USE Positions DEF Waits, FParts, eventVars, fillerRest, seekVars, localVars, readVars, cacheVars,
                      TopOfLoop, Throttle, Interrupted, SeekInterrupts, PutBack, CacheFull,
                      RetryRead, Drained, NoSeekAfterWrite, Stopping
<1>1. FTypes'
  BY DEF FTypes, FillerStates
<1>2. Stopping'
  OBVIOUS
<1>3. SeekIsOnce'
  BY DEF SeekIsOnce, Taken
<1>4. SourceIsAt'
  <2>1. UNCHANGED <<m_bStop, m_end, source, chunk, cacheMaxPos, cacheReachEOF>>
    OBVIOUS
  <2>2. fpc' \notin {"write", "check", "seek", "reset"} \/ (fpc = "check" /\ fpc' = "write")
    OBVIOUS
  <2>3. ~m_bStop /\ fpc' \in {"throttle", "read", "stalled", "eof", "putback_read"} => Continues
    BY DEF SourceIsAt
  <2>4. ~m_bStop /\ fpc' = "top" => m_seekEvent' \/ Continues
    BY DEF SourceIsAt
  <2> QED BY ONLY SourceIsAt, <2>1, <2>2, <2>3, <2>4 DEF SourceIsAt, Continues
<1>5. MarkIsRight'
  BY DEF MarkIsRight
<1>6. ReaderIsAt'
  BY DEF ReaderIsAt, Waiting
<1>7. UNCHANGED cacheVars
  OBVIOUS
<1> QED BY <1>1, <1>2, <1>3, <1>4, <1>5, <1>6, <1>7 DEF FRest

(* A seek is taken: where the window will end is where the source goes.    *)
LEMMA TakeSeekKeeps ==
  ASSUME FParts, TakeSeek, UNCHANGED faults, ~broken'
  PROVE  FRest' /\ UNCHANGED cacheVars
<1> USE Positions DEF FParts, TakeSeek, fillerRest, eventVars, seekVars, localVars, readVars,
                      cacheVars, Stopping
<1>1. FTypes'
  BY DEF FTypes, FillerStates, CachedDataEndPosIfSeekTo
<1>2. Stopping'
  OBVIOUS
<1>3. SeekIsOnce'
  BY DEF SeekIsOnce, Taken
<1>4. SourceIsAt'
  BY DEF SourceIsAt, Continues, CachedDataEndPosIfSeekTo, IsCachedPosition
<1>5. MarkIsRight'
  BY DEF MarkIsRight
<1>6. ReaderIsAt'
  BY DEF ReaderIsAt, Waiting
<1> QED BY <1>1, <1>2, <1>3, <1>4, <1>5, <1>6 DEF FRest

(* The source goes there.                                                  *)
LEMMA SeekSourceKeeps ==
  ASSUME FParts, SeekSource, UNCHANGED faults, ~broken'
  PROVE  FRest' /\ UNCHANGED cacheVars
<1> USE Positions DEF FParts, SeekSource, fillerRest, eventVars, seekVars, localVars, readVars,
                      cacheVars, Stopping
<1>1. FTypes'
  BY DEF FTypes, FillerStates
<1>2. Stopping'
  OBVIOUS
<1>3. SeekIsOnce'
  BY DEF SeekIsOnce, Taken
<1>4. SourceIsAt'
  <2>1. /\ ~m_bStop /\ fpc = "seek"
        /\ UNCHANGED <<cacheMaxPos, cacheReachEOF>>
        /\ fpc' = "reset"
        /\ source' = IF cacheReachEOF THEN source ELSE cacheMaxPos
    OBVIOUS
  <2>2. UNCHANGED CachedDataEndPosIfSeekTo(m_seekPos)
    BY DEF CachedDataEndPosIfSeekTo, IsCachedPosition
  <2> QED BY ONLY SourceIsAt, <2>1, <2>2 DEF SourceIsAt
<1>5. MarkIsRight'
  BY DEF MarkIsRight
<1>6. ReaderIsAt'
  BY DEF ReaderIsAt, Waiting
<1> QED BY <1>1, <1>2, <1>3, <1>4, <1>5, <1>6 DEF FRest

(* A chunk begins where the window ends.                                   *)
LEMMA ReadSourceKeeps ==
  ASSUME FParts, NEW n \in 1 .. m_chunkSize, ReadSource(n), UNCHANGED faults, ~broken'
  PROVE  FRest' /\ UNCHANGED cacheVars
<1> USE Positions DEF FParts, ReadSource, fillerRest, eventVars, seekVars, localVars, readVars,
                      cacheVars, Stopping
<1>0. /\ source \in Nat /\ source' \in Position
      /\ chunk'.from = source /\ chunk'.len = n /\ chunk'.written = 0
      /\ chunk' \in [from : Nat, len : Nat, written : Nat]
      /\ source' = source + n /\ fpc = "read" /\ fpc' = "write"
  BY DEF FTypes, Position
<1>1. FTypes'
  BY <1>0 DEF FTypes, FillerStates
<1>2. Stopping'
  OBVIOUS
<1>3. SeekIsOnce'
  BY DEF SeekIsOnce, Taken
<1>4. SourceIsAt'
  BY <1>0 DEF SourceIsAt, Continues, Position
<1>5. MarkIsRight'
  BY DEF MarkIsRight
<1>6. ReaderIsAt'
  BY DEF ReaderIsAt, Waiting
<1> QED BY <1>1, <1>2, <1>3, <1>4, <1>5, <1>6 DEF FRest

(* A chunk is written, or dropped with a seek to be done.                  *)
LEMMA WriteDoneKeeps ==
  ASSUME FParts, WriteDone \/ WriteInterrupted, UNCHANGED faults, ~broken'
  PROVE  FRest' /\ UNCHANGED cacheVars
<1> USE Positions DEF FParts, WriteDone, WriteInterrupted, EndOfWriting, NoChunk, ChunkLeft,
                      fillerRest, eventVars, seekVars, localVars, readVars,
                      cacheVars, Stopping
<1>0. chunk \in [from : Nat, len : Nat, written : Nat] /\ source \in Nat /\ m_end \in Nat
  BY DEF FTypes, Position
<1>1. FTypes'
  <2>1. chunk' \in [from : Nat, len : Nat, written : Nat]
    OBVIOUS
  <2> QED BY <2>1 DEF FTypes, FillerStates
<1>2. Stopping'
  OBVIOUS
<1>3. SeekIsOnce'
  BY DEF SeekIsOnce, Taken
<1>4. SourceIsAt'
  <2>1. CASE WriteDone
    <3>1. fpc = "write" /\ fpc' = "top" /\ UNCHANGED <<m_bStop, m_end, source, cacheReachEOF>>
      BY <2>1
    <3>2. ~m_bStop => chunk.len = chunk.written
      BY <2>1, <1>0
    <3>3. ~m_bStop => Continues
      BY <3>1, <3>2, <1>0 DEF SourceIsAt, Continues
    <3> QED BY ONLY <3>1, <3>3 DEF SourceIsAt, Continues
  <2>2. CASE WriteInterrupted
    <3>1. fpc' = "top" /\ (~m_bStop' => m_seekEvent')
      BY <2>2
    <3> QED BY ONLY <3>1 DEF SourceIsAt
  <2> QED BY <2>1, <2>2
<1>5. MarkIsRight'
  BY DEF MarkIsRight
<1>6. ReaderIsAt'
  BY DEF ReaderIsAt, Waiting
<1> QED BY <1>1, <1>2, <1>3, <1>4, <1>5, <1>6 DEF FRest

(* The cache is reset to where the reader, who waits, wants to be.         *)
LEMMA ResetCacheKeeps ==
  ASSUME FParts, ResetCache, UNCHANGED faults, ~broken'
  PROVE  FRest' /\ CacheNext
<1> USE Positions DEF FParts, ResetCache, eventVars, seekVars, readVars, Stopping
<1>1. FTypes'
  <2>1. m_end' \in Position /\ 0 \in Position
    BY DEF FTypes, Reset, Position
  <2> QED BY <2>1 DEF FTypes, FillerStates
<1>2. Stopping'
  OBVIOUS
<1>3. SeekIsOnce'
  BY DEF SeekIsOnce, Taken
<1>4. SourceIsAt'
  <2>1. m_end' = CachedDataEndPosIfSeekTo(m_seekPos)
    BY DEF Reset, CachedDataEndPosIfSeekTo, IsCachedPosition
  <2>2. /\ ~m_bStop /\ fpc = "reset" /\ fpc' = "throttle"
        /\ UNCHANGED <<source, cacheReachEOF>>
    OBVIOUS
  <2> QED BY ONLY SourceIsAt, <2>1, <2>2 DEF SourceIsAt, Continues
<1>5. MarkIsRight'
  BY DEF MarkIsRight, Reset
<1>6. ReaderIsAt'
  <2>1. m_cur' = m_seekPos /\ rpc = "answer" /\ m_seekPos' = m_seekPos
    BY DEF Reset, SeekIsOnce, Taken
  <2> QED BY <2>1 DEF ReaderIsAt, Waiting
<1>7. CacheNext
  BY DEF FTypes, CacheNext
<1> QED BY <1>1, <1>2, <1>3, <1>4, <1>5, <1>6, <1>7 DEF FRest

(* The end of the input is marked where the window ends with the file, and *)
(* the mark taken away when the thread goes on.                            *)
Marks == ReadNothing \/ LeaveEof \/ OnExit

(* The three steps that mark the end of the input keep the invariant.      *)
LEMMA MarksKeep ==
  ASSUME FParts, Marks, UNCHANGED faults, ~broken'
  PROVE  FRest' /\ (CacheNext \/ UNCHANGED cacheVars)
<1> USE Positions DEF FParts, Marks, ReadNothing, LeaveEof, OnExit, SetEndOfInput, cacheVars,
                      fillerRest, eventVars, seekVars, localVars, readVars, Stopping
<1>1. FTypes'
  BY DEF FTypes, FillerStates
<1>2. Stopping'
  OBVIOUS
<1>3. SeekIsOnce'
  BY DEF SeekIsOnce, Taken
<1>4. SourceIsAt'
  <2>1. UNCHANGED <<m_end, source, cacheReachEOF>>
    OBVIOUS
  <2>2. \/ fpc = "read" /\ fpc' \in {"stalled", "eof"} /\ m_bStop' = m_bStop
        \/ fpc' \in {"putback_top", "exit", "done"}
    OBVIOUS
  <2> QED BY ONLY SourceIsAt, <2>1, <2>2 DEF SourceIsAt, Continues
<1>5. MarkIsRight'
  BY DEF MarkIsRight, SourceIsEmpty, SourceIsAt, Continues
<1>6. ReaderIsAt'
  BY DEF ReaderIsAt, Waiting
<1>7. CacheNext \/ UNCHANGED cacheVars
  <2>1. ASSUME NEW b \in BOOLEAN, SetEndOfInput(b) PROVE CacheNext
    BY ONLY <2>1 DEF CacheNext
  <2> QED BY <2>1
<1> QED BY <1>1, <1>2, <1>3, <1>4, <1>5, <1>6, <1>7 DEF FRest

(* What is written is what follows the window.                             *)
LEMMA WriteChunkKeeps ==
  ASSUME FParts, WriteChunk, UNCHANGED faults, ~broken'
  PROVE  FRest' /\ (CacheNext \/ UNCHANGED cacheVars)
<1> USE Positions DEF FParts, fillerRest, seekVars, readVars, Stopping
<1>1. /\ fpc = "write" /\ fpc' = "check" /\ ~m_bStop
      /\ UNCHANGED <<m_seekEvent, m_seekEnded, m_seekPossible, m_seekPos, m_writePos, m_bStop,
                     cacheMaxPos, cacheReachEOF, m_StopEvent, m_readPos, source, rpc, target, got>>
  BY DEF WriteChunk
<1>2. PICK n \in Int : n = Writable(ChunkLeft)
  <2>1. Slot(m_end) \in Int
    BY CacheAssumption, SlotInBuffer DEF Position
  <2> QED BY <2>1 DEF FTypes, Writable, Limit, Least, Front, Back, ChunkLeft, Position
<1>3. /\ chunk \in [from : Nat, len : Nat, written : Nat]
      /\ source \in 0 .. FileSize /\ m_end \in Nat
      /\ ~cacheReachEOF
      /\ source = chunk.from + chunk.len
      /\ m_end = chunk.from + chunk.written
      /\ chunk.written <= chunk.len
  BY <1>1 DEF FTypes, SourceIsAt, Position
<1>4. ChunkLeft \in Position /\ n <= ChunkLeft
  <2>1. ChunkLeft \in Position
    BY <1>3 DEF ChunkLeft, Position
  <2>2. Slot(m_end) \in Int /\ Limit \in Int
    BY CacheAssumption, SlotInBuffer DEF Position, Limit, Least, Front, Back
  <2> QED BY <1>2, <2>1, <2>2 DEF Writable, Least, Position
<1>5. CASE n = 0
  <2>1. UNCHANGED cacheVars /\ UNCHANGED chunk
    BY <1>2, <1>5 DEF WriteChunk
  <2> USE <1>1, <2>1 DEF cacheVars
  <2>2. FTypes'
    BY DEF FTypes, FillerStates
  <2>3. SeekIsOnce'
    BY DEF SeekIsOnce, Taken
  <2>4. SourceIsAt'
    BY <1>3 DEF SourceIsAt
  <2>5. MarkIsRight'
    BY DEF MarkIsRight
  <2>6. ReaderIsAt'
    BY DEF ReaderIsAt, Waiting
  <2> QED BY <2>2, <2>3, <2>4, <2>5, <2>6 DEF FRest
<1>6. CASE n # 0
  <2>1. /\ WriteToCache(m_end, n)
        /\ chunk' = [chunk EXCEPT !.written = @ + n]
    BY <1>2, <1>3, <1>6 DEF WriteChunk
  <2>2. /\ n > 0 /\ m_end' = m_end + n
        /\ UNCHANGED <<m_cur, m_bEndOfInput>>
    BY <2>1 DEF WriteToCache
  <2>3. /\ chunk'.from = chunk.from /\ chunk'.len = chunk.len
        /\ chunk'.written = chunk.written + n
        /\ chunk' \in [from : Nat, len : Nat, written : Nat]
    BY <2>1, <2>2, <1>3
  <2>4. m_end + n \in Position
    BY <1>3, <1>4, <2>2 DEF ChunkLeft, Position
  <2>5. CacheNext
    BY <1>2, <1>4, <2>1, <2>4 DEF CacheNext
  <2>6. FTypes'
    BY <1>1, <2>3 DEF FTypes, FillerStates
  <2>7. SeekIsOnce'
    BY <1>1 DEF SeekIsOnce, Taken
  <2>8. SourceIsAt'
    BY <1>1, <1>3, <1>4, <2>2, <2>3 DEF SourceIsAt, ChunkLeft
  <2>9. MarkIsRight'
    BY <1>1, <2>2 DEF MarkIsRight
  <2>10. ReaderIsAt'
    BY <1>1, <2>2 DEF ReaderIsAt, Waiting
  <2>11. Stopping'
    BY <1>1
  <2> QED BY <2>5, <2>6, <2>7, <2>8, <2>9, <2>10, <2>11 DEF FRest
<1> QED BY <1>5, <1>6

(* Every step of the thread.                                               *)
LEMMA FillerKeeps ==
  ASSUME FParts, FillerStep, ~broken'
  PROVE  FRest' /\ (CacheNext \/ UNCHANGED cacheVars)
<1>1. UNCHANGED faults
  BY DEF FillerStep
<1>2. ~SeekSourceFails /\ ~ReadFails
  BY DEF SeekSourceFails, ReadFails
<1>3. \/ Waits \/ Marks \/ TakeSeek \/ SeekSource \/ ResetCache \/ WriteChunk
      \/ (\E n \in 1 .. m_chunkSize : ReadSource(n)) \/ WriteDone \/ WriteInterrupted
  BY <1>2 DEF FillerStep, Waits, Marks
<1> QED BY <1>1, <1>3, WaitsKeep, MarksKeep, TakeSeekKeeps, SeekSourceKeeps, ResetCacheKeeps,
           WriteChunkKeeps, ReadSourceKeeps, WriteDoneKeeps

-----------------------------------------------------------------------------
(* The reader                                                              *)

(* The reader moves neither the window nor the source, and takes no seek   *)
(* from the thread.                                                        *)
LEMMA ReaderLeavesSource ==
  ASSUME FParts, UNCHANGED readerRest, UNCHANGED <<m_beg, m_end, m_bEndOfInput, faults>>,
         m_bStop => m_bStop', m_bStop' \in BOOLEAN, m_bStop \in BOOLEAN,
         ~m_bStop' => /\ m_seekEvent => m_seekEvent'
                      /\ m_seekPos' = m_seekPos \/ fpc \notin {"seek", "reset"}
  PROVE  SourceIsAt' /\ MarkIsRight'
<1> USE DEF FParts, readerRest, localVars
<1>1. UNCHANGED Continues
  BY DEF Continues
<1>2. m_seekPos' = m_seekPos
        => CachedDataEndPosIfSeekTo(m_seekPos)' = CachedDataEndPosIfSeekTo(m_seekPos)
  BY DEF CachedDataEndPosIfSeekTo, IsCachedPosition
<1>3. SourceIsAt'
  BY <1>1, <1>2 DEF SourceIsAt
<1>4. MarkIsRight'
  BY DEF MarkIsRight
<1> QED BY <1>3, <1>4

(* A seek is pending only while the reader waits for the answer.           *)
LEMMA NoSeekPending ==
  ASSUME FParts, ~m_bStop, rpc # "answer"
  PROVE  ~m_seekEvent /\ ~m_seekEnded /\ fpc \notin Taken
BY DEF FParts, FTypes, SeekIsOnce

(* Reading, and waiting for something to read.                             *)
Reads ==
  \/ \E len \in 1 .. FileSize : Read(len)
  \/ ReadData \/ ReadNone \/ ReadWaited

(* A read takes what the window holds from m_cur on.                       *)
LEMMA ReadsKeep ==
  ASSUME FParts, Reads, UNCHANGED faults, ~broken'
  PROVE  FRest' /\ (CacheNext \/ UNCHANGED cacheVars)
<1> USE Positions DEF FParts
<1>1. /\ UNCHANGED readerGoes
      /\ UNCHANGED <<m_beg, m_end, m_bEndOfInput>>
      /\ rpc \in {"idle", "read", "wait"} /\ rpc' \in {"idle", "read", "wait"}
  BY DEF Reads, Read, ReadData, ReadNone, ReadWaited, ReadFromCache, Return, cacheVars
<1>2. PICK n \in Nat : n = Readable(target) /\ m_cur + n <= m_end
  <2>1. Slot(m_cur) \in 0 .. m_size - 1
    BY CacheAssumption, SlotInBuffer DEF Position
  <2> QED BY <2>1 DEF FTypes, Readable, Least, Front, Position
<1>3. /\ target' \in Position
      /\ rpc' \in {"read", "wait"} => target' > 0
      /\ m_readPos' \in Position
      /\ m_readPos' = m_cur'
  <2>1. CASE \E len \in 1 .. FileSize : Read(len)
    BY <2>1 DEF Read, FTypes, ReaderIsAt, cacheVars, Position
  <2>2. CASE ReadData
    <3>1. m_cur' = m_cur + n /\ m_readPos' = m_readPos + n /\ rpc' = "idle" /\ target' = 0
      BY <1>2, <2>2 DEF ReadData, ReadFromCache, Return
    <3>2. m_readPos = m_cur
      BY <2>2 DEF ReadData, ReaderIsAt
    <3> QED BY <1>2, <3>1, <3>2 DEF Position
  <2>3. CASE ReadNone \/ ReadWaited
    BY <2>3 DEF ReadNone, ReadWaited, Return, FTypes, ReaderIsAt, cacheVars, Position
  <2> QED BY <2>1, <2>2, <2>3 DEF Reads
<1>4. FTypes'
  BY <1>1, <1>3 DEF FTypes, readerGoes, readerRest, localVars, ReaderStates
<1>5. Stopping' /\ SeekIsOnce'
  BY <1>1 DEF Stopping, SeekIsOnce, readerGoes, readerRest
<1>6. SourceIsAt' /\ MarkIsRight'
  BY <1>1, ReaderLeavesSource DEF readerGoes, FTypes
<1>7. ReaderIsAt'
  BY <1>1, <1>3 DEF ReaderIsAt, Waiting
<1>8. CacheNext \/ UNCHANGED cacheVars
  BY DEF Reads, Read, ReadData, ReadNone, ReadWaited, FTypes, CacheNext
<1> QED BY <1>4, <1>5, <1>6, <1>7, <1>8 DEF FRest

(* Outside the cache, and without the thread: the position is found there, *)
(* or the thread is asked.                                                 *)
LEMMA SeekAsks ==
  ASSUME FParts, NEW pos \in Position, SeekHit(pos) \/ SeekMissed(pos),
         ~m_bStop, rpc # "answer", got' = <<>>,
         UNCHANGED seekRest, UNCHANGED faults, ~broken'
  PROVE  FRest' /\ (CacheNext \/ UNCHANGED cacheVars)
<1> USE Positions DEF FParts, seekRest, readerRest, localVars
<1>1. UNCHANGED <<m_beg, m_end, m_bEndOfInput>>
  BY DEF SeekHit, SeekTo, SeekMissed, cacheVars
<1>2. ~m_seekEvent /\ ~m_seekEnded /\ fpc \notin Taken
  BY NoSeekPending
<1>3. CASE SeekHit(pos)
  <2>1. /\ m_cur' = pos /\ m_readPos' = pos /\ rpc' = "idle" /\ target' = 0
        /\ UNCHANGED <<m_seekEvent, m_seekPos>>
    BY <1>3 DEF SeekHit, SeekTo, Return
  <2>2. FTypes'
    BY <2>1 DEF FTypes, ReaderStates, Position
  <2>3. Stopping' /\ SeekIsOnce'
    BY <1>2, <2>1 DEF Stopping, SeekIsOnce
  <2>4. SourceIsAt' /\ MarkIsRight'
    BY <1>1, <2>1, ReaderLeavesSource DEF FTypes
  <2>5. ReaderIsAt'
    BY <2>1 DEF ReaderIsAt, Waiting
  <2>6. CacheNext
    BY <1>3 DEF SeekHit, CacheNext
  <2> QED BY <2>2, <2>3, <2>4, <2>5, <2>6 DEF FRest
<1>4. CASE SeekMissed(pos)
  <2>1. /\ m_seekPos' = Least(pos, IF m_chunkSize < FileSize THEN FileSize - m_chunkSize ELSE 0)
        /\ m_seekEvent' = TRUE /\ rpc' = "answer" /\ target' = pos
        /\ UNCHANGED cacheVars /\ UNCHANGED m_readPos
    BY <1>4 DEF SeekMissed, Refuse
  <2>2. /\ m_seekPos' \in Position /\ m_seekPos' <= pos /\ pos - m_seekPos' <= m_chunkSize
    BY <2>1 DEF Least, Position
  <2>3. FTypes'
    BY <2>1, <2>2 DEF FTypes, ReaderStates
  <2>4. Stopping' /\ SeekIsOnce'
    BY <1>2, <2>1 DEF Stopping, SeekIsOnce
  <2>5. SourceIsAt' /\ MarkIsRight'
    BY <1>1, <1>2, <2>1, ReaderLeavesSource DEF FTypes, Taken
  <2>6. ReaderIsAt'
    BY <1>2, <2>1, <2>2 DEF ReaderIsAt, Waiting
  <2> QED BY <2>1, <2>3, <2>4, <2>5, <2>6 DEF FRest
<1> QED BY <1>3, <1>4

(* Seek(), up to where it asks the thread.                                 *)
LEMMA SeekKeeps ==
  ASSUME FParts, (\E pos \in Position : Seek(pos)) \/ SeekWaited, UNCHANGED faults, ~broken'
  PROVE  FRest' /\ (CacheNext \/ UNCHANGED cacheVars)
<1>1. ~m_bStop /\ rpc # "answer"
  BY DEF FParts, Stopping, Seek, SeekWaited
<1>2. CASE SeekWaited
  <2>1. target \in Position /\ got' = <<>> /\ UNCHANGED seekRest
    BY <1>2 DEF FParts, FTypes, ReaderIsAt, Waiting, SeekWaited
  <2> QED BY <1>1, <1>2, <2>1, SeekAsks DEF SeekWaited
<1>3. ASSUME NEW pos \in Position, Seek(pos), ~IsAhead(pos)
      PROVE  FRest' /\ (CacheNext \/ UNCHANGED cacheVars)
  BY <1>1, <1>3, SeekAsks DEF Seek
<1>4. ASSUME NEW pos \in Position, Seek(pos), IsAhead(pos)
      PROVE  FRest' /\ (CacheNext \/ UNCHANGED cacheVars)
  <2> USE Positions DEF FParts, seekRest, readerRest, localVars
  <2>1. /\ SeekAhead /\ rpc = "idle" /\ rpc' = "ahead" /\ target' = pos /\ got' = <<>>
        /\ UNCHANGED <<m_seekEvent, m_seekPos, m_readPos>> /\ UNCHANGED seekRest
    BY <1>4 DEF Seek
  <2>2. UNCHANGED <<m_beg, m_end, m_bEndOfInput>>
    BY <2>1 DEF SeekAhead
  <2>3. FTypes'
    BY <2>1 DEF FTypes, ReaderStates
  <2>4. Stopping' /\ SeekIsOnce'
    BY <2>1 DEF Stopping, SeekIsOnce
  <2>5. SourceIsAt' /\ MarkIsRight'
    BY <2>1, <2>2, ReaderLeavesSource DEF FTypes
  <2>6. ReaderIsAt'
    BY <2>1 DEF ReaderIsAt, Waiting
  <2> QED BY <2>1, <2>3, <2>4, <2>5, <2>6 DEF FRest, CacheNext
<1> QED BY <1>2, <1>3, <1>4

(* After the thread's answer the cache is where the seek was to; whoever   *)
(* waits for more finds the target in the window.                          *)
LEMMA TargetIsCached ==
  ASSUME FParts, rpc = "again" \/ (rpc = "remaining" /\ Front >= target - m_seekPos)
  PROVE  IsCachedPosition(target)
BY Positions DEF FParts, FTypes, ReaderIsAt, IsCachedPosition, Front, Position

(* The cache is told to seek there, which it can.                          *)
LEMMA SeekEnds ==
  ASSUME FParts, SeekFinished, ~m_bStop, IsCachedPosition(target), rpc # "answer",
         UNCHANGED <<got, m_seekPos, seekRest, faults>>, ~broken'
  PROVE  FRest' /\ CacheNext
<1> USE Positions DEF FParts, seekRest, readerRest, localVars
<1>1. /\ SeekTo(target) /\ m_cur' = target /\ m_readPos' = target /\ rpc' = "idle"
      /\ target' = 0 /\ m_seekEvent' = FALSE
      /\ UNCHANGED <<m_beg, m_end, m_bEndOfInput>>
  BY DEF SeekFinished, SeekTo, Return
<1>2. ~m_seekEvent /\ ~m_seekEnded /\ fpc \notin Taken
  BY NoSeekPending
<1>3. FTypes'
  <2>1. 0 \in Position /\ UNCHANGED <<m_seekPos, m_seekEnded, m_StopEvent, m_bStop>>
        /\ UNCHANGED readerRest
    BY DEF Position
  <2> QED BY <1>1, <2>1 DEF FTypes, ReaderStates
<1>4. Stopping' /\ SeekIsOnce'
  BY <1>1, <1>2 DEF Stopping, SeekIsOnce
<1>5. SourceIsAt' /\ MarkIsRight'
  BY <1>1, <1>2, ReaderLeavesSource DEF FTypes
<1>6. ReaderIsAt'
  BY <1>1 DEF ReaderIsAt, Waiting
<1>7. CacheNext
  BY <1>1 DEF CacheNext, FTypes
<1> QED BY <1>3, <1>4, <1>5, <1>6, <1>7 DEF FRest

(* Seek(), from the answer on.                                             *)
LEMMA AnswerKeeps ==
  ASSUME FParts, SeekAnswered \/ SeekRemaining \/ SeekAgain, UNCHANGED faults, ~broken'
  PROVE  FRest' /\ (CacheNext \/ UNCHANGED cacheVars)
<1>1. ~m_bStop
  BY DEF FParts, Stopping, SeekAnswered, SeekRemaining, SeekAgain
<1>2. CASE SeekAnswered
  <2> USE Positions DEF FParts, readerRest, localVars
  <2>1. /\ rpc = "answer" /\ m_seekEnded /\ m_seekEnded' = FALSE /\ UNCHANGED cacheVars
        /\ UNCHANGED <<got, m_seekPos, m_bStop, m_StopEvent>> /\ UNCHANGED readerRest
    BY <1>2 DEF SeekAnswered
  <2>2. ~m_seekEvent /\ fpc \notin Taken
    BY <1>1, <2>1 DEF SeekIsOnce, FTypes
  <2>3. \/ rpc' = "remaining" /\ UNCHANGED <<target, m_readPos, m_seekEvent>>
        \/ /\ rpc' = "idle" /\ target' = 0 /\ m_readPos' = target /\ m_seekEvent' = FALSE
           /\ m_seekPos = target
    BY <1>2 DEF SeekAnswered, Return
  <2>4. FTypes'
    <3>1. 0 \in Position
      BY DEF Position
    <3> QED BY <2>1, <2>3, <3>1 DEF FTypes, ReaderStates
  <2>5. Stopping' /\ SeekIsOnce'
    BY <2>1, <2>2, <2>3 DEF Stopping, SeekIsOnce
  <2>6. SourceIsAt' /\ MarkIsRight'
    BY <2>1, <2>2, ReaderLeavesSource DEF FTypes, cacheVars
  <2>7. ReaderIsAt'
    BY <2>1, <2>3 DEF ReaderIsAt, Waiting, cacheVars
  <2> QED BY <2>1, <2>4, <2>5, <2>6, <2>7 DEF FRest
<1>3. CASE SeekRemaining /\ ~IsAhead(target)
  <2>1. /\ SeekFinished /\ rpc = "remaining" /\ Front >= target - m_seekPos
        /\ UNCHANGED <<got, m_seekPos, seekRest>>
    BY <1>3 DEF SeekRemaining, Refuse
  <2> QED BY <1>1, <2>1, TargetIsCached, SeekEnds
<1>4. CASE SeekRemaining /\ IsAhead(target)
  <2> USE Positions DEF FParts, seekRest, readerRest, localVars
  <2>1. /\ SeekAhead /\ rpc = "remaining" /\ rpc' = "again" /\ Front >= target - m_seekPos
        /\ UNCHANGED <<target, m_readPos, m_seekEvent, got, m_seekPos>> /\ UNCHANGED seekRest
    BY <1>4 DEF SeekRemaining, Refuse
  <2>2. UNCHANGED <<m_beg, m_end, m_bEndOfInput>> /\ m_cur' = m_end
    BY <2>1 DEF SeekAhead
  <2>3. m_end = target
    BY <1>4, <2>1, TargetIsCached DEF IsAhead, IsCachedPosition, FTypes, Position
  <2>4. FTypes'
    BY <2>1 DEF FTypes, ReaderStates
  <2>5. Stopping' /\ SeekIsOnce'
    BY <2>1 DEF Stopping, SeekIsOnce
  <2>6. SourceIsAt' /\ MarkIsRight'
    BY <2>1, <2>2, ReaderLeavesSource DEF FTypes
  <2>7. ReaderIsAt'
    BY <2>1, <2>2, <2>3 DEF ReaderIsAt, Waiting
  <2> QED BY <2>1, <2>4, <2>5, <2>6, <2>7 DEF FRest, CacheNext
<1>5. CASE SeekAgain
  <2>1. SeekFinished /\ rpc = "again" /\ UNCHANGED <<got, m_seekPos, seekRest>>
    BY <1>5 DEF SeekAgain
  <2> QED BY <1>1, <2>1, TargetIsCached, SeekEnds
<1> QED BY <1>2, <1>3, <1>4, <1>5

(* Closing the file.                                                       *)
LEMMA CloseKeeps ==
  ASSUME FParts, Close \/ SetStopEvent \/ Joined, UNCHANGED faults, ~broken'
  PROVE  FRest' /\ UNCHANGED cacheVars
<1> USE Positions DEF FParts, Close, SetStopEvent, Joined, cacheVars, readerGoes, readerRest,
                      localVars
<1>0. rpc = "idle" => fpc \notin Taken
  BY NoSeekPending DEF Stopping, FTypes
<1>1. FTypes'
  BY DEF FTypes, ReaderStates
<1>2. Stopping' /\ SeekIsOnce'
  BY <1>0 DEF Stopping, SeekIsOnce, FTypes, Taken
<1>3. SourceIsAt' /\ MarkIsRight'
  <2>1. UNCHANGED readerRest /\ UNCHANGED <<m_beg, m_end, m_bEndOfInput, faults>>
        /\ m_bStop' \in BOOLEAN /\ m_bStop' = TRUE
    BY DEF FTypes, Stopping
  <2> QED BY <2>1, ReaderLeavesSource DEF FTypes
<1>4. ReaderIsAt'
  BY DEF ReaderIsAt, Waiting
<1> QED BY <1>1, <1>2, <1>3, <1>4 DEF FRest

-----------------------------------------------------------------------------
(* Every step                                                              *)

(* What failed stays so, and the source is what it is.                     *)
LEMMA BrokenStays ==
  ASSUME broken \in BOOLEAN, [FileCacheNext]_fvars
  PROVE  broken' \in BOOLEAN /\ (broken => broken') /\ UNCHANGED faults
<1>1. CASE FillerStep
  BY <1>1 DEF FillerStep, fillerRest, readVars, TopOfLoop, TakeSeek, SeekSource, SeekSourceFails,
     ResetCache, Throttle, Interrupted, SeekInterrupts, PutBack, CacheFull, ReadSource, ReadNothing,
     RetryRead, LeaveEof, ReadFails, Drained, WriteChunk, NoSeekAfterWrite, WriteDone,
     WriteInterrupted, OnExit
<1>2. CASE ReaderCalls
  BY <1>2 DEF ReaderCalls, Read, Seek, SeekMissed, SeekHit, Refuse, Close
<1>3. CASE ReaderStep
  BY <1>3 DEF ReaderStep, ReadData, ReadNone, ReadWaited, SeekWaited, SeekMissed, SeekHit, Refuse,
     SeekAnswered, SeekRemaining, SeekAgain, SetStopEvent, Joined
<1>4. CASE Closed \/ UNCHANGED fvars
  BY <1>4 DEF Closed, fvars
<1> QED BY <1>1, <1>2, <1>3, <1>4 DEF FileCacheNext

(* Every step keeps what is promised, and uses the cache as CacheSpec says.*)
LEMMA FStep ==
  ASSUME FParts, [FileCacheNext]_fvars, ~broken'
  PROVE  FRest' /\ (CacheNext \/ UNCHANGED cacheVars)
<1>1. CASE FillerStep
  BY <1>1, FillerKeeps
<1>2. CASE ReaderCalls
  <2>1. UNCHANGED faults
    BY <1>2 DEF ReaderCalls
  <2>2. Reads \/ (\E pos \in Position : Seek(pos)) \/ Close
    BY <1>2 DEF ReaderCalls, Reads
  <2> QED BY <2>1, <2>2, ReadsKeep, SeekKeeps, CloseKeeps
<1>3. CASE ReaderStep
  <2>1. UNCHANGED faults
    BY <1>3 DEF ReaderStep
  <2>2. \/ Reads \/ SeekWaited \/ SeekAnswered \/ SeekRemaining \/ SeekAgain
        \/ SetStopEvent \/ Joined
    BY <1>3 DEF ReaderStep, Reads
  <2> QED BY <2>1, <2>2, ReadsKeep, SeekKeeps, AnswerKeeps, CloseKeeps
<1>4. CASE Closed \/ UNCHANGED fvars
  <2>1. UNCHANGED fvars
    BY <1>4 DEF Closed
  <2> USE <2>1 DEF fvars, cacheVars, eventVars, seekVars, localVars, readVars, FParts
  <2>2. FTypes' /\ Stopping' /\ SeekIsOnce'
    BY DEF FTypes, Stopping, SeekIsOnce
  <2>3. SourceIsAt' /\ MarkIsRight'
    BY DEF SourceIsAt, Continues, CachedDataEndPosIfSeekTo, IsCachedPosition, MarkIsRight
  <2>4. ReaderIsAt'
    BY DEF ReaderIsAt
  <2> QED BY <2>2, <2>3, <2>4 DEF FRest
<1> QED BY <1>1, <1>2, <1>3, <1>4 DEF FileCacheNext

(* The invariant is kept, by the cache too.                                *)
LEMMA FKept ==
  ASSUME FInv, [FileCacheNext]_fvars
  PROVE  FInv'
<1>1. broken' \in BOOLEAN /\ (broken => broken')
  BY BrokenStays DEF FInv
<1>2. CASE ~broken'
  <2>1. FParts
    BY <1>1, <1>2 DEF FInv
  <2>2. FRest' /\ CacheInv'
    BY <1>2, <2>1, FStep, CacheStep, CacheAssumption DEF FParts
  <2> QED BY <1>1, <2>2 DEF FInv, FParts, FRest
<1> QED BY <1>1, <1>2 DEF FInv

(* It holds when the file has been opened.                                 *)
LEMMA FStart ==
  ASSUME FileCacheInit
  PROVE  FInv
<1> USE DEF FileCacheInit
<1>1. CacheInv
  BY CacheAssumption, CacheStart
<1>2. FTypes
  <2>1. 0 \in Position
    BY CacheAssumption DEF CacheAssumption, Position
  <2>2. chunk \in [from : Nat, len : Nat, written : Nat]
    BY DEF NoChunk
  <2> QED BY <2>1, <2>2 DEF FTypes, FillerStates, ReaderStates
<1>3. Stopping /\ SeekIsOnce /\ MarkIsRight
  BY DEF Stopping, SeekIsOnce, Taken, MarkIsRight, CacheInit
<1>4. SourceIsAt
  BY DEF SourceIsAt, Continues, CacheInit
<1>5. ReaderIsAt
  BY DEF ReaderIsAt, Waiting, CacheInit
<1> QED BY <1>1, <1>2, <1>3, <1>4, <1>5 DEF FInv, FParts

-----------------------------------------------------------------------------
(* What holds of the two threads, for every size                           *)

(* The invariant holds in every reachable state.                           *)
THEOREM FInvariance == FileCacheSpec => []FInv
<1>1. FileCacheInit => FInv
  BY FStart
<1>2. FInv /\ [FileCacheNext]_fvars => FInv'
  BY FKept
<1> QED BY <1>1, <1>2, PTL DEF FileCacheSpec

(* The thread goes on where the window ends, whatever chunk it dropped for *)
(* a seek, and wherever that seek found it.                                *)
THEOREM SourceIsFollowed == FileCacheSpec => []SourceFollowsWindow
<1>1. FInv => SourceFollowsWindow
  BY DEF FInv, FParts, SourceIsAt, Continues, SourceFollowsWindow
<1> QED BY <1>1, FInvariance, PTL

(* The safety half of a seek being answered: until something fails, the    *)
(* seek that Seek() waits for is with the event, with the thread or        *)
(* answered, and in one place only, although four waits of the thread take *)
(* the event and set it again; and no answer is left from an earlier seek. *)
THEOREM SeekIsNeitherLostNorDoubled == FileCacheSpec => [](~broken => SeekIsOnce)
<1>1. FInv => (~broken => SeekIsOnce)
  BY DEF FInv, FParts
<1> QED BY <1>1, FInvariance, PTL

(* The two threads use the cache as CacheSpec says, so that what is proved *)
(* of the ring buffer holds in CFileCache.                                 *)
THEOREM CacheIsUsedAsSpecified == FileCacheSpec => UsesCacheAsSpecified
<1>1. FInv /\ [FileCacheNext]_fvars => [Follows]_fvars
  <2> SUFFICES ASSUME FInv, [FileCacheNext]_fvars, ~broken'
               PROVE  CacheNext \/ UNCHANGED cacheVars
    BY DEF Follows
  <2>1. FParts
    BY BrokenStays DEF FInv
  <2> QED BY <2>1, FStep
<1> QED BY <1>1, FInvariance, PTL DEF FileCacheSpec, UsesCacheAsSpecified

-----------------------------------------------------------------------------
(* What the reader sees                                                    *)

(* The part of the buffer before the reader has room for a chunk.  Open()  *)
(* gives it three quarters of the cache, which is more than a chunk unless *)
(* the cache is as small as a small file.                                  *)
FrontHoldsChunk == m_chunkSize <= m_size - m_size_back

(* A source without faults has its end marked only at the end of the file. *)
LEMMA MarkedAtEnd ==
  ASSUME FParts, faults = {}, m_bEndOfInput, ~m_bStop
  PROVE  m_end = FileSize
BY DEF FParts, MarkIsRight

(* It fails the reader in no way.                                          *)
LEMMA FailsOnlyUnsteady ==
  ASSUME FrontHoldsChunk, FParts, [FileCacheNext]_fvars, ~broken, broken'
  PROVE  faults # {}
<1> SUFFICES ASSUME faults = {}
             PROVE  FALSE
  OBVIOUS
<1>1. CASE FillerStep
  <2>1. SeekSourceFails \/ ReadFails
    BY <1>1 DEF FillerStep, fillerRest, readVars, TopOfLoop, TakeSeek, SeekSource, ResetCache,
       Throttle, Interrupted, SeekInterrupts, PutBack, CacheFull, ReadSource, ReadNothing,
       RetryRead, LeaveEof, Drained, WriteChunk, NoSeekAfterWrite, WriteDone, WriteInterrupted, OnExit
  <2> QED BY <2>1 DEF SeekSourceFails, ReadFails
<1>2. ASSUME NEW pos \in Position, SeekMissed(pos)
      PROVE  FALSE
  BY <1>2 DEF SeekMissed, FParts, MarkIsRight
<1>3. CASE ReaderCalls
  BY <1>2, <1>3 DEF ReaderCalls, Read, Seek, SeekHit, Close
<1>4. CASE ReaderStep
  <2>1. CASE SeekRemaining
    <3>1. /\ rpc = "remaining" /\ Arrived(target - m_seekPos)
          /\ Front < target - m_seekPos
      BY <2>1 DEF SeekRemaining, Over
    <3>2. /\ target \in Position /\ m_seekPos \in Position /\ m_cur = m_seekPos
          /\ target - m_seekPos <= m_chunkSize /\ ~m_bStop
      BY <3>1 DEF FParts, FTypes, ReaderIsAt, Stopping
    <3>3. CASE m_bEndOfInput
      BY <3>1, <3>2, <3>3, MarkedAtEnd, Positions DEF Front, Position
    <3>4. CASE Front >= Least(target - m_seekPos, m_size - m_size_back)
      BY <3>1, <3>2, <3>4, Positions DEF Front, Position, Least, FrontHoldsChunk
    <3> QED BY <3>1, <3>3, <3>4 DEF Arrived
  <2>2. CASE SeekWaited
    <3>1. target \in Position
      BY DEF FParts, FTypes
    <3> QED BY <1>2, <2>2, <3>1 DEF SeekWaited, SeekHit
  <2> QED BY <1>4, <2>1, <2>2 DEF ReaderStep, ReadData, ReadNone, ReadWaited, SeekAnswered,
             SeekAgain, SetStopEvent, Joined
<1>5. CASE Closed \/ UNCHANGED fvars
  BY <1>5 DEF Closed, fvars
<1> QED BY <1>1, <1>3, <1>4, <1>5 DEF FileCacheNext

(* The thread moves the position only when it answers a seek.              *)
LEMMA FillerShows ==
  ASSUME FParts, FillerStep, ~broken, ~broken'
  PROVE  Stream!Next \/ UNCHANGED Stream!streamVars
<1>1. UNCHANGED faults /\ UNCHANGED got /\ broken' = broken
  BY DEF FillerStep, fillerRest, readVars, TopOfLoop, TakeSeek, SeekSource, SeekSourceFails,
     ResetCache, Throttle, Interrupted, SeekInterrupts, PutBack, CacheFull, ReadSource, ReadNothing,
     RetryRead, LeaveEof, ReadFails, Drained, WriteChunk, NoSeekAfterWrite, WriteDone,
     WriteInterrupted, OnExit
<1>2. CASE ResetCache
  <2>1. rpc = "answer"
    BY <1>2 DEF FParts, Stopping, SeekIsOnce, Taken, ResetCache
  <2>2. got = <<>> /\ m_seekPos \in 0 .. FileSize /\ m_readPos' = m_seekPos
    BY <1>2, <2>1 DEF FParts, FTypes, ReaderIsAt, Waiting, Position, ResetCache
  <2>3. Stream!Seek(m_seekPos)
    BY <1>1, <2>2 DEF Stream!Seek
  <2> QED BY <2>2, <2>3 DEF Stream!Next
<1>3. CASE ~ResetCache
  <2>1. UNCHANGED m_readPos
    BY <1>3 DEF FillerStep, fillerRest, readVars, TopOfLoop, TakeSeek, SeekSource, SeekSourceFails,
       Throttle, Interrupted, SeekInterrupts, PutBack, CacheFull, ReadSource, ReadNothing,
       RetryRead, LeaveEof, ReadFails, Drained, WriteChunk, NoSeekAfterWrite, WriteDone,
       WriteInterrupted, OnExit
  <2> QED BY <1>1, <2>1 DEF Stream!streamVars
<1> QED BY <1>2, <1>3

(* Read returns the file, and nothing only at its end.                     *)
LEMMA ReadShows ==
  ASSUME FrontHoldsChunk, FParts, ReadData \/ ReadNone \/ ReadWaited, UNCHANGED faults, ~broken, ~broken'
  PROVE  Stream!Next \/ UNCHANGED Stream!streamVars
<1>1. /\ UNCHANGED broken
      /\ ~m_bStop /\ m_readPos = m_cur /\ target \in Position /\ target > 0
  BY DEF ReadData, ReadNone, ReadWaited, FParts, FTypes, Stopping, ReaderIsAt
<1>2. PICK s \in 0 .. m_size - 1 : s = Slot(m_cur)
  BY Positions, CacheAssumption, SlotInBuffer DEF Position
<1>3. CASE ReadData
  <2>1. PICK n \in 0 .. FileSize : n = Readable(target)
    BY Positions, <1>1, <1>2 DEF Readable, Least, Front, Position
  <2>2. n > 0 /\ m_readPos' = m_readPos + n /\ got' = BytesRead(n)
    BY <1>3, <2>1 DEF ReadData, ReadFromCache
  <2>3. \A k \in 1 .. n : BytesRead(n)[k] = m_cur + k - 1
    BY <1>1, <2>1, ReadsTheFile DEF FParts
  <2>4. got' = [k \in 1 .. n |-> m_readPos + k - 1]
    BY <1>1, <2>2, <2>3 DEF BytesRead
  <2>5. Stream!Read(n)
    BY <1>1, <2>2, <2>4 DEF Stream!Read
  <2> QED BY <2>1, <2>5 DEF Stream!Next
<1>4. ASSUME Front = 0, faults = {} => m_end = FileSize, UNCHANGED m_readPos, got' = <<>>
      PROVE  Stream!Next
  <2>1. faults = {} => m_readPos = FileSize
    BY <1>1, <1>4, Positions DEF Front, Position
  <2>2. got' = [k \in 1 .. 0 |-> m_readPos + k - 1]
    BY <1>4
  <2>3. m_readPos' = m_readPos + 0
    BY <1>1, <1>4, Positions DEF Position
  <2>4. Stream!Read(0)
    BY <1>1, <2>1, <2>2, <2>3 DEF Stream!Read
  <2> QED BY <2>4, Positions DEF Stream!Next
<1>5. CASE ReadNone
  <2>1. CASE m_bEndOfInput
    <3>1. Front = 0
      BY <1>1, <1>2, <1>5, Positions DEF ReadNone, Readable, Least, Front, Position
    <3>2. faults = {} => m_end = FileSize
      BY <1>1, <2>1, MarkedAtEnd
    <3> QED BY <1>4, <1>5, <2>1, <3>1, <3>2 DEF ReadNone
  <2>2. CASE ~m_bEndOfInput
    BY <1>1, <1>5, <2>2 DEF ReadNone, Stream!streamVars
  <2> QED BY <2>1, <2>2
<1>6. CASE ReadWaited
  <2>1. CASE Front > 0
    BY <1>1, <1>6, <2>1 DEF ReadWaited, Stream!streamVars
  <2>2. CASE Front = 0
    <3>1. faults = {} => m_bEndOfInput
      <4> SUFFICES ASSUME faults = {}
                   PROVE  m_bEndOfInput
        OBVIOUS
      <4>1. Arrived(1)
        BY <1>6 DEF ReadWaited, Over
      <4> QED BY <2>2, <4>1, Positions DEF Arrived, Least, FrontHoldsChunk
    <3>2. faults = {} => m_end = FileSize
      BY <1>1, <3>1, MarkedAtEnd
    <3> QED BY <1>4, <1>6, <2>2, <3>2 DEF ReadWaited
  <2> QED BY <1>6, <2>1, <2>2 DEF ReadWaited
<1> QED BY <1>3, <1>5, <1>6

(* Any other call, and each of its parts, moves the position or nothing.   *)
LEMMA SeekShows ==
  ASSUME FParts, UNCHANGED faults, ~broken, ~broken',
         \/ \E pos \in Position : Seek(pos)
         \/ SeekWaited \/ SeekAnswered \/ SeekRemaining \/ SeekAgain
  PROVE  Stream!Next \/ UNCHANGED Stream!streamVars
<1>1. /\ m_readPos \in 0 .. FileSize /\ target \in 0 .. FileSize
      /\ rpc \in Waiting => got = <<>>
  BY DEF FParts, FTypes, ReaderIsAt, Position
<1>2. UNCHANGED broken
  BY DEF Seek, SeekHit, SeekMissed, Refuse, SeekWaited, SeekAnswered, SeekRemaining, SeekAgain
<1>3. got' = <<>>
  BY <1>1 DEF Seek, SeekWaited, SeekAnswered, SeekRemaining, SeekAgain, Waiting
<1>4. \E p \in 0 .. FileSize : m_readPos' = p
  BY <1>1 DEF Seek, SeekHit, SeekMissed, SeekWaited, SeekAnswered, SeekRemaining, SeekAgain,
     SeekFinished, Position
<1>5. \E p \in 0 .. FileSize : Stream!Seek(p)
  BY <1>2, <1>3, <1>4 DEF Stream!Seek
<1> QED BY <1>5 DEF Stream!Next

(* Every step is one of the stream, or does not show.                      *)
LEMMA StreamStep ==
  ASSUME FrontHoldsChunk, FInv, [FileCacheNext]_fvars
  PROVE  Stream!Next \/ UNCHANGED Stream!streamVars
<1>1. broken \in BOOLEAN /\ broken' \in BOOLEAN /\ (broken => broken') /\ UNCHANGED faults
  BY BrokenStays DEF FInv
<1>2. CASE broken
  BY <1>1, <1>2 DEF Stream!Next, Stream!Broken
<1>3. CASE ~broken /\ broken'
  BY <1>1, <1>3, FailsOnlyUnsteady DEF FInv, Stream!Next, Stream!Break
<1>4. CASE ~broken /\ ~broken'
  <2>1. FParts
    BY <1>4 DEF FInv
  <2>2. CASE FillerStep
    BY <1>4, <2>1, <2>2, FillerShows
  <2>3. CASE ReadData \/ ReadNone \/ ReadWaited
    BY <1>1, <1>4, <2>1, <2>3, ReadShows
  <2>4. CASE \/ \E pos \in Position : Seek(pos)
             \/ SeekWaited \/ SeekAnswered \/ SeekRemaining \/ SeekAgain
    BY <1>1, <1>4, <2>1, <2>4, SeekShows
  <2>5. CASE \/ \E len \in 1 .. FileSize : Read(len)
             \/ Close \/ SetStopEvent \/ Joined \/ Closed \/ UNCHANGED fvars
    BY <1>1, <2>5 DEF Read, Close, SetStopEvent, Joined, Closed, fvars, readVars, Stream!streamVars
  <2> QED BY <2>2, <2>3, <2>4, <2>5 DEF FileCacheNext, ReaderCalls, ReaderStep
<1> QED BY <1>1, <1>2, <1>3, <1>4

(* CFileCache implements FileStream: what the reader gets is the file,     *)
(* wherever the seeks and the thread have left the ring buffer, and a      *)
(* source without faults never fails it nor ends early.                    *)
THEOREM FileIsReadThrough ==
  ASSUME FrontHoldsChunk
  PROVE  FileCacheSpec => ReadsLikeTheFile
<1>1. FileCacheInit => Stream!Init
  BY DEF FileCacheInit, Stream!Init
<1>2. FInv /\ [FileCacheNext]_fvars => [Stream!Next]_(Stream!streamVars)
  BY FrontHoldsChunk, StreamStep
<1> QED BY <1>1, <1>2, FInvariance, PTL DEF FileCacheSpec, ReadsLikeTheFile, Stream!Spec
=============================================================================
