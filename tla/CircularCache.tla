---------------------------- MODULE CircularCache ----------------------------
(***************************************************************************)
(* CCircularCache (xbmc/filesystem/CircularCache.cpp): a ring buffer that  *)
(* holds a window of a file, written at m_end and read at m_cur.  Of what  *)
(* has been read, at least m_size_back bytes stay for seeking back.        *)
(*                                                                         *)
(* Each operation holds m_sync, so each is one action, but for Seek, which *)
(* leaves it to wait for data in between.  A byte of the file is           *)
(* represented by its position in the file.                                *)
(***************************************************************************)
EXTENDS Integers, Sequences

CONSTANTS
  FileSize,      \* the length of the file
  m_size,        \* the size of the buffer
  m_size_back,   \* the bytes kept for seeking back
  SEEK_AHEAD     \* 100000: how far beyond m_end Seek waits for data

ASSUME CacheAssumption ==
  /\ FileSize \in Nat
  /\ m_size \in Nat \ {0}
  /\ m_size_back \in 0 .. m_size
  /\ SEEK_AHEAD \in Nat

VARIABLES
  m_beg, m_end,  \* the window of the file that the buffer holds
  m_cur,         \* the next position to read
  m_buf,         \* the buffer
  m_bEndOfInput  \* nothing more will be written

cacheVars == <<m_beg, m_end, m_cur, m_buf, m_bEndOfInput>>

Position == 0 .. FileSize
Nowhere  == -1      \* what an unwritten byte of the buffer holds

(* The types of the positions, the buffer and the mark.                    *)
CacheTypeOK ==
  /\ m_beg \in Position /\ m_end \in Position /\ m_cur \in Position
  /\ m_buf \in [0 .. m_size - 1 -> Position \cup {Nowhere}]
  /\ m_bEndOfInput \in BOOLEAN

CacheInit ==
  /\ m_beg = 0 /\ m_end = 0 /\ m_cur = 0
  /\ m_buf = [i \in 0 .. m_size - 1 |-> Nowhere]
  /\ m_bEndOfInput = FALSE

-----------------------------------------------------------------------------
Least(a, b) == IF a < b THEN a ELSE b

(* Where the byte of a position is in the buffer.                          *)
Slot(pos) == pos % m_size

Front == m_end - m_cur
Back  == m_cur - m_beg

(* The bytes that may be written now.                                      *)
Limit == m_size - Least(Back, m_size_back) - Front

GetMaxWriteSize(request) == Least(request, Limit)

(* How much of a write goes in at once: up to the limit and to where the   *)
(* buffer wraps around.                                                    *)
Writable(len) == Least(Least(len, Limit), m_size - Slot(m_end))

(* n bytes of the file, from position from on, are written; history that   *)
(* they overwrote is dropped.                                              *)
WriteToCache(from, n) ==
  /\ n > 0
  /\ m_buf' = [i \in 0 .. m_size - 1 |->
                 IF i \in Slot(m_end) .. Slot(m_end) + n - 1
                 THEN from + (i - Slot(m_end)) ELSE m_buf[i]]
  /\ m_end' = m_end + n
  /\ m_beg' = IF m_end + n - m_beg > m_size THEN m_end + n - m_size ELSE m_beg
  /\ UNCHANGED <<m_cur, m_bEndOfInput>>

Readable(len) == Least(Least(len, m_size - Slot(m_cur)), Front)

(* The n bytes a read returns.                                             *)
BytesRead(n) == [k \in 1 .. n |-> m_buf[Slot(m_cur) + k - 1]]

ReadFromCache(n) ==
  /\ n > 0
  /\ m_cur' = m_cur + n
  /\ UNCHANGED <<m_beg, m_end, m_buf, m_bEndOfInput>>

(* Seek, first part: a little beyond the end, wait for the data to come,   *)
(* with everything that is cached made history.                            *)
IsAhead(pos) == pos >= m_end /\ pos < m_end + SEEK_AHEAD
SeekAhead ==
  /\ m_cur' = m_end
  /\ UNCHANGED <<m_beg, m_end, m_buf, m_bEndOfInput>>

(* WaitForData returns for another reason than its timeout.                *)
Arrived(minimum) ==
  m_bEndOfInput \/ Front >= Least(minimum, m_size - m_size_back)

IsCachedPosition(pos) == m_beg <= pos /\ pos <= m_end

(* Seek, second part, of a position in the window.                         *)
SeekTo(pos) ==
  /\ m_cur' = pos
  /\ UNCHANGED <<m_beg, m_end, m_buf, m_bEndOfInput>>

CachedDataEndPosIfSeekTo(pos) == IF IsCachedPosition(pos) THEN m_end ELSE pos

(* Reset with clearAnyway = false: a cached position only moves m_cur.     *)
Reset(pos) ==
  /\ IF IsCachedPosition(pos) THEN UNCHANGED <<m_beg, m_end>>
                              ELSE m_beg' = pos /\ m_end' = pos
  /\ m_cur' = pos
  /\ UNCHANGED <<m_buf, m_bEndOfInput>>

SetEndOfInput(b) ==
  /\ m_bEndOfInput' = b
  /\ UNCHANGED <<m_beg, m_end, m_cur, m_buf>>

(* What a user of the cache may do: write what follows m_end, in any       *)
(* portions, read, and move within the window or to an empty one.          *)
CacheNext ==
  \/ \E len \in Position : m_end + Writable(len) \in Position /\ WriteToCache(m_end, Writable(len))
  \/ \E len \in Position : ReadFromCache(Readable(len))
  \/ SeekAhead
  \/ \E pos \in Position : IsCachedPosition(pos) /\ SeekTo(pos)
  \/ \E pos \in Position : Reset(pos)
  \/ \E b \in BOOLEAN : SetEndOfInput(b)

CacheSpec == CacheInit /\ [][CacheNext]_cacheVars

-----------------------------------------------------------------------------
(* CircularCache.cpp: "The following always apply: m_beg <= m_cur <=       *)
(* m_end" (with a slip of the pen) and "m_end - m_beg <= m_size".          *)
PositionsInOrder ==
  m_beg <= m_cur /\ m_cur <= m_end /\ m_end - m_beg <= m_size

(* Every position of the window has its byte of the file in the buffer.    *)
WindowHoldsFile == \A p \in m_beg .. m_end - 1 : m_buf[Slot(p)] = p

(* "It will always leave m_size_back of the backbuffer intact": a write    *)
(* drops history only beyond that.                                         *)
KeepsBackBuffer ==
  [][m_end' > m_end /\ m_beg' # m_beg /\ m_cur' = m_cur => m_cur - m_beg' >= m_size_back]_cacheVars
=============================================================================
