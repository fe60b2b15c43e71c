\* A file of five bytes through a buffer of three, of which one is kept for
\* seeking back; two bytes are read at once, and seeks wait for data up to one
\* byte ahead.
CONSTANTS
  FileSize = 5
  m_size = 3
  m_size_back = 1
  SEEK_AHEAD = 2
  m_chunkSize = 2
  Faults <- MCFaults
  KeepsCalling = FALSE
SPECIFICATION FileCacheFairSpec
INVARIANTS
  SourceFollowsWindow
PROPERTIES
  ReadsLikeTheFile
  UsesCacheAsSpecified
  CallsReturn
  CloseReturns
CHECK_DEADLOCK FALSE
