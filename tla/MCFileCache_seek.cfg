\* A source that fails, and a reader that goes on.
CONSTANTS
  FileSize = 4
  m_size = 3
  m_size_back = 1
  SEEK_AHEAD = 2
  m_chunkSize = 2
  Faults <- ReadFault
  KeepsCalling = TRUE
SPECIFICATION FileCacheFairSpec
PROPERTIES SeeksAreAnswered
CHECK_DEADLOCK FALSE
