SPECIFICATION ASpec
CONSTANTS
  Client = {c1, c2}
  PoolSize = 6
  MaxCalls = 3
INVARIANTS
  FreeIsUnused
  NoMessageIsLost
  AnswersTheCall
  ActorIsWoken
CHECK_DEADLOCK FALSE
