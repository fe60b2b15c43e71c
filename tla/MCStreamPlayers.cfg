SPECIFICATION SSpec
CONSTANTS
  MaxDataSize = 2
  ConvergeCount = 2
  MaxPackets <- MCMaxPackets
  MaxOpens = 1
  MaxSyncs = 1
  MaxToggles = 1
  MaxWithLoss = 1
INVARIANTS
  DataSizeIsExact
  NoMessageIsSleptOver
  DrainIsComplete
  OnlyPutBackSurvives
  NobodyIsWaitedForInVain
  DecodedInOrder
CHECK_DEADLOCK FALSE
