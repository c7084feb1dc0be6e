SPECIFICATION ExchangesSpec
CONSTANTS
  Attempts = 2
  MaxSamples = 6
  Capacity = 3
  MaxAsked = 9
  Room = 2
  Long = {2}
  Silent = {3}
  MaxCommands = 4
  MaxEvents = 3
  MaxWork = 2
  MaxBlocks = 2
  MaxRequests = 2
  MaxFailures = 1
  SetRoom = 2
  MaxLength = 2
  MaxExchanges = 3
  MaxNatives = 3
INVARIANTS
  NoTornSample
  VendorRepliesInOrder
  BlocksAreWhole
  AnswersAreWhole
PROPERTIES
  SamplesInOrder
  NewestIsDelivered
  IsBoundedFifo
  TransfersEnd
  EndedStreamIsSilent
  MicFollowsHost
  CommandIsAnswered
CHECK_DEADLOCK FALSE
