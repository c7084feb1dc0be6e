SPECIFICATION Ds5Spec
CONSTANTS
  Devices = {d1}
  NoDevice = NoDevice
  Pads = {d1}
  MayPair = FALSE
  Patient = TRUE
  MaxEvents = 2
  MaxIncidents = 2
  MaxCalls = 2
  MaxStates = 3
  MaxFailures = 1
  MaxRetries = 1
  MaxSent = 2
  MaxAsked = 1
  MaxHost = 1
  MaxTroubles = 1
INVARIANTS
  NewestIsLast
  PassedOverIsSettled
PROPERTIES
  LossIsRepaired
  LastStateIsShown
  FetchingEnds
CHECK_DEADLOCK FALSE
