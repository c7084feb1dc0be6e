SPECIFICATION Spec
CONSTANTS
  Devices = {d1, d2}
  NoDevice = NoDevice
  Pads = {d1, d2}
  MayPair = TRUE
  Patient = FALSE
  MaxEvents = 2
  MaxIncidents = 2
  MaxCalls = 2
SYMMETRY Symmetry
INVARIANTS
  LinkIsWhole
  ChannelsAgree
PROPERTIES
  StopHoldsUnlessLate
CHECK_DEADLOCK FALSE
