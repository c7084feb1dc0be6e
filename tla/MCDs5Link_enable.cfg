SPECIFICATION FairSpec
CONSTANTS
  Devices = {d1}
  NoDevice = NoDevice
  Pads = {d1}
  MayPair = FALSE
  Patient = TRUE
  MaxEvents = 2
  MaxIncidents = 1
  MaxCalls = 2
PROPERTIES
  EnablingResumes
CHECK_DEADLOCK FALSE
