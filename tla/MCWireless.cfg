SPECIFICATION WirelessSpec
CONSTANTS
  Pads = {p1}
  Elsewhere = {}
  None = None
  Commands <- LastCommand
  MaxRetries = 1
  Room = 2
  MaxWrites = 2
  MaxIncidents = 1
  MaxCalls = 0
  Stale = 0
  Takeover = 1
  MaxSleep = 1
PROPERTIES
  SearchesAndSettles
  GoneIsNeutral
  SenderTakesOver
