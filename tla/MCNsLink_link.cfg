SPECIFICATION Spec
CONSTANTS
  Pads = {p1}
  Elsewhere = {e1}
  None = None
  Commands <- LastCommands
  MaxRetries = 1
  Room = 2
  MaxWrites = 2
  MaxIncidents = 1
  MaxCalls = 1
INVARIANTS
  ReadyIsEarned
  LossIsSeen
  SomethingIsDue
PROPERTIES
  OnlyWantedConnections

