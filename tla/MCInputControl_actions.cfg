SPECIFICATION FairSpec
CONSTANTS
  Ds5Pads = {"d1"}
  Ns2Pads = {"n1", "n2"}
  None = None
  Boot <- Known
  Commands <- AllCommands
  Passed <- SomePassed
  MaxIncidents = 2
INVARIANTS
  LostKeyIsForgotten
PROPERTIES
  PendingIsServed
  ExcludedTransportStops
  RemembersTheConnected
