SPECIFICATION FairSpec
CONSTANTS
  Inputs <- OneInput
  Preferences <- AutoOrNs2
  Addresses = {a}
  NoAddress = NoAddress
  NoRecord = NoRecord
  Grace = 1
  Defer = 2
  MaxSleep = 1
  RoleRequests <- TwoRoles
  AutoRequests <- AutoOn
  PersistRequests <- SavedOrNot
  BootReads <- AnyBoot
INVARIANTS
  TypeOK
  RoleAgreement
  DurableWhenClean
  ActiveInputAllowed
PROPERTIES
  PersonaSwitching
  SwitchSettles
  TargetLostOnlyByForget
  DirtyIsSaved
