SPECIFICATION Spec
CONSTANTS
  Inputs <- NoInputs
  Preferences <- AutoOnly
  Addresses = {}
  NoAddress = NoAddress
  NoRecord = NoRecord
  Grace = 1
  Defer = 2
  MaxSleep = 1
  RoleRequests <- AllRoles
  AutoRequests <- AutoOn
  PersistRequests <- Saved
  BootReads <- AnyBoot
PROPERTIES
  SwitchedBeforeCommit
