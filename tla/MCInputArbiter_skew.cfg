SPECIFICATION Spec
CONSTANTS
  Stale = 0
  Takeover = 1
  MaxSleep = 1
  OutputRoles = {"dualsense"}
  Preferences <- AutoOrDs5
  Skewed = TRUE
PROPERTIES
  TakeoverNeedsSilence
