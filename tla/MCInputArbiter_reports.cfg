SPECIFICATION Spec
CONSTANTS
  Stale = 1
  Takeover = 2
  MaxSleep = 1
  OutputRoles = {"dualsense", "ns2pro"}
  Preferences <- AutoOrDs5
  Skewed = TRUE
PROPERTIES
  ReportsAreFresh
  OrderedTakeoverNeedsSilence
