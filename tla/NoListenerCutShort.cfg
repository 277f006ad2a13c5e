SPECIFICATION Safety
CONSTANTS
  Faults <- CutShort
  CallbackEnabled = FALSE
  MaxLag = 0
  MaxDeploys = 1
  MaxBegins = 1
  MaxAborts = 1
PROPERTIES
  ProvisionedIsStarted
