SPECIFICATION Safety
CONSTANTS
  Faults <- FailedForgets
  CallbackEnabled = TRUE
  MaxLag = 0
  MaxDeploys = 2
  MaxBegins = 2
  MaxAborts = 1
INVARIANTS
  ProvisionedIsInstalled
