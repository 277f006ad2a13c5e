SPECIFICATION Safety
CONSTANTS
  Faults <- NoFaults
  CallbackEnabled = TRUE
  MaxLag = 1
  MaxDeploys = 1
  MaxBegins = 2
  MaxAborts = 0
INVARIANTS
  RunningInstallUntouched
