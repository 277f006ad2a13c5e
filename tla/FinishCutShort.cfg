SPECIFICATION Safety
CONSTANTS
  Faults <- CutShort
  CallbackEnabled = TRUE
  MaxLag = 0
  MaxDeploys = 1
  MaxBegins = 2
  MaxAborts = 1
PROPERTIES
  InstallNotRestarted
