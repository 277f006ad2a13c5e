SPECIFICATION Spec
CONSTANTS
  Faults <- HungShutdowns
  CallbackEnabled = TRUE
  MaxLag = 0
  MaxDeploys = 1
  MaxBegins = 1
  MaxAborts = 0
PROPERTIES
  ReportedHostGoesDown
