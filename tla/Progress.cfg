SPECIFICATION Spec
CONSTANTS
  Faults <- TeardownFaults
  CallbackEnabled = TRUE
  MaxLag = 0
  MaxDeploys = 2
  MaxBegins = 2
  MaxAborts = 2
INVARIANTS
  BegunOnce
PROPERTIES
  DeployResolves
  ReportedHostGoesDown
  DeprovisionEnds
