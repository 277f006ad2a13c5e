SPECIFICATION Safety
CONSTANTS
  Faults <- UnorderedFaults
  CallbackEnabled = TRUE
  MaxLag = 1
  MaxDeploys = 1
  MaxBegins = 2
  MaxAborts = 0
INVARIANTS
  NoInstallerInService
  MediaInvariant
PROPERTIES
  MediaSwappedOnlyWhenDown
