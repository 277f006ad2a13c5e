SPECIFICATION Spec
CONSTANTS
  m1 = m1
  m2 = m2
  none = none
  Systems <- TwoSystems
  NoSystem = none
  Addresses <- Written
  Environments <- Deployments
  DefaultInstallTimeout = 3
  MaxUIDs = 2
  MaxEdits = 1
  MaxFaults = 1
CHECK_DEADLOCK FALSE
INVARIANTS
  TypeOK
  OnlyItsOwnMachine
  GoodIsProven
  InstallsAreReported
PROPERTIES
  RecordsNoChange
  ClaimStays
  HostsBecomeAvailable
  DeletionEnds
  PowerSettles
