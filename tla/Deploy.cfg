SPECIFICATION Safety
CONSTANTS
  Faults <- BMCFaults
  CallbackEnabled = TRUE
  MaxLag = 0
  MaxDeploys = 3
  MaxBegins = 3
  MaxAborts = 2
INVARIANTS
  TypeOK
  ProvisionedIsInstalled
  NoInstallerInService
  VerdictIsThisRuns
  PreparedBeforePowerOn
  RunningInstallUntouched
  InstallIsSafe
PROPERTIES
  KeepsContract
  MediaSwappedOnlyWhenDown
  InstallNotRestarted
  InstallerBootsOnlyInDeploy
  ProvisionedIsStarted
