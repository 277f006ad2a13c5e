SPECIFICATION Spec
CONSTANTS
  SystemMedia <- UsbAndCDs
  ManagerMedia <- Spare
  CDs <- OwnCDs
  CallbackEnabled = TRUE
  Faults <- DropsAndGone
INVARIANTS
  TypeOK
  BootsItsImage
  ImageIsOut
PROPERTIES
  DeployUsesOneDrive
