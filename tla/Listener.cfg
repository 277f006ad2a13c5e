SPECIFICATION Spec
CONSTANTS
  a = a
  b = b
  c = c
  sda = sda
  none = none
  q1 = q1
  q2 = q2
  Hosts <- TwoHosts
  MACs <- ThreeMACs
  NoMAC = none
  Disks <- OneDisk
  NoDisk = none
  Declared <- Specs
  MACsOf <- Reported
  Requests <- TwoRequests
  MaxUIDs = 2
  MaxEdits = 1
  MaxPosts = 2
  MaxCalls = 1
  MaxStrays = 1
SYMMETRY Interchangeable
CHECK_DEADLOCK FALSE
INVARIANTS
  TypeOK
  OnlyDeclaredAreWiped
  VouchedIsServed
  OnlyLateReportsSurvive
  ToldIsKept
  ReportsGoHome
  SuccessIsEarned
