SPECIFICATION FairSpec
CONSTANTS
  r1 = r1
  NoJob = NoJob
  Run <- OneRun
  MaxChildren = 1
  MaxAttempts = 2
  Ring = 2
  Batch = 1
  MaxSteers <- SteersByVendor
  MaxMishaps = 1
  Vendors <- BothVendors
  Disturbances <- DisturbanceKinds
INVARIANTS
  TypeOK
  ExactlyOnce
  CancelDecides
  SlotsHoldProcesses
PROPERTIES
  NoEarlyGiveUp
  ControlsHandedOnce
  ImplementsProtocol
  CancelEnds
CHECK_DEADLOCK FALSE
