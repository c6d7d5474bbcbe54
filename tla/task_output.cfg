SPECIFICATION Spec
CONSTANTS
  Kind <- SupervisorKinds
  MaxEvents = 3
  StreamBatch = 2
  PageLimit = 2
  CompactBatch = 2
  MaxFaults = 0
INVARIANTS
  ViewIsFold
CHECK_DEADLOCK FALSE
