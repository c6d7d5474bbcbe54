SPECIFICATION FairSpec
CONSTANTS
  Kind <- AgreedKinds
  MaxEvents = 4
  StreamBatch = 2
  PageLimit = 2
  CompactBatch = 2
  MaxFaults = 1
INVARIANTS
  TypeOK
  SnapshotMeetsRows
  ViewIsFold
  GapsAreCompacted
  RecoveryGoesForward
PROPERTIES
  LearnsTheEnd
CHECK_DEADLOCK FALSE
