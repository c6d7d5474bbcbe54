SPECIFICATION FairSpec
CONSTANTS
  MaxRuns = 3
  MaxContents = 2
  MaxAttempts = 2
  MaxFaults = 2
  Request = {q1}
  Cascades = FALSE
  None = None
  Done = Done
INVARIANTS
  TypeOK
  IndexFollowsDocument
PROPERTIES
  Settles
CHECK_DEADLOCK FALSE
