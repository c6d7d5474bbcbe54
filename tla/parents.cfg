SPECIFICATION FairSpec
CONSTANTS
  flow = flow
  child = child
  other = other
  NoRun = NoRun
  Run <- OneChild
  Parent <- OneChildParent
  Live <- LiveChild
  MaxAttempts = 2
  MaxClaims = 2
  Isolation = "serialized"
  Disturbances <- Undisturbed
INVARIANTS
  ParentWakeable
  CascadeReachesChildren
PROPERTIES
  ParentResumes
CHECK_DEADLOCK FALSE
