SPECIFICATION Spec
CONSTANTS
  flow = flow
  child = child
  other = other
  NoRun = NoRun
  Run <- TwoChildren
  Parent <- TwoChildrenParent
  Live <- NoLive
  MaxAttempts = 1
  MaxClaims = 2
  Isolation = "serialized"
  Disturbances <- Undisturbed
INVARIANTS
  CascadeReachesChildren
CHECK_DEADLOCK FALSE
