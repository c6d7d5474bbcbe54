SPECIFICATION Spec
CONSTANTS
  flow = flow
  child = child
  other = other
  NoRun = NoRun
  Run <- Alone
  Parent <- AloneParent
  Live <- LiveChild
  MaxAttempts = 2
  MaxClaims = 2
  Isolation = "serialized"
  Disturbances <- Undisturbed
INVARIANTS
  SteerReachesOnlyItsAttempt
CHECK_DEADLOCK FALSE
