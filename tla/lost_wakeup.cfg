SPECIFICATION Spec
CONSTANTS
  flow = flow
  child = child
  other = other
  NoRun = NoRun
  Run <- OneChild
  Parent <- OneChildParent
  Live <- NoLive
  MaxAttempts = 1
  MaxClaims = 2
  Isolation = "read_committed"
  Disturbances <- Undisturbed
INVARIANTS
  ParentWakeable
CHECK_DEADLOCK FALSE
