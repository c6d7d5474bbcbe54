SPECIFICATION FairSpec
CONSTANTS
  flow = flow
  child = child
  other = other
  NoRun = NoRun
  Run <- Alone
  Parent <- AloneParent
  Live <- LiveChild
  MaxAttempts = 2
  MaxClaims = 3
  Isolation = "serialized"
  Disturbances <- WorkersFail
PROPERTIES
  AttemptsAreFenced
  NoUnsafeRetry
  CancelCompletes
  LostWorkerIsReplaced
CHECK_DEADLOCK FALSE
