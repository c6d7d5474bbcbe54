SPECIFICATION Spec
CONSTANTS
  flow = flow
  child = child
  other = other
  NoRun = NoRun
  Run <- OneChild
  Parent <- OneChildParent
  Live <- NoLive
  MaxAttempts = 2
  MaxClaims = 3
  Isolation = "read_committed"
  Disturbances <- AllInTime
INVARIANTS
  TypeOK
  QueueMatches
  OneOwner
  PendingInputConsistent
  ViewAgrees
  AnswersReachTheAsker
  RetryBudget
PROPERTIES
  ImplementsProtocol
CHECK_DEADLOCK FALSE
