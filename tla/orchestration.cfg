SPECIFICATION Spec
CONSTANTS
  draft = draft
  check = check
  publish = publish
  research = research
  write = write
  near = near
  far = far
  Step <- ThreeSteps
  Position <- InOrder
  DependsOn <- Join
  Conditional = {check}
  Parallelism = 2
  Task <- TwoTasks
  After <- ResearchFirst
  Target = {near, far}
  Assignment <- ThreePlans
  TaskBudget = 3
  MaxReplans = 1
  MaxRevisions = 1
  MaxVersions = 3
  Width = 1
  MaxAttempts <- Attempts
  MaxLosses = 1
  None = None
INVARIANTS
  TypeOK
  OnlyDueWork
  AnnouncedOnce
  WholeResult
CHECK_DEADLOCK FALSE
