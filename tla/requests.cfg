SPECIFICATION FairSpec
CONSTANTS
  c1 = c1
  c2 = c2
  k1 = k1
  k2 = k2
  b1 = b1
  b2 = b2
  talk = talk
  Client <- TwoClients
  Session <- Connections
  None = None
  Key = {k1, k2}
  Body = {b1, b2}
  Conversation = {talk}
  Apart = Apart
  Capacity = 2
  MaxFaults = 1
  Submissions <- Twice
  MaxTries = 2
  Scenarios <- Conflicts
INVARIANTS
  TypeOK
  SerialTransactions
  OneRunEach
PROPERTIES
  TurnComesBack
CHECK_DEADLOCK FALSE
