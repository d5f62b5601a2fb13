SPECIFICATION Spec
CONSTANTS
  task = task
  m1 = m1
  m2 = m2
  m3 = m3
  m4 = m4
  f1 = f1
  f2 = f2
  Clients = {task}
  Messages <- MCMessages
  Filters = {f1, f2}
  QueueLen = 2
  CmdsPerLoop = 2
  Records = 2
  MaxSubs = 2
  MaxRetries = 2
  MaxTrouble = 2
  None = None
  Parts <- ThreeParts
  Backlog <- OneStored
  Topics <- MCTopics
  Long = {m2, m4}
  TooLong = {m2}
  RamLen = 2
INVARIANT TaskTypeOK
INVARIANT HandedOverOnce
INVARIANT RamInOrder
INVARIANT SubscriptionsFit
PROPERTY KeptUntilAccepted
