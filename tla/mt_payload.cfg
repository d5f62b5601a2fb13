SPECIFICATION Spec
CONSTANTS
  task = task
  m1 = m1
  m2 = m2
  m3 = m3
  m4 = m4
  f1 = f1
  f2 = f2
  Clients = {task}
  Messages <- MCMessages
  Filters = {f1, f2}
  QueueLen = 4
  CmdsPerLoop = 4
  Records = 4
  MaxSubs = 2
  MaxRetries = 2
  MaxTrouble = 0
  None = None
  Parts <- OnePart
  Backlog <- TwoStored
  Topics <- MCTopics
  Long = {m3, m4}
  TooLong = {}
  RamLen = 3
INVARIANT PayloadAsGiven
