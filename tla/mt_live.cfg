SPECIFICATION Spec
CONSTANTS
  task = task
  m1 = m1
  m2 = m2
  m3 = m3
  m4 = m4
  f1 = f1
  f2 = f2
  Clients = {task}
  Messages = {m1, m4}
  Filters = {f1, f2}
  QueueLen = 2
  CmdsPerLoop = 2
  Records = 1
  MaxSubs = 2
  MaxRetries = 2
  MaxTrouble = 2
  None = None
  Parts <- OnePart
  Backlog <- OneStored
  Topics <- MCTopics
  Long = {m4}
  TooLong = {}
  RamLen = 2
PROPERTY Recovers
PROPERTY WorkedOff
PROPERTY Delivered
PROPERTY StopTakesEffect
PROPERTY CommandsAreExecuted
