SPECIFICATION AgentSpec
CONSTANTS
  c1 = c1
  c2 = c2
  m1 = m1
  m2 = m2
  f1 = f1
  Clients <- MCClients
  Messages <- MCMessages
  Filters = {f1}
  QueueLen = 2
  CmdsPerLoop = 1
  Records = 2
  MaxSubs = 2
  MaxRetries = 2
  MaxTrouble = 1
  None = None
INVARIANT AgentTypeOK
INVARIANT SlotsAccounted
INVARIANT SendNeverWaits
INVARIANT OnceInOrder
INVARIANT StopMeansGone
SYMMETRY Symmetric
