SPECIFICATION Spec
CONSTANTS
  m1 = m1
  m2 = m2
  Messages <- MCMessages
  Clears <- MCClears
  Capacity = 3
  MsgCells = 2
  SectorCells = 3
  Faults = {"power"}
  Erased = Erased
  Torn = Torn
  Unreadable = Unreadable
  Nothing = Nothing
PROPERTY PowerCycleKeepsQueue
