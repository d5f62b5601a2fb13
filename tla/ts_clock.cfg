SPECIFICATION Spec
CONSTANTS
  TickSpan = 4
  Start = 10
  MaxLag = 2
  MaxTime = 6
INVARIANT TimeTypeOK
PROPERTY StampIsTrue
PROPERTY StampsInOrder
