SPECIFICATION Spec
CONSTANTS
  RingSize = 3
  RecvLen = 1
  Segments = {1, 2}
  MaxBytes = 2
  MaxConns = 2
  MaxPackets = 2
  MaxCmds = 1
  MaxWire = 4
INVARIANT LinkTypeOK
INVARIANT CleanStream
INVARIANT InOrderOnce
INVARIANT Understood
PROPERTY SentIsSent
VIEW View
ACTION_CONSTRAINT OnlyOverrunsWithinPop
CONSTRAINT NotMisled
