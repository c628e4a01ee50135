SPECIFICATION FairSpec
CONSTANTS
  WindowSize = 2
  MaxSeqN = 5
  Lag = 1
  MaxPayloads = 7
  MaxMsg = 2
INVARIANTS InOrder NoAssertFails TimerWhileUnacknowledged WindowsOverlap
PROPERTY AllDelivered
CHECK_DEADLOCK FALSE
