SPECIFICATION Spec
CONSTANTS
  InitSize = 1
  MaxSize = 7
  MaxPush = 3
  Payload = 2
  Keys = {0, 1, 2, 3}
  MaxTimers = 3
  WaitTime = 3
INVARIANTS Fifo  WellLinked FiresOnTime
