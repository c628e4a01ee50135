SPECIFICATION FairSpec
CONSTANTS
  w1 = w1
  w2 = w2
  w3 = w3
  Workers = {w1, w2, w3}
  NMap = 2
  NReduce = 2
  Filled = {0, 1}
  Mortal = {w1, w2}
  Limit = 3
  RPCs <- MCRPCs
INVARIANTS TypeOK OneTaskPerWorker TasksAccounted NoIdleWorkerWhileTaskWaits InputsComplete
CHECK_DEADLOCK FALSE
PROPERTY JobEnds
