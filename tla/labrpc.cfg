SPECIFICATION FairSpec
CONSTANTS
  Calls = {c1}
  Ends = {e1}
  Names = {n1}
  MaxInstances = 3
INVARIANTS AckedIsPersisted CallInv
PROPERTIES KeepsPromise CallReturns HandlersEnd
