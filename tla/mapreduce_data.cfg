SPECIFICATION Spec
CONSTANTS
  Words = {1, 2, 3}
  NFiles = 2
  NReduce = 2
  MaxWords = 2
INVARIANT OutputIsReference
CHECK_DEADLOCK FALSE
