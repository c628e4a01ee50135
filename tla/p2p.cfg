SPECIFICATION Spec
CONSTANTS
  Peers = {h1, h2, h3}
  FileSizes = {0, 1, 2, 3, 4, 5}
CHECK_DEADLOCK FALSE
INVARIANTS FileIsWhole NotFreedWhileSending
PROPERTY AllComplete
