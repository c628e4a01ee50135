SPECIFICATION Spec
CONSTANTS
  Server = {s1, s2, s3}
  Candidates = {s1, s2, s3}
  Command = {c1}
  NoVote = NoVote
  MaxTerm = 2
  MaxLog = 0
  MaxCrash = 0
  Delays = FALSE
  MaxCalls = 9
  StepDownFirst = FALSE
SYMMETRY Symmetry
VIEW LogView
INVARIANTS ElectionSafety
CHECK_DEADLOCK FALSE
