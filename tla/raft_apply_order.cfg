SPECIFICATION ApplySpec
CONSTANTS
  Server = {s1, s2, s3}
  Candidates = {s1}
  Command = {c1, c2}
  NoVote = NoVote
  MaxTerm = 1
  MaxLog = 2
  MaxCrash = 0
  Delays = FALSE
  MaxCalls = 9
  StepDownFirst = TRUE
SYMMETRY Symmetry
VIEW ApplyView
INVARIANTS AppliedInOrder
CHECK_DEADLOCK FALSE
