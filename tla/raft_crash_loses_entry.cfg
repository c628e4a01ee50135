SPECIFICATION Spec
CONSTANTS
  Server = {s1, s2, s3}
  Candidates = {s1, s2, s3}
  Command = {c1, c2}
  NoVote = NoVote
  MaxTerm = 2
  MaxLog = 1
  MaxCrash = 1
  Delays = FALSE
  MaxCalls = 9
  StepDownFirst = TRUE
SYMMETRY Symmetry
VIEW LogView
INVARIANTS StateMachineSafety
CHECK_DEADLOCK FALSE
