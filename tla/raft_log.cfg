SPECIFICATION Spec
CONSTANTS
  Server = {s1, s2, s3}
  Candidates = {s1, s2}
  Command = {c1, c2}
  NoVote = NoVote
  MaxTerm = 2
  MaxLog = 2
  MaxCrash = 0
  Delays = FALSE
  MaxCalls = 9
  StepDownFirst = TRUE
SYMMETRY Symmetry
VIEW LogView
INVARIANTS ElectionSafety StateMachineSafety LeaderCompleteness LogMatching  LogInv
PROPERTY LeaderAppendOnly
CHECK_DEADLOCK FALSE
