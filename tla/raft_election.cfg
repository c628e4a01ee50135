SPECIFICATION Spec
CONSTANTS
  Server = {s1, s2, s3}
  Candidates = {s1, s2, s3}
  Command = {c1}
  NoVote = NoVote
  MaxTerm = 2
  MaxLog = 0
  MaxCrash = 1
  Delays = TRUE
  MaxCalls = 9
  StepDownFirst = FALSE
SYMMETRY Symmetry
VIEW ElectionView
INVARIANTS TypeOK VoteOnce OneWinnerPerTerm
PROPERTY TermAndVoteStable
CHECK_DEADLOCK FALSE
