SPECIFICATION CheckSpec
CONSTANTS
  Letters = {a, b}
  MaxOps = 3
  MaxOutput = 2
  Others = {p1}
  HasTimeout = TRUE
INVARIANTS ListIsRest ResultIsRight VerdictIsRight
PROPERTY Returns
CHECK_DEADLOCK FALSE
