\* The block time halves, at the checkpoint or later.
SPECIFICATION Spec
CONSTANTS
  Rows <- MCRows
  SomeBooks <- MCBooks
  At = 4
  Forks = {4, 6}
  MaxTime = 7
INVARIANTS CurvesRight NeverOvercharged
CHECK_DEADLOCK FALSE
