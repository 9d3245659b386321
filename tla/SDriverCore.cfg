CONSTANTS
  Traces <- MCTraces
  Graded <- MCGraded
  TestLists <- MCTestLists
  Reference <- MCReference
  ITERS = 2
  MAXARGS = 5
  MaxProcs = 4
SPECIFICATION SDSpec
INVARIANTS ScoreIsEarned RunsDoNotMeet
PROPERTIES TimeoutHasCause NextIsInStep DifferenceHasCause GradingEnds
CHECK_DEADLOCK FALSE
