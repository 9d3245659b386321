CONSTANTS
  CommandLines <- MCCommandLines
  TEST_RANGE = 70
  Sample = {1, 4, 9, 20, 31}
  MaxTimeouts = 1
SPECIFICATION Spec
INVARIANTS OnlyTimeoutsCost ValuesFitAndReachTheEnds ShownInOrder
CHECK_DEADLOCK FALSE
