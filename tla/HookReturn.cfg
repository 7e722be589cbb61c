CONSTANTS
  none = none
  v1 = v1
  v2 = v2
  Values = {none, v1, v2}
  ret_init = none
  MaxAnswers = 3
SPECIFICATION Spec
INVARIANTS SkippedIffSuperceded ReturnsPromised
CHECK_DEADLOCK FALSE
