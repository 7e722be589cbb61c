CONSTANTS
  none = none
  v1 = v1
  v2 = v2
  Values = {none, v1, v2}
  ret_init = none
  MaxAnswers = 3
SPECIFICATION Spec
INVARIANT LastProviderReturned
CHECK_DEADLOCK FALSE
