SPECIFICATION Spec
CONSTANTS
  MaxAnswers = 3
  MaxOpens = 1
INVARIANT ModelIsOfProvider
CHECK_DEADLOCK FALSE
