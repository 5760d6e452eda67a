CONSTANTS
  NumAlarms = 2
  MaxAlarms = 3
SPECIFICATION Spec
INVARIANT AlarmArrives
CHECK_DEADLOCK FALSE
