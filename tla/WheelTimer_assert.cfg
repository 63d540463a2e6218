SPECIFICATION Spec
CONSTANTS
  Elems = {e1}
  WheelSize = 2
  Intervals = {1}
  MaxCycle <- AssertBound
  MaxJobs = 1
  Modes = {TRUE}
INVARIANTS AssertsHold
CHECK_DEADLOCK FALSE
