SPECIFICATION Spec
CONSTANTS
  Jobs = {j1}
  Clis = {c1}
  Timers = {}
  NetThreads = {n1}
  Dispatcher = dispatcher
  PktTask = pktTask
  NULL = NULL
  MaxPkts = 2
  MaxOps = 1
  MaxCancels = 0
  Spurious = FALSE
INVARIANTS Intact
