SPECIFICATION FairSpec
CONSTANTS
  Jobs = {j1, j2}
  Clis = {c1}
  Timers = {t1}
  NetThreads = {}
  Dispatcher = dispatcher
  PktTask = pktTask
  NULL = NULL
  MaxPkts = 2
  MaxOps = 1
  MaxCancels = 1
  Spurious = FALSE
INVARIANTS Intact SyncDone
PROPERTIES SyncReturns JobsRun PacketsServed
