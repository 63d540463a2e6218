SPECIFICATION Spec
CONSTANTS
  Jobs = {j1, j2}
  Clis = {c1}
  Timers = {t1}
  NetThreads = {n1}
  Dispatcher = dispatcher
  PktTask = pktTask
  NULL = NULL
  MaxPkts = 2
  MaxOps = 1
  MaxCancels = 1
  Spurious = TRUE
SYMMETRY Symmetry
INVARIANTS TypeOK TasksSound NoLostWakeup NoStrandedPacket HandleSound
\* Nothing is modelled after the list is corrupted.
CHECK_DEADLOCK FALSE
