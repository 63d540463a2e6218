SPECIFICATION Spec
CONSTANTS
  Intfs = {i1, i2}
  Nbrs = {n1, n2}
  Links <- AllLinks
  Ips = {1}
  Nets <- OneNet
  Resolving = {}
  Softs = {1}
  NULL = NULL
  MaxHellos = 8
  MaxConfigs = 2
SYMMETRY Symmetry
INVARIANTS AssertsHold
\* The process may die, and hellos are bounded.
CHECK_DEADLOCK FALSE
