SPECIFICATION Spec
CONSTANTS
  Intfs = {i1}
  Nbrs = {n1}
  Links <- AllLinks
  Ips = {1}
  Nets <- OneNet
  Resolving = {}
  Softs = {1}
  NULL = NULL
  MaxHellos = 4
  MaxConfigs = 1
INVARIANTS UpCountSound
\* The process may die, and hellos are bounded.
CHECK_DEADLOCK FALSE
