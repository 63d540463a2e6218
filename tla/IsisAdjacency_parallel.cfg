SPECIFICATION Spec
CONSTANTS
  Intfs = {i1, i2}
  Nbrs = {n1}
  Links <- AllLinks
  Ips = {i1, i2}
  Nets <- SubnetNets
  Resolving = {}
  Softs = {1, 2}
  NULL = NULL
  MaxHellos = 6
  MaxConfigs = 2
INVARIANTS TypeOK AdjSound LspSound
SYMMETRY Symmetry
\* The process may die, and hellos are bounded.
CHECK_DEADLOCK FALSE
