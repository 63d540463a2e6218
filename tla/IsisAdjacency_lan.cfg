SPECIFICATION FairSpec
CONSTANTS
  Intfs = {i1}
  Nbrs = {n1, n2}
  Links <- AllLinks
  Ips <- SharedIps
  Nets <- SharedNets
  Resolving <- SharedResolving
  Softs = {1}
  NULL = NULL
  MaxHellos = 5
  MaxConfigs = 1
INVARIANTS AdjSound
PROPERTIES SilentForgotten ReconEnds
\* The process may die, and hellos are bounded.
CHECK_DEADLOCK FALSE
