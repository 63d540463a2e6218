SPECIFICATION ServicesSpec
CONSTANTS
  port1 = port1
  port2 = port2
  pfxS = pfxS
  pfxT = pfxT
  pfxC = pfxC
  Interfaces = {port1, port2}
  IfPrefixes <- TableAddrs
  CliPrefixes = {pfxC, pfxS}
  SpfPrefixes = {pfxC}
  NextHops = {hop1, hop2}
  MaxNextHops = 2
  RouteIds <- TableIds
  MaxChanges = 4
  MaxFlash = 1
  PlaneNodes = {"r1", "r2", "r3"}
  PlanePorts <- DpPorts
  PlaneOwner <- DpOwners
  PlanePeer <- DpPeers
  PlaneRoutes <- DpRoutes
  Pings <- DpPings
  Ttl = 3
  Refreshers = {"a"}
  MaxPings = 2
  MaxDowns = 1
  MaxIsis = 1
  Hosts = {"h1", "h2", "h3", "h4", "h5"}
  Switches = {"s1", "s2"}
  SwitchPorts <- SwPorts
  At <- SwAt
  Link <- SwLinks
  Modes <- SwModes
  Members <- SwMembers
  Edges = {"a2", "b4", "a5"}
  Vlans = {10, 11}
  Slots = 2
  Sends <- SwSends
  MaxSends = 3
  MaxConfigs = 1
  Routers = {"r1", "r2", "r3"}
  QueryPorts <- DdPorts
  QueryOwner <- DdOwners
  QueryPeer <- DdPeers
  Askers = {"r1"}
  Disabled = {}
  Switched = {"c"}
  Readdressed = {"r3"}
  MaxQueries = 3
  MaxQueryCommands = 1
  MaxLosses = 1
  NbrIntfs = {"i1", "i2"}
  NbrIds = {"n1", "n2"}
  MaxHellos = 3
  MaxNbrCommands = 5
  ConfigOrder <- OrderOfThree
  ConfigLinks <- LinksToTwo
  GroupNames = {"g1", "g2"}
  NoGroup = "none"
  MaxConfigCommands = 5
  Timeouts = {0, 1, 2}
  MaxOverloadCommands = 6
  MaxJobs = 2
  ExpTimer = 2
  SecExpTimer = 2
  Threshold = 2
  Threads = {1, 2}
  Forever = 99
  MaxBackoff = 8
  MaxCalls = 5
  ChainNodes = {1, 2, 3}
INVARIANTS RoutesSound ViewSound DataPlaneSound SwitchSound DdcpSound NbrshipSound IsisSound TimerSound DeliveredOnce
\* A subject stops at its bounds.
CHECK_DEADLOCK FALSE
