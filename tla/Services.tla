------------------------------ MODULE Services ------------------------------
(***************************************************************************)
(* The routers' services: the routing table, the data plane (layer 3, ARP, *)
(* frames), the learning switch, DDCP, the neighbourship management, the   *)
(* commands of ISIS, the timers and the notification chains.  They share   *)
(* no state: each behaviour is one of a single service, the subject.  The  *)
(* variables of RouteTable are its own; the others have the names they     *)
(* have in the modules of the services, where several may use one name.    *)
(***************************************************************************)
EXTENDS RouteTable

CONSTANTS  \* of DataPlane
  PlaneNodes, PlanePorts, PlaneOwner, PlanePeer, PlaneRoutes,
  Pings, Ttl, Refreshers, MaxPings, MaxDowns, MaxIsis
CONSTANTS  \* of L2Switch
  Hosts, Switches, SwitchPorts, At, Link, Modes, Members, Edges, Vlans, Slots,
  Sends, MaxSends, MaxConfigs
CONSTANTS  \* of Ddcp
  Routers, QueryPorts, QueryOwner, QueryPeer, Askers, Disabled, Switched,
  Readdressed, MaxQueries, MaxQueryCommands, MaxLosses
CONSTANTS  \* of Nbrship
  NbrIntfs, NbrIds, MaxHellos, MaxNbrCommands
CONSTANTS  \* of IsisConfig and IsisOverload
  ConfigOrder, ConfigLinks, GroupNames, NoGroup, MaxConfigCommands,
  Timeouts, MaxOverloadCommands, MaxJobs
CONSTANTS  \* of TimerLib and NotifChain
  ExpTimer, SecExpTimer, Threshold, Threads, Forever, MaxBackoff, MaxCalls,
  ChainNodes

VARIABLES
  subject,
  died, raced, commands, jobs, timer, arp, wire, enabled,      \* of several services
  up, home, sent, downs, isis,                                 \* DataPlane
  mode, ip, vlans, table, got, frames, configs,                \* L2Switch
  seen, timed, mail, replies, size, handled, queries, losses,  \* Ddcp
  node, intf, hello, hellos,                                   \* Nbrship
  adjs, ups, dyn, groups, grp, members, mapping, stale, meddled,  \* IsisConfig
  phase, status, value, gen, advertised,                       \* IsisOverload
  exponential, state, posix, ts, left, counter, backoff, pc, calls, fired,  \* TimerLib
  l2, localIn, routes, events, tracing, nmp, nmpOnce           \* NotifChain

services ==
  <<died, raced, commands, jobs, timer, arp, wire, enabled, up, home, sent, downs, isis,
    mode, ip, vlans, table, got, frames, configs, seen, timed, mail, replies, size, handled,
    queries, losses, node, intf, hello, hellos, adjs, ups, dyn, groups, grp, members,
    mapping, stale, meddled, phase, status, value, gen, advertised, exponential, state,
    posix, ts, left, counter, backoff, pc, calls, fired, l2, localIn, routes, events,
    tracing, nmp, nmpOnce>>

------------------------------------------------------------------------------
Plane == INSTANCE DataPlane WITH
  Nodes <- PlaneNodes, Ports <- PlanePorts, Owner <- PlaneOwner, Peer <- PlanePeer,
  Routes <- PlaneRoutes
Bridge == INSTANCE L2Switch WITH Ports <- SwitchPorts
Capture == INSTANCE Ddcp WITH
  Ports <- QueryPorts, Owner <- QueryOwner, Peer <- QueryPeer, MaxCommands <- MaxQueryCommands
Nbrs == INSTANCE Nbrship WITH
  Intfs <- NbrIntfs, Nbrs <- NbrIds, MaxCommands <- MaxNbrCommands
Settings == INSTANCE IsisConfig WITH
  Order <- ConfigOrder, Links <- ConfigLinks, Names <- GroupNames,
  MaxCommands <- MaxConfigCommands
Overload == INSTANCE IsisOverload WITH MaxCommands <- MaxOverloadCommands
Timers == INSTANCE TimerLib
Chains == INSTANCE NotifChain WITH Nodes <- ChainNodes

\* The links of ISIS are point to point; NULL is not the name of a group.
ASSUME ConfigAssumption ==
  /\ ConfigOrder \in Seq(Settings!Intfs) /\ ConfigLinks \subseteq Settings!Intfs \X Settings!Nbrs
  /\ \A a, b \in ConfigLinks : a[1] = b[1] => a = b
  /\ NoGroup \notin Settings!AllNames

\* Every host is on one port; switches are linked by trunks, whose mode stays; a
\* port has the VLANs its mode allows; and no host sends to itself.
ASSUME SwitchAssumption ==
  /\ IsFiniteSet(SwitchPorts) /\ At \in [SwitchPorts -> Switches]
  /\ Link \in [SwitchPorts -> Hosts \cup SwitchPorts] /\ Hosts \cap SwitchPorts = {}
  /\ Modes \in [SwitchPorts -> {"access", "trunk", "unknown"}]
  /\ \A h \in Hosts : \E p \in SwitchPorts : Link[p] = h /\ \A q \in SwitchPorts : Link[q] = h => q = p
  /\ \A p \in SwitchPorts :
       /\ Link[p] \in SwitchPorts => Link[Link[p]] = p /\ Modes[p] = "trunk" /\ p \notin Edges
       /\ Members[p] \in Seq(Nat \ {0})
       /\ \/ Modes[p] = "access" /\ Len(Members[p]) <= 1
          \/ Modes[p] = "trunk"
          \/ Modes[p] = "unknown" /\ Members[p] = << >>
  /\ Vlans \subseteq Nat \ {0} /\ Slots \in Nat \ {0} /\ Edges \subseteq SwitchPorts
  /\ Bridge!Bcast \notin Hosts /\ Sends \subseteq Hosts \X (Hosts \cup {Bridge!Bcast})
  /\ \A x \in Sends : x[1] # x[2]

\* There are two switches at most, with one link between them.
ASSUME TwoSwitchAssumption ==
  /\ \A p \in SwitchPorts : Link[p] \in SwitchPorts =>
       /\ At[Link[p]] # At[p]
       /\ \A q \in SwitchPorts : Link[q] \in SwitchPorts /\ At[q] = At[p] => q = p
  /\ \A s, t \in Switches : s # t =>
       \E p \in SwitchPorts : At[p] = s /\ Link[p] \in SwitchPorts /\ At[Link[p]] = t

\* Every DDCP interface has one router and one link with two ends.
ASSUME QueryAssumption ==
  /\ QueryOwner \in [QueryPorts -> Routers] /\ QueryPeer \in [QueryPorts -> QueryPorts]
  /\ \A p \in QueryPorts : QueryPeer[QueryPeer[p]] = p
  /\ IsFiniteSet(QueryPorts) /\ "none" \notin QueryPorts
  /\ Askers \subseteq Routers /\ Readdressed \subseteq Routers /\ Switched \subseteq QueryPorts

\* A timer has a first interval (setup_timer is never given 0, and
\* timer_callback_wrapper asserts that the back-off is not 0).
ASSUME TimerAssumption ==
  ExpTimer \in Nat \ {0} /\ SecExpTimer \in Nat /\ Threshold \in Nat /\ Forever \in Nat

------------------------------------------------------------------------------
\* The variables each service uses.
Uses ==
  [table |-> {},
   plane |-> {"died", "jobs", "arp", "wire", "up", "home", "sent", "downs", "isis"},
   bridge |-> {"died", "raced", "wire", "mode", "ip", "vlans", "table", "got", "frames", "configs"},
   capture |-> {"died", "commands", "wire", "enabled", "seen", "timed", "mail", "replies",
                "size", "handled", "queries", "losses"},
   neighbours |-> {"died", "commands", "jobs", "timer", "node", "intf", "hello", "hellos"},
   settings |-> {"died", "commands", "arp", "enabled", "adjs", "ups", "dyn", "groups", "grp",
                 "members", "mapping", "stale", "meddled"},
   overload |-> {"died", "raced", "commands", "jobs", "timer", "phase", "status", "value",
                 "gen", "advertised"},
   timers |-> {"died", "raced", "exponential", "state", "posix", "ts", "left", "counter",
               "backoff", "pc", "calls", "fired"},
   chains |-> {"isis", "l2", "localIn", "routes", "events", "tracing", "nmp", "nmpOnce"}]

\* A variable that the subject does not use is 0, and never changes.
Unused(name, x) == IF name \in Uses[subject] THEN TRUE ELSE x = 0
Kept(name, x) == IF name \in Uses[subject] THEN TRUE ELSE x' = x
UnusedVars ==
  /\ Unused("died", died) /\ Unused("raced", raced) /\ Unused("commands", commands)
  /\ Unused("jobs", jobs) /\ Unused("timer", timer) /\ Unused("arp", arp)
  /\ Unused("wire", wire) /\ Unused("enabled", enabled) /\ Unused("up", up)
  /\ Unused("home", home) /\ Unused("sent", sent) /\ Unused("downs", downs)
  /\ Unused("isis", isis) /\ Unused("mode", mode) /\ Unused("ip", ip)
  /\ Unused("vlans", vlans) /\ Unused("table", table) /\ Unused("got", got)
  /\ Unused("frames", frames) /\ Unused("configs", configs) /\ Unused("seen", seen)
  /\ Unused("timed", timed) /\ Unused("mail", mail) /\ Unused("replies", replies)
  /\ Unused("size", size) /\ Unused("handled", handled) /\ Unused("queries", queries)
  /\ Unused("losses", losses) /\ Unused("node", node) /\ Unused("intf", intf)
  /\ Unused("hello", hello) /\ Unused("hellos", hellos) /\ Unused("adjs", adjs)
  /\ Unused("ups", ups) /\ Unused("dyn", dyn) /\ Unused("groups", groups)
  /\ Unused("grp", grp) /\ Unused("members", members) /\ Unused("mapping", mapping)
  /\ Unused("stale", stale) /\ Unused("meddled", meddled) /\ Unused("phase", phase)
  /\ Unused("status", status) /\ Unused("value", value) /\ Unused("gen", gen)
  /\ Unused("advertised", advertised) /\ Unused("exponential", exponential)
  /\ Unused("state", state) /\ Unused("posix", posix) /\ Unused("ts", ts)
  /\ Unused("left", left) /\ Unused("counter", counter) /\ Unused("backoff", backoff)
  /\ Unused("pc", pc) /\ Unused("calls", calls) /\ Unused("fired", fired)
  /\ Unused("l2", l2) /\ Unused("localIn", localIn) /\ Unused("routes", routes)
  /\ Unused("events", events) /\ Unused("tracing", tracing) /\ Unused("nmp", nmp)
  /\ Unused("nmpOnce", nmpOnce)
KeptVars ==
  /\ Kept("died", died) /\ Kept("raced", raced) /\ Kept("commands", commands)
  /\ Kept("jobs", jobs) /\ Kept("timer", timer) /\ Kept("arp", arp) /\ Kept("wire", wire)
  /\ Kept("enabled", enabled) /\ Kept("up", up) /\ Kept("home", home) /\ Kept("sent", sent)
  /\ Kept("downs", downs) /\ Kept("isis", isis) /\ Kept("mode", mode) /\ Kept("ip", ip)
  /\ Kept("vlans", vlans) /\ Kept("table", table) /\ Kept("got", got)
  /\ Kept("frames", frames) /\ Kept("configs", configs) /\ Kept("seen", seen)
  /\ Kept("timed", timed) /\ Kept("mail", mail) /\ Kept("replies", replies)
  /\ Kept("size", size) /\ Kept("handled", handled) /\ Kept("queries", queries)
  /\ Kept("losses", losses) /\ Kept("node", node) /\ Kept("intf", intf)
  /\ Kept("hello", hello) /\ Kept("hellos", hellos) /\ Kept("adjs", adjs)
  /\ Kept("ups", ups) /\ Kept("dyn", dyn) /\ Kept("groups", groups) /\ Kept("grp", grp)
  /\ Kept("members", members) /\ Kept("mapping", mapping) /\ Kept("stale", stale)
  /\ Kept("meddled", meddled) /\ Kept("phase", phase) /\ Kept("status", status)
  /\ Kept("value", value) /\ Kept("gen", gen) /\ Kept("advertised", advertised)
  /\ Kept("exponential", exponential) /\ Kept("state", state) /\ Kept("posix", posix)
  /\ Kept("ts", ts) /\ Kept("left", left) /\ Kept("counter", counter)
  /\ Kept("backoff", backoff) /\ Kept("pc", pc) /\ Kept("calls", calls)
  /\ Kept("fired", fired) /\ Kept("l2", l2) /\ Kept("localIn", localIn)
  /\ Kept("routes", routes) /\ Kept("events", events) /\ Kept("tracing", tracing)
  /\ Kept("nmp", nmp) /\ Kept("nmpOnce", nmpOnce)

Start(name) == subject = name /\ UnusedVars
Step(name) == subject = name /\ UNCHANGED <<subject, vars>> /\ KeptVars

ServicesInit == Init /\
  \/ Start("table")
  \/ Start("plane") /\ Plane!Init
  \/ Start("bridge") /\ Bridge!Init
  \/ Start("capture") /\ Capture!Init
  \/ Start("neighbours") /\ Nbrs!Init
  \/ Start("settings") /\ Settings!Init
  \/ Start("overload") /\ Overload!Init
  \/ Start("timers") /\ Timers!Init
  \/ Start("chains") /\ Chains!Init

ServicesNext ==
  \/ subject = "table" /\ Next /\ UNCHANGED <<subject, services>>
  \/ Step("plane") /\ Plane!Next
  \/ Step("bridge") /\ Bridge!Next
  \/ Step("capture") /\ Capture!Next
  \/ Step("neighbours") /\ Nbrs!Next
  \/ Step("settings") /\ Settings!Next
  \/ Step("overload") /\ Overload!Next
  \/ Step("timers") /\ Timers!Next
  \/ Step("chains") /\ Chains!Next

ServicesSpec == ServicesInit /\ [][ServicesNext]_<<subject, vars, services>>

------------------------------------------------------------------------------
(* Properties *)

\* Packets, ARP entries and the reasons of drops are sound (DataPlane).
DataPlaneSound == subject = "plane" => Plane!DataPlaneSound

\* VLANs are isolated and what the switches learn is right (L2Switch).
SwitchSound == subject = "bridge" => Bridge!SwitchSound

\* Queries reach everyone once; the originator keeps the latest replies (Ddcp).
DdcpSound == subject = "capture" => Capture!DdcpSound

\* Adjacencies, hellos and timers belong together (Nbrship).
NbrshipSound == subject = "neighbours" => Nbrs!NbrshipSound

\* Groups, ARP entries and the overload status follow the adjacencies and the
\* commands (IsisConfig, IsisOverload).
IsisSound == /\ subject = "settings" => Settings!ConfigSound
             /\ subject = "overload" => Overload!OverloadSound

\* Timers of the timer library, periodic and exponential (TimerLib).
TimerSound == subject = "timers" => Timers!TimerSound

\* Every packet and event reaches its subscriber once (NotifChain).
DeliveredOnce == subject = "chains" => Chains!DeliveredOnce
=============================================================================
