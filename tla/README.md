# Verification of the network simulator

TLA+ models, TLC runs and machine-checked proofs for `src/server`, a TCP/IP
stack simulator in C: all nodes of a simulated network live in one process,
run layers 2 to 5 and exchange packets through an event dispatcher. The Qt
client in `src/client` only displays what the server prints.

Contents: 1 the system and its components; 2 the modules; 3 the runs; 4 the
proofs; 5 disagreements found; 6 what is not modelled, and the plan.

## 1. The system

### Threads and how they meet

| thread | runs | meets the others through |
|---|---|---|
| main / command line | parses commands, one at a time | `task_create_new_job_synchronous`: hands its handler to the dispatcher and sleeps until it has run |
| event dispatcher | every callback of every node: packets, timers, commands | the task list `ev_dis.task_array_head`, under `ev_dis_mutex` |
| timing wheel (`SIGEV_THREAD`) | one tick per interval | creates one-shot jobs on the dispatcher; takes requests from callbacks through the reschedule list |
| packet receiver | packets from outside the process | `pkt_q_enqueue` on the queue `recvr_pkt_q` |

Protocol code runs on the dispatcher thread only and uses no locks. Its hard
behaviours are therefore not data races but *staleness*: a timer that fires
queues a job with a pointer, and whatever ran in between may have changed or
freed what it points to.

### Components

State kept, operations, what makes each correct (status in `PROJECT.json`).

* **Event dispatcher** (`EventDispatcher/`, `comm.c`). State: task list,
  pending count, dispatcher state, signal flag, current task; per queue its
  packets and its one task. Operations: create a job, synchronously or not,
  re-schedule, cancel, enqueue and dequeue a packet. Correct if no task is
  inserted twice, freed in use or lost, no wakeup is missed, every synchronous
  call returns, every packet is served.
* **Wheel timer** (`libtimer/WheelTimer.c`). State: clock tick and cycle, slots
  ordered by cycle, a reschedule list, elements. Operations: register,
  reschedule, de-register, tick, remaining time. Correct if a timer fires
  exactly when its interval has passed and every link is sound.
* **ISIS adjacencies** (`Layer5/isis/isis_adjacency.c`, `isis_intf.c`,
  `isis_intf_group.c`, `isis_layer2map.c`, parts of `isis_pkt.c`, `isis_flood.c`,
  `isis_rtr.c`). State: adjacencies with two timers, interfaces, groups, ARP
  entries, reconciliation, the own LSP. Operations: hellos, timer jobs,
  interface events, on-demand flooding. Correct if timers match states, groups
  and ARP entries match adjacencies, the LSP in the end tells the truth, and
  silent neighbours are forgotten.
* **ISIS flooding and LSP database** (`isis_flood.c`, `isis_lspdb.c`). State:
  LSPs by router, sequence numbers, a queue of transmissions per interface, life
  timers. Operations: install (eight cases), queue, transmit, purge. Correct if
  the newest information wins everywhere and reference counts balance.
* **ISIS life cycle and commands** (`isis_rtr.c`, `isis_cli.c`). State: pending
  works of a shutdown, event flags, overload, configured groups, layer-2 mapping.
  Correct if a shutdown ends, with nothing left, and if what commands switch
  follows the adjacencies.
* **SPF, TED** (`spf_algo/spf.c`, `isis_ted.c`, `ted/`; `isis_spf.c` is empty).
  Correct if routes are shortest paths and links of the database are those the
  LSPs name.
* **Layer 2** (`Layer2/`): ARP table with unresolved entries, pending packets
  and expiry timers; MAC learning and VLAN forwarding. Correct if no packet is
  lost or doubled and VLANs stay apart.
* **Layer 3** (`Layer3/`): routing table, next hops, forwarding; route
  notifications through an update list and a flash list. Correct if subscribers
  end up knowing the table.
* **DDCP, neighbourship** (`Layer5/ddcp`, `Layer5/nbrship_mgmt`): distribution of
  queries, an older hello protocol.
* **Libraries**: intrusive lists (`gluethread`), AVL tree (`Tree`), memory manager
  (`LinuxMemoryManager`), POSIX timers (`libtimer/timerlib.c`), notification
  chains (`notif.c`, `tcp_stack_init.c`); state machines (`FSMImplementation`, linked by
  the command line, which calls nothing of it); bit arrays (included nowhere).
* **Shell**: command parser (`CommandParser`), command handlers, tracing, topology
  builders, packet generator, client, a runner for tests of commands.

The layers are composed by calls on the dispatcher thread: a frame goes through
layer 2 (`dp_pkt_recvr_job_cbk`), layer 3, and the notification chains to the
protocols; a protocol changes the routing table, whose job tells its subscribers.
Each module below takes the calls into other components as events of its
environment, and what it leaves for them as outputs.

`PROJECT.json` lists the hazards of this code, each at its line, with the
properties that cover it or the reason none does yet.

## 2. The modules

| module | models | uses |
|---|---|---|
| `EventDispatcher` | `event_dispatcher.c`, the callers in `comm.c` and `isis_pkt.c` | |
| `EventDispatcherProofs`, `WheelTimerProofs`, `IsisAdjacencyProofs`, `IsisFloodingProofs`, `RouteTableProofs` | theorems about the module of that name | that module, TLAPS |
| `ServicesProofs`, `NetworkProofs` | theorems about the services in `Services`: those of one router, and those that flood a network | `Services`, TLAPS |
| `ListLemmas` | what the operations on sequences do to elements and order | TLAPS |
| `TimerService` | what a timer promises (abstract) | |
| `WheelTimer` | `WheelTimer.c`, `glthread_priority_insert` | instance of `TimerService` |
| `TimerLib` | `libtimer/timerlib.c` | |
| `MemoryManager` | `LinuxMemoryManager/mm.c` | |
| `AvlTree` | `Tree/avl.c` | |
| `Glthread` | `gluethread/glthread.c` | |
| `Spf` | `spf_algo/spf.c` | |
| `Ted` | `ted/ted.c`, `isis_ted.c` | |
| `NotifChain` | `notif.c`, the registrations of every protocol | |
| `RouteTable` | `Layer3/layer3.c` (the table), `rt_table/nexthop.c`, `rt_notif.c` | |
| `DataPlane` | `Layer3/layer3.c` (packets), `Layer2/arp.c`, frames of `layer2.c` | |
| `L2Switch` | `Layer2/l2switch.c`, VLANs and modes of interfaces | |
| `Ddcp` | `Layer5/ddcp` | |
| `Nbrship` | `Layer5/nbrship_mgmt` | |
| `Cli` | `CommandParser` (`parser.c`, `cmd_hier.c`, TLV buffers) | |
| `IsisAdjacency` | the adjacency part of ISIS on one router | |
| `IsisFlooding` | LSP databases, flooding, start, shutdown and clearing, of a topology of routers | |
| `IsisConfig` | the commands on configured and dynamic groups, and on layer-2 mapping | |
| `IsisOverload` | overload, its timer, and the shutdown | |
| `Services` | one behaviour, one of the services of a router | `RouteTable`, instances of `DataPlane`, `L2Switch`, `Ddcp`, `Nbrship`, `IsisConfig`, `IsisOverload`, `TimerLib`, `NotifChain` |
| `MCLibraries` | one behaviour, one of the libraries | `MCWheelTimer`, instances of `MemoryManager`, `AvlTree`, `Glthread`, `Spf`, `Ted`, `Cli` |
| other `MC...` | symmetry and values for TLC | the module of that name |

`MCLibraries` and `Services` have several components in one specification. The
components share no state there: the variable `subject` says which one a behaviour is
about. In `MCLibraries` `v1`, `v2`, ... stand for the variables of that one (the rest stay 0);
in `Services` each variable has the name it has in its module, and belongs to every component
whose module has a variable of that name.
`Services` extends `RouteTable`, whose variables and properties are its own; they stand
still when another component is the subject. It states the assumptions on constants that the
instanced modules need, where TLC evaluates them.
The reachable states are the union of those of the components, each with its own
constants, `Init` and `Next`; a property speaks of one subject.

Operators whose names end in `_suffix` and which are marked `mutant` are
deliberate mistakes; they stand before the definition they could replace, and
each shows that a property can fail.

### EventDispatcher

One step is one region between lock and unlock, or one unlocked access to shared
state. So `event_dispatcher_schedule_task` is three steps: `Check` (the unlocked
test of a packet task, line 54), `AssertUnlinked` (the assertion, 59) and `Add`
(the locked region, 61 to 92). `pkt_q_enqueue` is `Enqueue` and `EnqTest` before
these. A new one-shot task is known to its creator only, so its two tests are
skipped. The dispatcher's loop is `Dispatch`, or `Sleep` and `Wake`; a callback
is a sequence of at most `MaxOps` scheduler calls (`Cb...`), then `CbReturn` and one
of the `Post...` actions of `eve_dis_process_task_post_call`.

Memory is the set `alloc`. `broken` becomes true when a task is inserted twice, an
assertion fails, or a task in use is freed; the model stops there, since what
follows is undefined. `handle` is the job pointer an application keeps, as ISIS
keeps `lsp_pkt_gen_task`: set by the creator, cleared by the callback first thing,
used to cancel.

### WheelTimer and TimerService

The application's request is `Begin`, `WriteOp`, `WriteInterval` and `Link`, since
`opcode` and `new_time_interval` are written before the lock is taken; the wheel
thread is `Tick`, `Fire` for each element of the slot that is due (the walk: the
wheel thread alone touches slots), `LockList`, and per element of the reschedule
list `ReadOp` and `ApplyArm`, `ApplyDelete` or `ApplyScheduled`. While the wheel
thread works on the list it holds the lock, so `Link` waits. An interval stands
for interval / tick; the code rejects intervals that are not multiples.

`TimerService` is the promise: a timer armed with an interval counts down and fires
at zero; a new request replaces one not yet applied. The refinement maps the
distance of an element to the present slot to the remaining count, and list
membership with the opcode to the request. The variable `overlap`, chosen at the
start, says whether calls and ticks overlap. Without overlap the refinement
holds; with it the two unlocked writes break it, and the structural
invariants are what remains.

### The other libraries

* `TimerLib`: one timer, periodic or with exponential back-off. The state of the object and
  the kernel's timer (`posix`) are separate; an expiry starts a thread whose wrapper
  is four steps (`WrapperStart`, `WrapperCancel`, `WrapperCall`,
  `WrapperReschedule`), between which calls may come. `raced` marks behaviours in
  which one did.
* `MemoryManager`: pages of each family with their blocks (`pages`), the priority list of
  free blocks (`free`), and what the application holds (`live`). `Alloc` takes the
  biggest free block and splits it (four cases, with the fragments that are too small
  for a header), `Free` merges with both neighbours and releases an empty page.
* `AvlTree`: nodes with pointers and balances as in the code. `Insert` and `Remove` walk
  up and rotate as recursive operators; `Exchange` puts a node in the place of
  another with its key (`avltree_replace`).
* `Glthread`: the two pointers of every node (`left`, `right`), next to the sequences
  that callers mean (`lists`). `WalkStart` and `WalkOn` are the iteration macro,
  between whose steps the loop body may change any list.
* `Spf`: `RunSpf` is the whole computation of a root over the usable links, with its
  priority list and next-hop arrays; `SetMetric`, `NoMetric` and `UpDown` are the
  interface events that schedule it. `silent` marks a change nobody was told of.
* `Ted`: routers (known, fake) and links with two ends. `InstallLsp` and
  `UninstallLsp` are the calls ISIS makes: unplug, create or resurrect, plug in, and
  remove what has lost both ends.
* `NotifChain`: the chains as sequences of elements (key and callback). Each protocol's
  enabling and disabling is an action; `Called` is whom an invocation reaches.

### RouteTable, DataPlane and L2Switch

`RouteTable` is one router's table. A route is an object with an identity, since lists
hold pointers: `rt` has the table, the notify and flash lists, the objects, and the
queued jobs. Commands, addresses of interfaces and SPF runs change it through
operators that map a table to a table (`Insert`, `Extend`, `Withdraw`, `ClearTable`,
`InstallHops`); a loop of the code is a recursive function over its turns,
`NotifyJob` and `FlashJob` tell subscribers, `Forward` rotates the next hop.
`view` is what a subscriber has been told.

`DataPlane` is a line of routers whose frames are in one queue (`wire`). `Ping` and
`RecvFrame` run a packet through layer 3, ARP and layer 2 in one step, as the code
does, until it is on the wire, delivered, dropped or pending on an ARP entry. `Expire`
is the wheel's event and `ExpiryJob` the job it queued, which may find its entry
replaced. `IsisMap` and `IsisUnmap` are the entries that ISIS writes. `home` tells
where each packet is, with the reason of its drop.

`L2Switch` has switches, trunks and hosts: `RecvFrame` checks VLAN and mode, learns,
and forwards or floods with the tags changed; the configuration commands come in
between. The receive queue is a stack, as `pkt_q_enqueue` makes it; `raced` marks that a
frame was sent while another was on its way, which it may overtake.

### Ddcp and Nbrship

`Ddcp`: `Query`, `QueryPeriodic` and `QueryTimer` start a flood, `RecvQuery` filters
by sequence number, answers and floods on; replies travel by IP (`mail`), may be lost
or reordered, and are stored by `RecvReply`. `Switch` turns the protocol off and on at an
interface and `Readdress` changes the length of replies. `handled` and `timed` are
histories for the properties.

`Nbrship`: hello jobs and adjacency expiry jobs are queued with pointers (`jobs`, whose
elements lose their `live` mark when the target is freed); commands act on a router, an
interface or all interfaces.

### Cli

`Command` walks the tree of parameters, collecting leaf values as TLVs; a handler
may stand at the end, or the walk enters a mode and moves the checkpoint (`mark`).
`DoCommand`, `ExitMode`, `EndMode`, `LoadFile` and `ShowHistory` are the other ways to use the
buffer. `holder` is what the parameter objects remember, `entered` the values that the user
gave for the present mode, `ran` the handlers that ran, with their buffer.

### IsisConfig and IsisOverload

`IsisConfig` complements `IsisAdjacency`: adjacencies are reduced to new, up, down
and forgotten, and the commands are in full: groups, members, dynamic mode, mapping to ARP
entries. Links are point-to-point: an interface has one neighbour at most, who may be
heard on several interfaces (`IsisAdjacency_group` shows what happens on LANs). `stale` holds interfaces whose adjacency was deleted while up; `meddled`
marks that a command put an interface into or out of a dynamic group.

`IsisOverload` has the status, the configured time, the timer, the queued expiry
jobs, LSP generation and the two-step shutdown. `raced` marks that a command met a
queued job or the shutdown.

Variables such as `raced`, `meddled`, `stale`, `silent` and `spoiled` are history: the code has
no such state. Behaviours go on after they are set (but for `spoiled`, where
the buffer no longer means anything). They delimit what a property
promises, and section 5 says what happens beyond.

### IsisAdjacency

Handlers run on the dispatcher, so each is one step, its trailing calls included
(timers, counters, groups, reconciliation, scheduling of LSP generation). A timer
has three values: off, armed, and fired (its wheel element still allocated, its
job queued). `job` holds the queued job of an adjacency, and becomes "dangling"
when the adjacency is freed under it. A timer fires only if no job of that
adjacency waits: the dispatcher's backlog is shorter than a timer interval (the
intervals are seconds). Data are abstracted to what decisions depend on: the
address of a neighbour (`ip`), a change of its MAC address, and one attribute that
stands for those that only cause a new LSP (`soft`). Other routers are an
environment that sends any hello at any time; silence is the absence of hellos.

`arp` is the router's ARP table as far as ISIS matters to it, by address as in `arp.c`: for
which adjacency ISIS made the entry, if it did, and whether the entry is unresolved. An
add replaces the entry of the address, whoever made it (`Entered`), and the deletion takes
away any entry that ISIS made (`Cleared`), be it another adjacency's. Where the data plane
sends to an address (`Resolving`), it may find no entry and make an unresolved one
(`Resolve`), which an ISIS add takes over and leaves unresolved and which an answer or
its expiry ends (`Settle`). `Nets` says which addresses a neighbour may have, so that two
neighbours of a LAN can take over each other's. Entries that ARP itself has resolved
are not kept apart from absent ones: ISIS may replace them and never deletes them.

`broken` tells how the process died: a failed assertion, a NULL pointer, freed
memory. The invariants speak of behaviours before that, and `AssertsHold` says
that no assertion fails.

### IsisFlooding

A topology of routers, each with its adjacencies (reduced to none, DOWN and UP),
database, transmit queues and reconciliation. The simulator is one process, so the
model has one list of jobs, first in first out, for all routers, and one queue of
packets in flight. That queue is a stack: `pkt_q_enqueue` inserts at the head and
the receive job takes from the head, so LSPs overtake each other. A job is one step
(`Generate`, `Transmit`, `RunSpf`; `isis_run_spf` computes nothing, so `RunSpf` only lets
go of its task), except the receive job, one step per packet
(`Receive...`, by the case of `isis_install_lsp` it meets), with which timers and
commands may interleave. An `isis_lsp_pkt_t` is a record on its router's heap with
its explicit reference count; addresses are named after the contents so that
equal heaps are equal states. `Deref` and `GiveUp` let references go and free at zero,
`Replace` and `Forget` change a database, and `Waiting` and `Without` look at a transmit
queue and take one place out of it. An LSP's body is the set of adjacencies, the on-demand
flag and the purge flag. Helpers that update several of heap, queues, count and
jobs pass a context through the calls a handler makes.

Time enters in three assumptions, since jobs take no time next to timers of seconds:
reconciliation floods and ends (`ReconFlood`, `ReconExit`) when no job and no hello
exchange is under way; an LSP expires (40 minutes) when no job is; and the
periodic flood (20 minutes) comes when nothing else is left to happen. One last
reconciliation flood stands for all. A hello exchange that brings an adjacency up
is one step (`AdjUp`), its details being `IsisAdjacency`'s.

`broken` tells that an assertion failed or a NULL pointer was followed; the model
stops there and the invariants speak of what comes before.

## 3. The runs

| run | question | bounds and why they are enough |
|---|---|---|
| `EventDispatcher_race` | what holds with all four kinds of threads and spurious wakeups? | one thread of each kind, two jobs, two packets: every pair of threads can meet at each unlocked gap; two packets make the queue longer than one service |
| `EventDispatcher_live` | is everything served, without external packets? | as above, with fairness; deadlock is checked |
| `EventDispatcher_doubleInsert` | does the claim of serialisation hold with a receiver thread? | smallest instance |
| `Libraries` | do the libraries keep their promises? | below |
| `Services` | do the routers' services? | below |
| `WheelTimer_assert` | does the assertion of the reschedule list hold? | one element |
| `IsisAdjacency_parallel` | parallel links to one neighbour, all commands | two interfaces, each with a subnet and one address for the neighbour, two values of the other attributes, six hellos, two commands: both links come up, or one comes up, changes its MAC address and comes up again; addresses that change are in the run on a LAN |
| `IsisAdjacency_lan` | two neighbours on a LAN that share an address and the ARP table with the data plane, liveness | one interface, two neighbours, each with an address of its own and one that both may have and that ARP may be resolving; five hellos: one comes up with the shared address, the other takes it over and the first goes down |
| `IsisAdjacency_group` | do the group assertions hold on a 2 x 2 topology? | two interfaces, two neighbours |
| `IsisAdjacency_upCount` | does the counter count? | one adjacency |
| `IsisFlooding_pair` | do counts, sequence numbers and databases survive loss, shutdown, restart, clear? | two routers with dynamic groups, symmetric; one loss of an adjacency or command, at any moment of the start-up or after it; what follows from it (hold times, restart, expiry) is free |
| `IsisFlooding_line` | does on-demand flooding alone synchronise routers that start? | three routers in a line, so that the middle one relays; one with dynamic groups, two without; started, enabled and heard in every order |

Subjects of `Libraries`:

| subject | instance |
|---|---|
| wheel | two elements, a wheel of two slots, intervals 1 and 3 (less and more than a turn): an element wraps, is placed before and behind another, shares a slot; with and without overlap |
| heap | a page of ten units, headers of 3 and 2, two families, at most three live blocks: blocks split with and without a fragment, merge on either side, a second page comes and goes |
| tree | twelve nodes, two with one key: every rotation at height three |
| list | two heads, four elements, six calls, one of them a loop |
| paths | nine routers, two roots, up to four equal-cost hops, three changes of metric or state |
| database | a triangle with a parallel link, five LSPs in any order of their neighbours |
| line | one branch of the command tree with two modes, negation and handlers at every depth; two values |

Subjects of `Services`:

| subject | instance |
|---|---|
| table | two interfaces, three prefixes (direct, configured with and without a gateway, and found by SPF, overlapping), two next hops, four changes, one flash request |
| plane | three routers in a line, two pings to a neighbour, a distant router, nobody (with a loop of routes), a distant interface, oneself; TTL 3; one shutdown of an interface, one entry written by ISIS |
| bridge | two switches, a trunk, five hosts, two VLANs, a port without VLAN and one that routes; three frames, one command |
| capture | three routers in a triangle (so that floods meet), three queries, one command, one lost reply |
| neighbours | two interfaces, two neighbours, three hellos, five commands |
| settings | three interfaces, two to one neighbour; two configured groups; five commands or adjacency events that matter |
| overload | times 0, 1 and 2, six commands, two queued jobs |
| timers | periodic and with back-off; five calls, two notification threads at a time |
| chains | three nodes that share the global chains |

In each the bounds let every pair of events that can interfere come in both orders,
and one more event show the consequence.

`MaxPkts`, `MaxOps`, `MaxCancels`, `MaxCycle`, `MaxJobs`, `MaxHellos`, `MaxConfigs`, `MaxEvents`,
`MaxChanges`, `MaxFlash`, `MaxPings`, `MaxDowns`, `MaxIsis`, `MaxSends`, `MaxQueries`,
`MaxCommands`, `MaxLosses`, `MaxSteps`, `MaxCalls`, `MaxBackoff` and `MaxLive` are
bounds on counters and queues that the code does not bound; each occurs in a
guard, named, and a behaviour that reaches it just does not do more. `MaxNextHops`,
`MaxIntf` and `Ttl` are limits of the code, with small values.

What the runs show, beyond types:

* dispatcher: no lost wakeup (`NoLostWakeup`), no stranded packet
  (`NoStrandedPacket`), no dangling handle (`HandleSound`), no freed task listed or run
  (`TasksSound`); without receiver threads no corruption at all (`Intact`), and
  synchronous calls return (`SyncReturns`) after their job has run (`SyncDone`);
* wheel (`WheelSound`): nothing overdue or out of order (`NothingOverdue`), links sound
  (`LinksSound`), no request lost (`NoLostTimer`), the reported remaining time right
  (`RemainingSound`); without overlap the abstract service is implemented
  (`ImplementsService`);
* libraries: blocks never overlap and free lists are exact (`HeapSound`), the tree is a
  balanced search tree (`TreeSound`), pointers spell the lists and walks see them
  (`ListsSound`), timer states and kernel timers agree (`TimerSound`), SPF results
  satisfy Bellman's equations and hops lie on shortest paths (`SpfSound`), TED links join
  what the LSPs name (`TedSound`), each subscriber is called once (`DeliveredOnce`);
* table (`RoutesSound`): lists of routes sound (`ListsSound`), routes freed once
  (`RoutesFreed`), direct routes kept (`DirectKept`); subscribers know the table
  (`ViewSound`);
* data plane (`DataPlaneSound`): each packet is in one place (`PacketsKept`), ARP entries
  are timed and true (`EntriesSound`), packets drop for the known reasons only (`DropsSound`);
* switch (`SwitchSound`): VLANs isolated (`IsolationSound`), MAC tables right
  (`LearningSound`);
* DDCP (`DdcpSound`): floods reach everyone once (`FloodSound`), latest replies kept
  (`RepliesSound`); neighbourship: adjacencies, hellos and timers belong together
  (`NbrshipSound`); command line: handlers get the values of their path (`ContextSound`);
* ISIS on one router: `AdjSound`, which is that timers match states (`TimersSound`), both
  ends of group membership agree (`GroupsSound`), an ARP entry of ISIS leads to a
  neighbour that is up and has that address, and a neighbour that is up has its entry
  unless another neighbour or ARP may have had its address (`MappingSound`), reconciliation and its timer agree (`ReconSound`) and no
  assertion fails (`AssertsHold`); `LspSound`: the LSP is complete when nothing
  is pending (`LspComplete`) and flooding reaches a neighbour with parallel links
  (`FloodReaches`); reconciliation ends (`ReconEnds`), silent neighbours are
  forgotten (`SilentForgotten`);
* ISIS commands (`IsisSound`): groups, their order and mapping follow the adjacencies
  (`MembersSound`, `ActiveFirst`, `MapSound`), overload is timed and advertised
  (`OverloadSound`);
* flooding: every LSP is referred to exactly as often as it counts
  (`RefCountSound`), the own sequence number is never behind the database
  (`OwnSeqSound`), demands for floods end (`DemandEnds`), routers that start are in step without the
  periodic flood (`BootSync`), and after any event they are once each router has flooded again
  (`Converged`). No sequence number is bounded in the model: that the runs end
  at all shows that the routers stop flooding each other.

### Fairness

`EventDispatcher`: weak fairness of the dispatcher and of each thread's step inside
the scheduler: the operating system schedules runnable threads, and a callback
makes finitely many calls. No thread must submit anything. A synchronous caller
wakes only by a signal. `IsisAdjacency`: armed timers fire and queued jobs run, which is what the two
components below promise (`ImplementsService`, `JobsRun`); hellos and commands need never come.
`WheelTimer` has no liveness property: a tick is the environment. Nor have the
subjects of `Libraries` and `Services`: what they promise is safety, and their bounds
would end a behaviour before a promise is due.

## 4. The proofs

Each module `XProofs` proves about module `X`, for every value of its constants, from
the assumptions that `X` declares and nothing else; `TLC` evaluates them on every
run. They say that bounds are natural numbers, that sets which the
program holds in memory are finite where a cardinality is taken, that NULL is
no address, and, in `Services`, what a topology is: an interface has one node and one
link with two ends, a host has one port, ports between switches are trunks whose mode
nobody configures, a timer has a first interval that is not 0 (`timer_callback_wrapper` asserts
it), and there are two switches with one link between them, of which alone
`LearningSound` speaks. An invariant that a run checks is seldom inductive; the invariant that is,
called `IInv` or built in layers, was checked with TLC before it was proved.

| theorem | property | checked by run |
|---|---|---|
| `EventDispatcherProofs`: `TypeCorrect`, `NeverSleepsOnTask`, `NeverStrandsPacket`, `TasksStaySound`, `HandleNeverDangles` | `TypeOK`, `NoLostWakeup`, `NoStrandedPacket`, `TasksSound`, `HandleSound` | `EventDispatcher...` |
| same: `AloneStaysIntact`, `AloneSyncDone` | `Intact`, `SyncDone`, without receiver threads and spurious wakeups | `EventDispatcher...` |
| `WheelTimerProofs`: `TypeCorrect`, `WheelStaysSound` | `TypeOK`, `WheelSound` | `Libraries` |
| same: `Implements` | `ImplementsService`, the refinement of `TimerService` | `Libraries` |
| `IsisAdjacencyProofs`: `TypeCorrect`, `BookkeepingSound` | `TypeOK`; the five parts of `AdjSound` and `LspSound` that hold on every topology | `IsisAdjacency_parallel` |
| same: `AdjStaysSound`, `LspStaysSound` | `AdjSound`, `LspSound`, under `ParallelPointToPoint` | `IsisAdjacency_parallel` |
| `IsisFloodingProofs`: `TypeCorrect`, `RefCountsExact`, `OwnSeqStaysSound`, `DemandsEnd` | `TypeOK`, `RefCountSound`, `OwnSeqSound`, `DemandEnds` | `IsisFlooding_pair` |
| `ServicesProofs`: `NbrshipStaysSound` | `NbrshipSound` | `Services` |
| same: `IsisStaysSound` | `IsisSound`: `ConfigSound` and `OverloadSound` | `Services` |
| same: `TimersStaySound`, `DeliveriesStayOnce` | `TimerSound`, `DeliveredOnce` | `Services` |
| `NetworkProofs`: `QueriesStaySound`, `SwitchesStaySound` | `DdcpSound`, `SwitchSound` | `Services` |
| `RouteTableProofs`: `TypeCorrect`, `RoutesStaySound`, `ViewStaysSound` | the types; `RoutesSound`, `ViewSound` | `Services` |

### EventDispatcher

The invariants are proved in layers, each using those before it:

* `TypeInv` adds to `TypeOK` that the pending count is at least the length of the list
  (so that it cannot go below zero) and that a thread inside the scheduler has a
  task in hand.
* `SleepInv` says what a sleeping dispatcher looks like: an empty list, the state
  idle and no signal marked as sent, so that the next `Add` must signal.
  `NoLostWakeup` alone is not inductive: whether `Add` wakes depends on the two flags.
* `PacketInv` adds to `NoStrandedPacket` that a dispatcher that schedules after the
  callback of the packet task schedules that very task: it looked at its queue once
  more and asked for itself.
* `HeapInv` gives each one-shot task one place at a time: in the hands of the one
  thread that schedules it, on the list, or running. That a task is listed once
  follows from it.
* `AloneInv` adds, without receiver threads, that only the dispatcher schedules the
  packet task, so that what its unlocked tests saw still holds when it takes the
  lock.

### WheelTimer

`IInv` is `TypeInv` (a call in progress names an element and an interval; the wheel
thread has an element in hand where it processes one) and, until something breaks,
`Safe`. `Safe` says for each slot that its elements are in the order of their rounds
(`SlotsOrdered`), and for each element in a slot that it is due after the clock and at
most its interval away, except in the middle of the walk of its slot (`DueSound`);
for the lists that an element is in one place (`ListSound`); and, as long as no call has
overlapped a tick, that a call knows its element and that a request is listed, in hand
or done (`CallSound`, `AllKept`). `WheelSound` alone does not tell that an element
is in the slot of the tick it is due at, which the insertion computes with a
remainder; that is arithmetic on `Nat`, kept in lemmas of its own.

`Implements` maps an element to the time it has left: its due tick less the clock. Each
step maps to the action of `TimerService` with the same effect (`Open`, `AskArm`, `Arm`,
`Tick`, `Run`, ...) or to a stutter; the refinement is claimed, as in the run, while calls and ticks do not overlap.

### IsisAdjacency

`IInv` is `TypeInv` and, until an assertion fails, `Safe`, whose parts are named for
what they relate: the list of an interface and the states (`ListSound`), jobs and states
(`JobSound`), timers and states (`AdjTimers`), hellos and interfaces (`Qualified`), an
interface and its group in both directions (`Membership`, `MemberOnce`, `GroupAlive`),
ARP entries of ISIS and states (`Mapping`: an entry leads to a neighbour that is up and
has its address, and every private address that is up is entered), reconciliation and its timer (`ReconTimer`,
`FloodMode`), and the LSP and the adjacencies (`Complete`).

The theorems on assertions need a hypothesis on the topology, `ParallelPointToPoint`: a
neighbour heard on two interfaces is alone on each. It is not for convenience: the run
`IsisAdjacency_group` shows the assertion of `isis_intf_group.c` failing where it does not
hold. Under it `PInv` is inductive next to `IInv`: every adjacency has its group
and is its member (`Grouped`), and in a group the members that are up stand before the
others (`Ordered`), so that the first one, which flooding takes, is up if any is.

### IsisFlooding

`IInv` is `RInv` and `Carrier`. `Carrier` says that the reception job is listed once at most
and only with packets to receive. `RInv` speaks of each router apart:

* `Ctx`: with m(p) the references to p that self_lsp_pkt, the transmit queues and the
  handler in progress hold, each object's count is m(p), plus one if it is in the database;
  an object with references exists; the database has one LSP of each router. All places of
  the queues are fewer than `pending_lsp_flood_count` says: it is not decremented when an
  interface is disabled, and must not go below zero.
* `Told`: the own LSPs of the database are not newer than `seq_no`; a router that is off has
  no LSP of others left; and the own LSP does not demand floods outside reconciliation, unless its replacement is due.

`RefCountSound` alone is not inductive, for a handler holds an object while it replaces
another, floods it and then lets it go: the operators on a heap (`New`, `Install`,
`Evict`, `Deref`, `EmptyDb`) have a lemma each, stated for any m, and a handler is a
chain of them. The operators take no fold and no recursion but one recursive function
(`Without`), about which the module argues by a least counterexample.

`Moves` is the lemma that all actions share: a step of router r that leaves r with a sound
context and told, the queues of the others alone, and their jobs listed, keeps `RInv`.

### Services

`ServicesProofs` proves each service by its own invariant: `SubjectStep` says that a step of
the specification is a step of the subject or leaves its variables alone, so each theorem is
about one instance (`Settings!Next`, ...).

* Neighbourship: `HelloInv` (hellos and their timer run exactly where the protocol is on),
  `AdjInv`, `JobInv` (the data of a hello job exists while its interface sends hellos) and
  `CountInv`. The last one counts commands: `NbrshipSound` allows a job with freed data
  only after three of them, and a job loses its data no sooner than a node, its
  interface and then a second time the interface were configured.
* Overload: `OverloadSound` is inductive once the values of the variables are known: a
  router that has not been told of overload has no timer, so a job that runs finds its
  timer, unless `StopTimer` or `StartTimer` met a queued job.
* Groups and mapping: `ConfigSound` speaks of dynamic groups nobody meddled with, but the
  commands switch between the two kinds of groups. `CfgInv` has, in every mode, the two ends
  of membership (`CfgListed`), that members that are up precede the others but for the
  `stale` ones (`CfgOrdered`), which groups exist and whose members they have
  (`CfgGroups`), and that a stale member is in a group of another name (`CfgStale`). A
  handler moves one interface between groups (`CfgMoved`, one lemma for all of them); turning
  to dynamic groups visits every interface (`Built`, a recursive function), and what it
  has built is proved for every number of interfaces it has visited.
* Timers: `TimInv` says that, while nobody interferes with a wrapper, one wrapper at most
  runs, and only of a timer that is running or resumed; and it counts: the counter has
  all callbacks made and the one about to be made, and stays within the threshold.
* Notification chains: `ChaInv` says of each chain that no element is on it twice and that its
  elements are those of the protocols that are on, whatever the order of the commands.

### Network

* DDCP: a router notes a query before it floods it, so every query on its way has been noted
  by the router that sent it (`CapSeen`), what a router has handled it has noted
  (`CapHandled`), and every enabled link from a router that has the latest query of an
  originator leads to one that has it too, or a copy is on the wire (`CapFlooded`). When nothing
  is on the wire the routers that know the query are therefore a set closed under enabled
  links, and contain every router connected to the originator. `CapStored`, `CapKept` and
  `CapAnswered` relate stored replies, those in the mail and what was handled; the
  stack on which queries overtake each other needs no more than that.
* Switches: `BrIsolated` has the isolation of VLANs for any number of commands and frames, on
  any number of ports: a frame between switches carries the tag of the VLAN it came
  in by (`BrCarried`), a port keeps the VLANs its mode allows (`BrModes`), and a MAC table names
  ports in layer-2 mode only (`BrLearnt`), which is why no frame meets the assertion of
  `l2_switch_send_pkt_out`. `LearningSound` is not inductive. While hosts wait for each other,
  the packets on the way are copies of one frame, for different ports and hosts, none of whom
  has it or sent it (`BrCopies`); and a switch that is still to get the frame is the only
  one, on the port toward its source, neither it nor its hosts have seen the frame, and the
  switch it comes from has learnt the source and does not expect the destination elsewhere
  (`BrToSwitch`). The last part is what keeps a frame from being returned: were the
  destination learnt on the link, the other switch would know it as its own.

### RouteTable

Everything that changes the table touches one route and puts it in front of the
notify list; SPF is a chain of such changes that clears the table and adds next
hops. The lemma `Touch` says once what a touch does to a table `t`, and
`Reaches(t, u, P)` what any chain of them keeps: `u` is typed and sound, no direct
route is lost but those of the prefixes `P` (`Kept`), whatever changed is on the notify
list (`Tells`), and the jobs and the flash list are not lost (`Carries`). It is
reflexive and composes (`ReachesOn`), so each operation is one lemma (`InsertSteps`,
`ExtendSteps`, `WithdrawSteps`, `ClearSteps`, `HopsSteps`, `InstallSteps`) and each loop an
argument by a least counterexample. The loops are functions that the model defines by
recursion; that they exist is proved first (`ClearingExists` and the three like it).

`RoutesSound` and `ViewSound` are not inductive. `IInv` adds that a route of the table
is not marked deleted and that one outside it is and waits on the notify list
(`Leaving`), and `Latest`: of the announced routes with the prefix of a route of the
table, that one is announced last. This is why a deletion and a new route of the same
prefix, two objects on one list, reach a subscriber in the right order, and what
`ToldIsCurrent` needs: after the job the subscriber knows what the table holds.
`Flashed` keeps, for the assertions of `l3_route_free`, that the flash list is empty until
somebody requests a flash. `SpareLeft` counts: a run of SPF needs one free route at most per
node, whatever the number of its next hops.

### ListLemmas

Lemmas on the sequence operators of the community modules, which the proofs cite by name.
`SelectSeq` and the folds cannot be expanded by the prover, and the library's induction
theorems take an operator as a parameter, so the modules that are proved about use
neither; `Least` (a set of naturals that is not empty has a least element) and `UpTo` (a set
with 0 and with the successor of each member below n has every number up to n) replace
induction, and `StepsExist` shows that a function defined by recursion on 0..n exists.
`ListedElements` says of a finite set written as a sequence that it has the elements of the
set, each once, and `ConcatElements` what two sequences joined have: a flood is such a sequence
put before the frames on their way.

### What is only model-checked

* Liveness under fairness and ENABLED (`EventDispatcher`, `IsisAdjacency`): beyond the prover.
* `Converged` and `BootSync` of `IsisFlooding`: they hold of quiet states only, and what brings
  a topology there is a history of all its routers.
* What `AvlTree`, `Spf`, `Glthread` and `Cli` compute for every input: that is induction over data, and
  these modules declare RECURSIVE operators.
* `DataPlane` of `Services`, and `MemoryManager` and `Ted` of `Libraries`.

## 5. Disagreements found

Four runs expect a violation; each shows the code doing what a comment, an
assertion or a document of the repository excludes (details in `PROJECT.json`):

1. `EventDispatcher_doubleInsert`: the packet task is tested, asserted and inserted
   in three separate steps, so a receiver thread and the dispatcher can list it twice.
2. `WheelTimer_assert`: deregistering an element whose request is being applied
   makes the wheel thread arm it with interval 0.
3. `IsisAdjacency_group`: with two neighbours on two LANs the group of a neighbour is
   freed early, and deleting the other adjacency fails an assertion.
4. `IsisAdjacency_upCount`: a missing `break` decrements the count of adjacencies that
   are up when one goes from INIT to DOWN; from 0 it wraps.

Known and reachable in the model, with no sentence of the repository to contradict:
timer jobs that outlive their adjacency or its timer (`broken` = "uaf", "null"), an
adjacency that is up deleted by a stale delete job with no new LSP, on-demand
flooding switched off and on leaving no periodic timer to reschedule. The ARP table is
keyed by address alone: when a neighbour has taken over the address of a silent one, the
silent one's expiry deletes the entry of the neighbour that is up, which has none until
it comes up again (`MappingSound` excepts it, by `Private`); an entry taken over while ARP
resolves it stays unresolved.

From `IsisFlooding`: a shutdown whose purge LSP is queued on no interface (grouped
interfaces whose adjacencies are down), or whose queue was emptied by disabling the
interface, never ends, and ISIS cannot be started again; an adjacency that goes
down, or a clear, while a router is stopping reschedules a timer that is gone; a change of
the own LSP schedules no SPF (a comment at `isis_lspdb.c:385` says it was
scheduled before; it would make no difference, as `isis_run_spf` is empty); after a flap during
reconciliation the databases agree only after the periodic flood.

From the other modules, where the model takes the behaviour over as it is:

* `RouteTable`: an address whose prefix has a route with next hops compares with a
  gateway that is NULL; two interfaces in one subnet share one direct route, which goes
  with the first; a configured route over a direct one makes it indirect, and the next SPF
  run clears it, as it clears every static route; a flash request before a
  deletion fails an assertion of `l3_route_free` (`nfc_ipv4_rt_request_flash` has no
  caller).
* `DataPlane`: a packet in transit to a host of an attached subnet is dropped; one to
  an own interface, or a second one while ARP resolves, leaves with a MAC address of
  zero; an unresolved entry that ISIS means to fill stays unresolved; an expiry
  job deletes the entry that was refreshed while it waited;
  `arp_entry_create_expiration_timer` returns nothing and its value is stored.
* `L2Switch`: since later frames overtake earlier ones, a flooded frame can be returned
  to its port, learnt there and delivered twice; there is one MAC table for all VLANs,
  with no ageing; leaving layer-2 mode and removing a VLAN are empty functions.
* `Ddcp`: a stored reply is freed with the size of the new one; disabling the protocol
  leaves its timers and registrations.
* `Nbrship`: stopping hellos frees the data of a queued job; an expiry job deletes an
  adjacency that was learnt again; adjacencies survive the disabling of the router
  until they expire.
* `MemoryManager`: the page of a new family is not remembered when the first page of families is
  full; there is no lock although two threads allocate.
* `Spf`: `union_nexthops` advances both indices and overwrites slots, so equal-cost
  next hops get lost, with their references; `no metric v` for the current `v`
  restores the default and tells nobody; sums of metrics wrap at 2^32.
* `TimerLib`: cancelling or pausing during the callback of an exponential timer is
  undone by its wrapper, deleting fails an assertion; starting after a cancel arms
  nothing and says RUNNING.
* `Ted`: on a LAN, two neighbours with one interface index steal each other's link; fake
  routers are never deleted, so the last assertion of `isis_cleanup_teddb_root` can fail.
* `NotifChain`: `init_spf_algo` computes on the main thread after the dispatcher has
  started.
* `Cli`: `config /` puts the checkpoint behind the code of the command, so that later
  commands carry one code too many; loading a file in a mode loses the values of the mode;
  `show history` parses again on the dispatcher thread, whose synchronous job never
  runs; entering a mode by `/` calls the application on the command line's thread.
* `IsisConfig`: commands on members accept dynamic groups, after which an assertion can
  fail; an interface whose adjacency is deleted while up stays at the head of its
  group, and LSPs for the group go nowhere.
* `IsisOverload`: an expiry job queued before its timer was stopped follows a NULL pointer or ends
  an overload that has just begun; setting a time during the shutdown restarts the
  timer, whose absence is asserted; time 0 leaves the router overloaded for good.

## 6. Plan

Done: the dispatcher, timers, wheel and abstract service; ISIS adjacencies, flooding, groups
and overload; the services of layers 2, 3 and 5; the libraries; the command line. Proved: the safety of
the dispatcher, the wheel with its refinement, ISIS adjacencies, flooding, groups, commands and
overload, neighbourship management, the routing table, the timer library, the notification
chains, DDCP and the switches.

Left, in this order:

1. theorems on `DataPlane` (`PacketsKept`) and `MemoryManager` (`HeapSound`);
2. an abstract specification of flooding (every database converges to the
   newest LSP of each router) and its refinement;
3. progress of a shutdown, queued hello jobs of ISIS, ticks that overlap each other;
4. longest prefix match on binary prefixes, matching of abbreviated commands;
5. compositions: `RouteTable` with `Spf`, `L2Switch` under `DataPlane`.

Not modelled and not planned: printing and tracing, the builders of topologies (fixed
data, before the threads start), the packet generator and the client (other programs), the
runner of command tests; empty layer 4; spanning tree (not in the Makefile, half
of its functions without a body), the state machine library (linked, never called) and
bit arrays (included nowhere).
