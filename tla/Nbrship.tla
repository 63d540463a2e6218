------------------------------ MODULE Nbrship ------------------------------
(***************************************************************************)
(* Neighbourship management on one router (nbrship_mgmt.c): hellos sent by *)
(* a periodic timer, adjacencies learnt from the hellos of neighbours and  *)
(* kept by an expiry timer, and the commands that enable and disable the   *)
(* protocol on the router and on interfaces.  A timer that fires queues a  *)
(* job with the argument it was given.  A command, a job and the receipt   *)
(* of a hello are one step each.                                           *)
(***************************************************************************)
EXTENDS Naturals, SequencesExt, FiniteSets

CONSTANTS
  Intfs, Nbrs,   \* interfaces of the router; router ids of its neighbours
  MaxHellos,     \* bound on the hellos received
  MaxCommands    \* bound on the commands

VARIABLES
  node,     \* node_nw_prop.nmp, which is either absent or enabled
  intf,     \* per interface, intf_nw_props.nmp: "none", "off" or "on"
  hello,    \* per interface, the hello timer: it and its packet exist or not
  timer,    \* per adjacency: "none" (no adjacency), "armed" or "fired"
  jobs,     \* timer jobs queued: [kind, of, live]
  died,     \* "no", "assert" or "uaf"
  hellos, commands

vars == <<node, intf, hello, timer, jobs, died, hellos, commands>>

Adjs == Intfs \X Nbrs

Init ==
  /\ node = FALSE /\ intf = [i \in Intfs |-> "none"] /\ hello = [i \in Intfs |-> FALSE]
  /\ timer = [a \in Adjs |-> "none"] /\ jobs = << >> /\ died = "no"
  /\ hellos = 0 /\ commands = 0

------------------------------------------------------------------------------
(* Hellos and adjacencies *)

\* update_interface_adjacency_from_hello
Learn(a) == timer' = [timer EXCEPT ![a] = "armed"]

\* process_hello_msg: a hello that is not from the subnet of the interface
\* counts as bad.  Its trap rule is registered while the router is enabled.
RecvHello(i, n, good) ==
  /\ died = "no" /\ hellos < MaxHellos /\ hellos' = hellos + 1
  /\ IF node /\ intf[i] = "on" /\ good THEN Learn(<<i, n>>) ELSE UNCHANGED timer
  /\ UNCHANGED <<node, intf, hello, jobs, died, commands>>

Queued(kind, of) == \E k \in DOMAIN jobs : jobs[k].kind = kind /\ jobs[k].of = of

\* Timers fire.  A job waits less than the interval of its timer, 5 and 10
\* seconds.
HelloTimer(i) ==
  /\ died = "no" /\ hello[i] /\ ~Queued("hello", <<i>>)
  /\ jobs' = Append(jobs, [kind |-> "hello", of |-> <<i>>, live |-> TRUE])
  /\ UNCHANGED <<node, intf, hello, timer, died, hellos, commands>>

ExpiryTimer(a) ==
  /\ died = "no" /\ timer[a] = "armed" /\ ~Queued("expiry", a)
  /\ timer' = [timer EXCEPT ![a] = "fired"]
  /\ jobs' = Append(jobs, [kind |-> "expiry", of |-> a, live |-> TRUE])
  /\ UNCHANGED <<node, intf, hello, died, hellos, commands>>

\* transmit_hellos, with the packet and the data of the timer, which may be
\* freed; timer_expire_delete_adjacency_cb, with a copy of the key
Job ==
  /\ died = "no" /\ jobs # << >> /\ jobs' = Tail(jobs)
  /\ LET j == Head(jobs)
     IN /\ died' = IF ~j.live THEN "uaf"
                   ELSE IF j.kind = "hello" /\ intf[j.of[1]] = "none" THEN "assert" ELSE died
        /\ timer' = IF j.kind = "expiry" THEN [timer EXCEPT ![j.of] = "none"] ELSE timer
  /\ UNCHANGED <<node, intf, hello, hellos, commands>>

------------------------------------------------------------------------------
(* Commands *)

Command == died = "no" /\ commands < MaxCommands /\ commands' = commands + 1 /\ UNCHANGED hellos

\* nbrship_mgmt_activate_nmp_on_interface with schedule_hello_on_interface, on
\* every interface of S with interface state
Activate(S) ==
  IF node' THEN /\ intf' = [i \in Intfs |-> IF i \in S THEN "on" ELSE intf[i]]
                /\ hello' = [i \in Intfs |-> i \in S \/ hello[i]] /\ UNCHANGED died
  ELSE /\ intf' = [i \in Intfs |-> IF i \in S /\ intf[i] = "none" THEN "off" ELSE intf[i]]
       /\ died' = IF \E i \in S : intf[i] = "on" THEN "assert" ELSE died
       /\ UNCHANGED hello

\* nbrship_mgmt_deactivate_nmp_on_interface with stop_interface_hellos: the data
\* of a hello job in the queue is freed
Stopped(S) == {i \in S : intf[i] = "on"}
Deactivate(S) ==
  /\ hello' = [i \in Intfs |-> hello[i] /\ i \notin Stopped(S)]
  /\ jobs' = [k \in DOMAIN jobs |->
       IF jobs[k].kind = "hello" /\ jobs[k].of[1] \in Stopped(S)
       THEN [jobs[k] EXCEPT !.live = FALSE] ELSE jobs[k]]

\* nbrship_mgmt_enable_disable_device_level
EnableNode ==
  /\ Command /\ ~node /\ node' = TRUE
  /\ Activate({i \in Intfs : intf[i] # "none"}) /\ UNCHANGED <<timer, jobs>>
DisableNode ==
  /\ Command /\ node /\ node' = FALSE
  /\ intf' = [i \in Intfs |-> IF intf[i] = "on" THEN "off" ELSE intf[i]]
  /\ Deactivate(Intfs) /\ UNCHANGED <<timer, died>>

\* nbrship_mgmt_enable_disable_intf_nbrship_protocol, on one interface or on all
EnableIntf(S) ==
  /\ Command /\ UNCHANGED node /\ Activate(S) /\ UNCHANGED <<timer, jobs>>

DropAdjs_leave(S) == timer' = timer  \* mutant: delete_interface_adjacency is forgotten
DropAdjs(S) == timer' = [a \in Adjs |-> IF a[1] \in S THEN "none" ELSE timer[a]]
DisableIntf(S) ==
  /\ Command /\ UNCHANGED <<node, died>>
  /\ intf' = [i \in Intfs |-> IF i \in S THEN "none" ELSE intf[i]]
  /\ Deactivate(S) /\ DropAdjs(S)

Next ==
  \/ \E a \in Adjs, good \in BOOLEAN : RecvHello(a[1], a[2], good)
  \/ \E i \in Intfs : HelloTimer(i)
  \/ \E a \in Adjs : ExpiryTimer(a)
  \/ Job
  \/ EnableNode \/ DisableNode
  \/ \E S \in {{i} : i \in Intfs} \cup {Intfs} : EnableIntf(S) \/ DisableIntf(S)

Spec == Init /\ [][Next]_vars

------------------------------------------------------------------------------
(* Properties *)

\* Whatever the order of commands, jobs and hellos: hellos are sent exactly on
\* the interfaces that are on, which none is while the router is off (so no
\* assertion fails); an adjacency exists on configured interfaces only, also
\* when the router is off, and is forgotten unless its neighbour is heard again:
\* its timer runs or its expiry job is queued.  A job runs with freed data only
\* when hellos were stopped while it was queued.
NbrshipSound ==
  /\ died # "assert"
  /\ died = "uaf" => commands > 2
  /\ \A i \in Intfs : (hello[i] <=> intf[i] = "on") /\ (hello[i] => node)
  /\ \A a \in Adjs :
       /\ timer[a] # "none" => intf[a[1]] # "none"
       /\ timer[a] = "fired" => Queued("expiry", a)
=============================================================================
