------------------------------ MODULE NotifChain ------------------------------
(***************************************************************************)
(* Notification chains (notif.c) and the protocols that register on them:  *)
(* the layer-2 chain of a node (layer5.c), its netfilter hook LOCAL_IN     *)
(* (netfilter.c), its route updates, and the chains of the process for     *)
(* interface events and for the tracing of packets (tcpip_notif.c).  A     *)
(* chain is a sequence, the element registered last in front.              *)
(***************************************************************************)
EXTENDS Naturals, Sequences, SequencesExt

CONSTANT Nodes

VARIABLES
  l2,      \* per node, layer2_proto_reg_db2
  localIn, \* per node, the hook NF_IP_LOCAL_IN
  routes,  \* per node, nfc_rt_updates
  events,  \* nfc_intf
  tracing, \* nfc_print_pkts
  isis,    \* per node "off", "on", "shutdown"
  nmp,     \* nodes on which neighbourship management is enabled
  nmpOnce  \* "initialized" in nbrship_mgmt_init

vars == <<l2, localIn, routes, events, tracing, isis, nmp, nmpOnce>>

NoRule == "no rule"
NoKey  == "no key"
Elem(cb, rule, key) == [cb |-> cb, rule |-> rule, key |-> key]
IsisPkt   == Elem("isis_pkt_recieve", "isis", NoKey)
NmpPkt    == Elem("process_hello_msg", "nmp", NoKey)
DdcpQuery == Elem("ddcp_process_ddcp_query_msg", "query", NoKey)
DdcpReply == Elem("ddcp_process_ddcp_reply_msg", "reply", NoKey)
IsisRoute == Elem("isis_ipv4_rt_notif_cbk", NoRule, NoKey)
Plain(cb) == Elem(cb, NoRule, NoKey)
Keyed(cb, key) == Elem(cb, NoRule, key)

------------------------------------------------------------------------------
(* notif.c *)

\* nfce_compare: by key if both have one, else by the two callbacks
Same_key(a, b) == a.key = b.key  \* mutant: the callbacks are not compared
Same(a, b) ==
  IF a.key # NoKey THEN a.key = b.key
  ELSE b.key = NoKey /\ a.cb = b.cb /\ a.rule = b.rule

Register(chain, e) == <<e>> \o chain
Matches(chain, e) == {i \in DOMAIN chain : Same(e, chain[i])}
Deregister(chain, e) ==
  IF Matches(chain, e) = {} THEN chain
  ELSE RemoveAt(chain, CHOOSE i \in Matches(chain, e) : \A j \in Matches(chain, e) : i <= j)

\* nfc_invoke_notif_chain: whether e is called for a packet or key k.  Its rule
\* decides alone; a key is compared when the caller gives one.
Calls(e, k) == IF e.rule # NoRule THEN e.rule = k ELSE k = NoKey \/ e.key \in {NoKey, k}
Called(chain, k) == {i \in DOMAIN chain : Calls(chain[i], k)}

------------------------------------------------------------------------------
(* The protocols *)

\* create_graph_node, tcp_ip_default_traps.c and init_tcp_ip_stack
Init ==
  /\ l2 = [n \in Nodes |-> Register(<< >>, DdcpQuery)]
  /\ localIn = [n \in Nodes |-> Register(<< >>, DdcpReply)]
  /\ routes = [n \in Nodes |-> << >>]
  /\ events = Register(Register(<< >>, Plain("spf_algo_interface_update")),
                       Plain("isis_interface_updates"))
  /\ tracing = Register(<< >>, Keyed("isis_print_pkt", "isis"))
  /\ isis = [n \in Nodes |-> "off"] /\ nmp = {} /\ nmpOnce = FALSE

\* isis_init, ignored while the shutdown of an earlier one goes on
IsisInit(n) ==
  /\ isis[n] = "off" /\ isis' = [isis EXCEPT ![n] = "on"]
  /\ l2' = [l2 EXCEPT ![n] = Register(@, IsisPkt)]
  /\ routes' = [routes EXCEPT ![n] = Register(@, IsisRoute)]
  /\ UNCHANGED <<localIn, events, tracing, nmp, nmpOnce>>

\* isis_de_init; a second one during the shutdown goes the same way
IsisDeInit(n) ==
  /\ isis[n] # "off" /\ isis' = [isis EXCEPT ![n] = "shutdown"]
  /\ l2' = [l2 EXCEPT ![n] = Deregister(@, IsisPkt)]
  /\ routes' = [routes EXCEPT ![n] = Deregister(@, IsisRoute)]
  /\ UNCHANGED <<localIn, events, tracing, nmp, nmpOnce>>

IsisGone(n) ==
  /\ isis[n] = "shutdown" /\ isis' = [isis EXCEPT ![n] = "off"]
  /\ UNCHANGED <<l2, localIn, routes, events, tracing, nmp, nmpOnce>>

\* nbrship_mgmt_enable_disable_device_level, with nbrship_mgmt_init and its
\* registrations for the process, made once
NmpEnable(n) ==
  /\ n \notin nmp /\ nmp' = nmp \cup {n} /\ nmpOnce' = TRUE
  /\ l2' = [l2 EXCEPT ![n] = Register(@, NmpPkt)]
  /\ tracing' = IF nmpOnce THEN tracing ELSE Register(tracing, Keyed("nmp_print_hello_pkt", "nmp"))
  /\ events' = IF nmpOnce THEN events ELSE Register(events, Plain("nmp_interface_update"))
  /\ UNCHANGED <<localIn, routes, isis>>

NmpDisable(n) ==
  /\ n \in nmp /\ nmp' = nmp \ {n}
  /\ l2' = [l2 EXCEPT ![n] = Deregister(@, NmpPkt)]
  /\ UNCHANGED <<localIn, routes, events, tracing, isis, nmpOnce>>

Next ==
  \E n \in Nodes : IsisInit(n) \/ IsisDeInit(n) \/ IsisGone(n) \/ NmpEnable(n) \/ NmpDisable(n)

Spec == Init /\ [][Next]_vars

------------------------------------------------------------------------------
(* Properties *)

\* For a packet or key k just one element of the chain is called, with callback cb.
Reaches(chain, k, cb) == \E i \in DOMAIN chain : Called(chain, k) = {i} /\ chain[i].cb = cb
Iff(cond, chain, k, cb) == IF cond THEN Reaches(chain, k, cb) ELSE Called(chain, k) = {}
NoneTwice(chain) ==
  \A i, j \in Called(chain, NoKey) : chain[i].cb = chain[j].cb => i = j

\* Every packet reaches the protocol it is for, once, and only while that
\* protocol is enabled: never twice after it was disabled and enabled again,
\* and not once during its shutdown; a route update reaches a running ISIS
\* once; an interface event reaches every subscriber once, however many nodes
\* enabled the protocol; and a traced packet is printed by its protocol alone.
DeliveredOnce ==
  /\ \A n \in Nodes :
       /\ Iff(isis[n] = "on", l2[n], "isis", IsisPkt.cb)
       /\ Iff(n \in nmp, l2[n], "nmp", NmpPkt.cb)
       /\ Reaches(l2[n], "query", DdcpQuery.cb)
       /\ Reaches(localIn[n], "reply", DdcpReply.cb) /\ Called(localIn[n], "isis") = {}
       /\ Iff(isis[n] = "on", routes[n], NoKey, IsisRoute.cb)
  /\ NoneTwice(events) /\ Len(events) = IF nmpOnce THEN 3 ELSE 2
  /\ Reaches(tracing, "isis", "isis_print_pkt")
  /\ Iff(nmpOnce, tracing, "nmp", "nmp_print_hello_pkt")
  /\ NoneTwice(tracing)
=============================================================================
