---------------------------- MODULE IsisAdjacency ----------------------------
(***************************************************************************)
(* The ISIS adjacencies of one router: hellos, the expiry and delete       *)
(* timers and their jobs, interface configuration, dynamic interface       *)
(* groups, layer-2 mapping, reconciliation, and the generation of the      *)
(* router's own LSP.                                                       *)
(*                                                                         *)
(* Every handler runs on the dispatcher thread, so a handler is one step.  *)
(* A timer that fires only queues a job: the job runs later, after         *)
(* whatever was queued before it, with the argument it was given.          *)
(*                                                                         *)
(* An adjacency is named by its interface and neighbour.  Memory is        *)
(* modelled as far as jobs need it: a queued job whose adjacency is freed  *)
(* is "dangling".  "broken" says why the process died, if it did.          *)
(***************************************************************************)
EXTENDS Naturals, Sequences, SequencesExt, FiniteSets

CONSTANTS
  Intfs, Nbrs,   \* interfaces of the router; router ids of its neighbours
  Links,         \* which neighbour can be heard on which interface
  Ips,           \* IP addresses of the neighbours' interfaces
  Nets,          \* per adjacency: the addresses the neighbour may have there
  Resolving,     \* addresses the data plane sends to, and so resolves itself
  Softs,         \* values of its other attributes (name, if index, metric)
  NULL,
  MaxHellos,     \* bound on the hellos received
  MaxConfigs     \* bound on the configuration commands

ASSUME AdjacencyAssumption ==
  /\ Links \subseteq Intfs \X Nbrs /\ IsFiniteSet(Links) /\ NULL \notin Nbrs \cup Links
  /\ Ips # {} /\ Softs # {} /\ Resolving \subseteq Ips
  /\ Nets \in [Links -> SUBSET Ips] /\ \A a \in Links : Nets[a] # {}
  /\ MaxHellos \in Nat /\ MaxConfigs \in Nat

VARIABLES
  state,         \* per adjacency: "none" (no object), "DOWN", "INIT", "UP"
  ip, soft,      \* per adjacency: nbr_intf_ip; the other attributes
  exp, del,      \* expiry_timer, delete_timer: "off", "armed", "fired"
  job,           \* per adjacency: the timer job in the dispatcher's queue
  list,          \* per interface: adj_list_head, first adjacency first
  enabled, up, l3, hello,  \* per interface: isis_intf_info, is_up,
                 \* is_ipadd_config, hello_xmit_timer # NULL
  grp,           \* per interface: intf_grp, or NULL
  groups,        \* intf_grp_avl_root: the groups, by neighbour
  members,       \* per group: intf_list_head
  upCount,       \* adjacency_up_count, a uint16_t
  arp,           \* the ARP table, by address: the adjacency an entry of ISIS
                 \* was made for, if it is one, and whether it is unresolved
  recon, reconTimer, reconJob,  \* reconc, and the job of its timer
  onDemand, periodic,  \* on_demand_flooding; periodic_lsp_flood_timer # NULL
  lost,          \* a periodic timer runs that no pointer leads to
  genTask,       \* lsp_pkt_gen_task # NULL
  lsp,           \* self_lsp_pkt: the adjacencies and attributes advertised
  broken,        \* "no", "assert", "null" or "uaf"
  hellos, configs

adjVars   == <<state, ip, soft, exp, del, list>>
intfVars  == <<enabled, up, l3, hello>>
grpVars   == <<grp, groups, members>>
reconVars == <<recon, reconTimer>>
nodeVars  == <<onDemand, periodic, lost>>
vars == <<state, ip, soft, exp, del, job, list, enabled, up, l3, hello, grp, groups,
          members, upCount, arp, recon, reconTimer, reconJob, onDemand, periodic,
          lost, genTask, lsp, broken, hellos, configs>>

Qualifies(i) == enabled[i] /\ up[i] /\ l3[i]
AnyUp(i) == \E n \in Nbrs : <<i, n>> \in Links /\ state[i, n] = "UP"

\* No ARP entry, or a resolved one of ARP's own, which ISIS may replace and
\* never deletes.
NoEntry == [adj |-> NULL, sane |-> FALSE]

\* After the commands "protocol isis" and "protocol isis interface all".
Init ==
  /\ state = [a \in Links |-> "none"]
  /\ ip = [a \in Links |-> CHOOSE v \in Nets[a] : TRUE]
  /\ soft = [a \in Links |-> CHOOSE s \in Softs : TRUE]
  /\ exp = [a \in Links |-> "off"] /\ del = [a \in Links |-> "off"]
  /\ job = [a \in Links |-> "none"] /\ list = [i \in Intfs |-> << >>]
  /\ enabled = [i \in Intfs |-> TRUE] /\ up = [i \in Intfs |-> TRUE]
  /\ l3 = [i \in Intfs |-> TRUE] /\ hello = [i \in Intfs |-> TRUE]
  /\ grp = [i \in Intfs |-> NULL] /\ groups = {} /\ members = [n \in Nbrs |-> << >>]
  /\ upCount = 0 /\ arp = [v \in Ips |-> NoEntry]
  /\ recon = FALSE /\ reconTimer = "off" /\ reconJob = FALSE
  /\ onDemand = TRUE /\ periodic = TRUE /\ lost = FALSE
  /\ genTask = TRUE /\ lsp = {} /\ broken = "no"
  /\ hellos = 0 /\ configs = 0

------------------------------------------------------------------------------
(* Parts of handlers *)

\* isis_intf_grp_refresh_member_interface: out of any list, into that of group
\* g, first if the first adjacency of the interface is up, else last.
Rejoin_last(g, i, active) ==  \* mutant: an active member is not preferred
  LET rest == [n \in Nbrs |-> RemoveFirst(members[n], i)] IN [rest EXCEPT ![g] = Append(@, i)]
Rejoin(g, i, active) ==
  LET rest == [n \in Nbrs |-> RemoveFirst(members[n], i)]
  IN [rest EXCEPT ![g] = IF active THEN <<i>> \o @ ELSE Append(@, i)]

FirstUp(st, i) == list[i] # << >> /\ st[i, Head(list[i])] = "UP"

RefreshGroup(i) ==
  members' = IF grp[i] = NULL THEN members ELSE Rejoin(grp[i], i, FirstUp(state', i))

\* isis_adjacency_start_delete_timer, isis_adjacency_start_expiry_timer
StartDelete_not(a) == del' = del  \* mutant
StartDelete(a) == del' = [del EXCEPT ![a] = IF @ = "off" THEN "armed" ELSE @]
StartExpiry(a) == exp' = [exp EXCEPT ![a] = IF @ = "off" THEN "armed" ELSE @]

\* adjacency_up_count is a uint16_t and wraps.
Wrap == 2^16
UpCountLess_signed(k) == upCount - k  \* mutant
UpCountLess(k) == (upCount + Wrap - k) % Wrap

\* The reconciliation timer: started or restarted, and stopped.
StartReconTimer_not(b) == reconTimer  \* mutant
StartReconTimer(b) == IF b THEN "armed" ELSE reconTimer
StopReconTimer == IF recon THEN "off" ELSE reconTimer

\* isis_enter_reconciliation_phase goes ahead.
EntersRecon == onDemand /\ ~recon

\* arp_table_entry_add by ISIS: the entry of the address, be it another
\* adjacency's, is replaced; an unresolved one is taken over and stays so.
Entered(v, a) == [arp EXCEPT ![v] = [adj |-> a, sane |-> @.sane]]

\* arp_entry_delete by ISIS: the entries it made for the addresses V go,
\* whichever adjacency they were made for.
Cleared(V) == [v \in Ips |-> IF v \in V /\ arp[v].adj # NULL THEN NoEntry ELSE arp[v]]

\* isis_update_layer2_mapping_on_adjacency_up, and on_adjacency_down for the
\* address before the hello under way and for the present one.
Map(a) == Entered(ip[a], a)
Unmap_present(a) == Cleared({ip'[a]})  \* mutant
Unmap(a) == Cleared({ip[a], ip'[a]})

\* isis_change_adjacency_state from INIT or UP to DOWN: without a break, the
\* case of INIT runs into the case of UP.
GoDown(a) ==
  LET restart == recon /\ upCount' # 0
  IN /\ state' = [state EXCEPT ![a] = "DOWN"]
     /\ exp' = [exp EXCEPT ![a] = "off"]
     /\ StartDelete(a)
     /\ upCount' = UpCountLess(1)
     /\ RefreshGroup(a[1])
     /\ reconTimer' = StartReconTimer(restart)
     /\ genTask' = (genTask \/ ~restart)
     /\ arp' = Unmap(a)
     /\ broken' = IF restart /\ reconTimer = "off" THEN "assert" ELSE broken
     /\ UNCHANGED recon

\* The group of a new adjacency's neighbour, made on demand, takes the
\* interface in; when adjacencies with "names" go, interface i quits a group of
\* theirs (any group, if "leave"), and groups of theirs left empty are freed.
JoinGroup(a) ==
  /\ groups' = groups \cup {a[2]}
  /\ grp' = [grp EXCEPT ![a[1]] = a[2]]
  /\ members' = IF grp[a[1]] = a[2] THEN members ELSE Rejoin(a[2], a[1], FALSE)
LeaveGroup(i, names, leave) ==
  LET quits == leave \/ grp[i] \in names
  IN /\ grp' = IF quits THEN [grp EXCEPT ![i] = NULL] ELSE grp
     /\ members' = IF quits THEN [n \in Nbrs |-> RemoveFirst(members[n], i)] ELSE members
     /\ groups' = groups \ {n \in names : members'[n] = << >>}
     /\ broken' = IF names \subseteq groups THEN broken ELSE "assert"

\* isis_delete_adjacency for every adjacency of S, all on interface i; "rest"
\* is what it leaves of the interface's list, "jobs" are the jobs still queued,
\* "leave" says that i quits its group anyway.
Free(S, i, rest, jobs, leave) ==
  LET names == {a[2] : a \in S}
      ups   == {a \in S : state[a] = "UP"}
  IN /\ state' = [a \in Links |-> IF a \in S THEN "none" ELSE state[a]]
     /\ exp' = [a \in Links |-> IF a \in S THEN "off" ELSE exp[a]]
     /\ del' = [a \in Links |-> IF a \in S THEN "off" ELSE del[a]]
     /\ job' = [a \in Links |-> IF a \in S /\ jobs[a] # "none" THEN "dangling" ELSE jobs[a]]
     /\ list' = [list EXCEPT ![i] = rest]
     /\ upCount' = UpCountLess(Cardinality(ups))
     /\ arp' = Cleared({ip[a] : a \in ups})
     /\ LeaveGroup(i, names, leave)

AdjsOn(i) == {a \in Links : a[1] = i /\ state[a] # "none"}

------------------------------------------------------------------------------
(* Hellos: isis_process_hello_pkt *)

Receive(i) == /\ Qualifies(i) /\ hellos < MaxHellos /\ hellos' = hellos + 1
              /\ UNCHANGED <<intfVars, nodeVars, reconJob, lsp, configs>>

\* From a neighbour not known on this interface.
HelloNew(a) ==
  /\ Receive(a[1]) /\ state[a] = "none"
  /\ state' = [state EXCEPT ![a] = "DOWN"]
  /\ \E v \in Nets[a] : ip' = [ip EXCEPT ![a] = v]
  /\ \E s \in Softs : soft' = [soft EXCEPT ![a] = s]
  /\ StartDelete(a)
  /\ list' = [list EXCEPT ![a[1]] = <<a[2]>> \o @]
  /\ JoinGroup(a)
  /\ UNCHANGED <<exp, job, upCount, arp, reconVars, genTask, broken>>

\* The IP or MAC address of a known neighbour changed; "other" stands for the
\* MAC address.
HelloChanged(a) ==
  /\ Receive(a[1]) /\ state[a] # "none"
  /\ \E v \in Nets[a], other \in BOOLEAN :
       (v # ip[a] \/ other) /\ ip' = [ip EXCEPT ![a] = v]
  /\ \E s \in Softs : soft' = [soft EXCEPT ![a] = s]
  /\ IF state[a] = "DOWN"
     THEN /\ arp' = Cleared({ip[a]})
          /\ UNCHANGED <<state, exp, del, members, upCount, reconVars, genTask, broken>>
     ELSE GoDown(a)
  /\ UNCHANGED <<list, job, grp, groups>>

\* The adjacency moves on: DOWN, INIT, UP.
HelloInit(a) ==
  /\ Receive(a[1]) /\ state[a] = "DOWN"
  /\ \E s \in Softs : soft' = [soft EXCEPT ![a] = s]
  /\ state' = [state EXCEPT ![a] = "INIT"]
  /\ del' = [del EXCEPT ![a] = "off"]
  /\ StartExpiry(a)
  /\ genTask' = (genTask \/ soft' # soft)
  /\ UNCHANGED <<ip, list, job, grpVars, upCount, arp, reconVars, broken>>

HelloUp(a) ==
  LET enter   == upCount' = 1 /\ EntersRecon
      restart == upCount' # 1 /\ recon
  IN /\ Receive(a[1]) /\ state[a] = "INIT"
     /\ \E s \in Softs : soft' = [soft EXCEPT ![a] = s]
     /\ state' = [state EXCEPT ![a] = "UP"]
     /\ exp' = [exp EXCEPT ![a] = "armed"]
     /\ upCount' = (upCount + 1) % Wrap
     /\ RefreshGroup(a[1])
     /\ recon' = (recon \/ enter)
     /\ reconTimer' = StartReconTimer(enter \/ restart)
     /\ genTask' = (genTask \/ enter \/ (upCount' # 1 /\ ~recon) \/ soft' # soft)
     /\ arp' = Map(a)
     /\ broken' = IF exp[a] = "off" \/ (restart /\ reconTimer = "off") THEN "assert"
                  ELSE IF enter /\ ~periodic THEN "null" ELSE broken
     /\ UNCHANGED <<ip, del, list, job, grp, groups>>

HelloAgain(a) ==
  /\ Receive(a[1]) /\ state[a] = "UP"
  /\ \E s \in Softs : soft' = [soft EXCEPT ![a] = s]
  /\ exp' = [exp EXCEPT ![a] = "armed"]
  /\ genTask' = (genTask \/ soft' # soft)
  /\ broken' = IF exp[a] = "off" THEN "assert" ELSE broken
  /\ UNCHANGED <<state, ip, del, list, job, grpVars, upCount, arp, reconVars>>

\* A hello from another subnet takes the first adjacency down, whosever it is.
HelloForeign(i) ==
  /\ Receive(i)
  /\ list[i] # << >>
  /\ LET a == <<i, Head(list[i])>>
     IN /\ state[a] # "DOWN"
        /\ UNCHANGED ip
        /\ GoDown(a)
  /\ UNCHANGED <<soft, list, job, grp, groups>>

------------------------------------------------------------------------------
(* Timers and their jobs.  A timer fires only when no job of its adjacency     *)
(* waits: the backlog of the dispatcher is shorter than a timer's interval.    *)

FireExpiry(a) ==
  /\ exp[a] = "armed" /\ job[a] = "none"
  /\ exp' = [exp EXCEPT ![a] = "fired"]
  /\ job' = [job EXCEPT ![a] = "expire"]
  /\ UNCHANGED <<state, ip, soft, del, list, intfVars, grpVars, upCount, arp,
                 reconVars, reconJob, nodeVars, genTask, lsp, broken, hellos, configs>>

FireDelete(a) ==
  /\ del[a] = "armed" /\ job[a] = "none"
  /\ del' = [del EXCEPT ![a] = "fired"]
  /\ job' = [job EXCEPT ![a] = "delete"]
  /\ UNCHANGED <<state, ip, soft, exp, list, intfVars, grpVars, upCount, arp,
                 reconVars, reconJob, nodeVars, genTask, lsp, broken, hellos, configs>>

\* isis_timer_expire_down_adjacency_cb: the timer is de-registered unseen,
\* then the adjacency goes down.
ExpireJob(a) ==
  /\ job[a] = "expire"
  /\ job' = [job EXCEPT ![a] = "none"]
  /\ UNCHANGED ip
  /\ IF exp[a] = "off"
     THEN /\ broken' = "null"
          /\ UNCHANGED <<state, exp, del, members, upCount, arp, reconVars, genTask>>
     ELSE GoDown(a)
  /\ UNCHANGED <<soft, list, intfVars, grp, groups, reconJob, nodeVars, lsp, hellos, configs>>

\* isis_timer_expire_delete_adjacency_cb, whatever the state of the adjacency.
DeleteJob(a) ==
  /\ job[a] = "delete"
  /\ Free({a}, a[1], RemoveFirst(list[a[1]], a[2]), [job EXCEPT ![a] = "none"], FALSE)
  /\ UNCHANGED <<ip, soft, intfVars, reconVars, reconJob, nodeVars, genTask, lsp, hellos, configs>>

\* A job runs on an adjacency that has been freed.
DanglingJob(a) ==
  /\ job[a] = "dangling"
  /\ broken' = "uaf"
  /\ job' = [job EXCEPT ![a] = "none"]
  /\ UNCHANGED <<adjVars, intfVars, grpVars, upCount, arp, reconVars, reconJob,
                 nodeVars, genTask, lsp, hellos, configs>>

FireRecon ==
  /\ reconTimer = "armed" /\ ~reconJob
  /\ reconTimer' = "fired" /\ reconJob' = TRUE
  /\ UNCHANGED <<adjVars, job, intfVars, grpVars, upCount, arp, recon, nodeVars,
                 genTask, lsp, broken, hellos, configs>>

\* isis_exit_reconciliation_phase
ExitGen == genTask \/ recon

ExitRecon ==
  /\ reconJob /\ reconJob' = FALSE
  /\ recon' = FALSE
  /\ reconTimer' = StopReconTimer
  /\ genTask' = ExitGen
  /\ broken' = IF recon /\ ~periodic THEN "null" ELSE broken
  /\ UNCHANGED <<adjVars, job, intfVars, grpVars, upCount, arp, nodeVars, lsp,
                 hellos, configs>>

PeriodicFlood ==
  /\ periodic \/ lost
  /\ genTask' = TRUE
  /\ UNCHANGED <<adjVars, job, intfVars, grpVars, upCount, arp, reconVars, reconJob,
                 nodeVars, lsp, broken, hellos, configs>>

\* isis_generate_lsp_pkt: the adjacencies that are up are advertised.
Advertised == {<<a, ip[a], soft[a]>> : a \in {b \in Links : state[b] = "UP"}}

Generate ==
  /\ genTask /\ genTask' = FALSE
  /\ lsp' = Advertised
  /\ UNCHANGED <<adjVars, job, intfVars, grpVars, upCount, arp, reconVars, reconJob,
                 nodeVars, broken, hellos, configs>>

------------------------------------------------------------------------------
(* The data plane, which shares the ARP table *)

\* create_arp_sane_entry: a packet waits for an address to be resolved.
Resolve(v) ==
  /\ arp[v] = NoEntry
  /\ arp' = [arp EXCEPT ![v] = [adj |-> NULL, sane |-> TRUE]]
  /\ UNCHANGED <<adjVars, job, intfVars, grpVars, upCount, reconVars, reconJob,
                 nodeVars, genTask, lsp, broken, hellos, configs>>

\* An unresolved entry is answered and becomes ARP's, or expires; ISIS may
\* have taken it over in the meantime.
Settle(v) ==
  /\ arp[v].sane
  /\ arp' = [arp EXCEPT ![v] = NoEntry]
  /\ UNCHANGED <<adjVars, job, intfVars, grpVars, upCount, reconVars, reconJob,
                 nodeVars, genTask, lsp, broken, hellos, configs>>

------------------------------------------------------------------------------
(* Configuration *)

Configure == configs < MaxConfigs /\ configs' = configs + 1

\* isis_enable_protocol_on_interface
Enable(i) ==
  /\ Configure
  /\ enabled' = [enabled EXCEPT ![i] = TRUE]
  /\ hello' = [hello EXCEPT ![i] = @ \/ (up[i] /\ l3[i])]
  /\ UNCHANGED <<adjVars, job, up, l3, grpVars, upCount, arp, reconVars, reconJob,
                 nodeVars, genTask, lsp, broken, hellos>>

\* isis_disable_protocol_on_interface
Disable(i) ==
  /\ Configure /\ enabled[i]
  /\ enabled' = [enabled EXCEPT ![i] = FALSE] /\ hello' = [hello EXCEPT ![i] = FALSE]
  /\ Free(AdjsOn(i), i, << >>, job, TRUE)
  /\ UNCHANGED <<ip, soft, up, l3, reconVars, reconJob, nodeVars, genTask, lsp, hellos>>

\* isis_interface_updates when the interface is shut or loses its address.
Withdraw(i) ==
  /\ IF enabled[i]
     THEN /\ hello' = [hello EXCEPT ![i] = FALSE]
          /\ genTask' = (genTask \/ AnyUp(i))
          /\ Free(AdjsOn(i), i, << >>, job, FALSE)
     ELSE UNCHANGED <<hello, genTask, state, exp, del, list, job, grpVars, upCount,
                      arp, broken>>
  /\ UNCHANGED <<ip, soft, enabled, reconVars, reconJob, nodeVars, lsp, hellos>>

Shut(i)     == Configure /\ up[i] /\ up' = [up EXCEPT ![i] = FALSE] /\ Withdraw(i) /\ UNCHANGED l3
RemoveIp(i) == Configure /\ l3[i] /\ l3' = [l3 EXCEPT ![i] = FALSE] /\ Withdraw(i) /\ UNCHANGED up

\* ... and when it is brought up or gets an address.
Restore(i) ==
  /\ hello' = [hello EXCEPT ![i] = @ \/ (enabled[i] /\ up'[i] /\ l3'[i])]
  /\ broken' = IF enabled[i] /\ up'[i] /\ l3'[i] /\ hello[i] THEN "assert" ELSE broken
  /\ UNCHANGED <<adjVars, job, enabled, grpVars, upCount, arp, reconVars, reconJob,
                 nodeVars, genTask, lsp, hellos>>

NoShut(i) == Configure /\ ~up[i] /\ up' = [up EXCEPT ![i] = TRUE] /\ UNCHANGED l3 /\ Restore(i)
AddIp(i)  == Configure /\ ~l3[i] /\ l3' = [l3 EXCEPT ![i] = TRUE] /\ UNCHANGED up /\ Restore(i)

\* The address changes: hellos are refreshed or stopped, the LSP regenerated.
ChangeIp(i) ==
  /\ Configure /\ l3[i] /\ enabled[i]
  /\ hello' = [hello EXCEPT ![i] = up[i]]
  /\ genTask' = TRUE
  /\ UNCHANGED <<adjVars, job, enabled, up, l3, grpVars, upCount, arp, reconVars,
                 reconJob, nodeVars, lsp, broken, hellos>>

\* isis_proto_enable_disable_on_demand_flooding
DisableOnDemand ==
  /\ Configure /\ onDemand
  /\ onDemand' = FALSE /\ periodic' = TRUE /\ lost' = (lost \/ periodic)
  /\ UNCHANGED <<adjVars, job, intfVars, grpVars, upCount, arp, reconVars, reconJob,
                 genTask, lsp, broken, hellos>>

EnableOnDemand ==
  /\ Configure /\ ~onDemand
  /\ onDemand' = TRUE /\ periodic' = FALSE
  /\ UNCHANGED <<adjVars, job, intfVars, grpVars, upCount, arp, reconVars, reconJob,
                 lost, genTask, lsp, broken, hellos>>

------------------------------------------------------------------------------
Hello == \/ \E a \in Links : \/ HelloNew(a) \/ HelloChanged(a) \/ HelloInit(a)
                            \/ HelloUp(a) \/ HelloAgain(a)
         \/ \E i \in Intfs : HelloForeign(i)

Fire == FireRecon \/ \E a \in Links : FireExpiry(a) \/ FireDelete(a)

RunJob == \/ ExitRecon \/ Generate
          \/ \E a \in Links : ExpireJob(a) \/ DeleteJob(a) \/ DanglingJob(a)

DataPlane == \E v \in Resolving : Resolve(v) \/ Settle(v)

Config == \/ \E i \in Intfs : \/ Enable(i) \/ Disable(i) \/ Shut(i) \/ NoShut(i)
                             \/ RemoveIp(i) \/ AddIp(i) \/ ChangeIp(i)
          \/ DisableOnDemand \/ EnableOnDemand

Next == broken = "no" /\ (Hello \/ Fire \/ RunJob \/ PeriodicFlood \/ DataPlane \/ Config)

Spec == Init /\ [][Next]_vars

\* Armed timers fire, and the dispatcher runs what is queued.
Fairness ==
  /\ WF_vars(broken = "no" /\ FireRecon)
  /\ WF_vars(broken = "no" /\ ExitRecon) /\ WF_vars(broken = "no" /\ Generate)
  /\ \A a \in Links : /\ WF_vars(broken = "no" /\ (FireExpiry(a) \/ FireDelete(a)))
                      /\ WF_vars(broken = "no" /\ (ExpireJob(a) \/ DeleteJob(a) \/ DanglingJob(a)))

FairSpec == Spec /\ Fairness

------------------------------------------------------------------------------
(* Properties *)

Timer == {"off", "armed", "fired"}

Entries == [adj : Links \cup {NULL}, sane : BOOLEAN]

TypeOK ==
  /\ state \in [Links -> {"none", "DOWN", "INIT", "UP"}]
  /\ ip \in [Links -> Ips] /\ (\A a \in Links : ip[a] \in Nets[a])
  /\ soft \in [Links -> Softs]
  /\ exp \in [Links -> Timer] /\ del \in [Links -> Timer]
  /\ job \in [Links -> {"none", "expire", "delete", "dangling"}]
  /\ list \in [Intfs -> Seq(Nbrs)]
  /\ enabled \in [Intfs -> BOOLEAN] /\ up \in [Intfs -> BOOLEAN]
  /\ l3 \in [Intfs -> BOOLEAN] /\ hello \in [Intfs -> BOOLEAN]
  /\ grp \in [Intfs -> Nbrs \cup {NULL}] /\ groups \subseteq Nbrs
  /\ members \in [Nbrs -> Seq(Intfs)]
  /\ upCount \in 0..(Wrap - 1)
  /\ arp \in [Ips -> Entries]
  /\ recon \in BOOLEAN /\ reconTimer \in Timer /\ reconJob \in BOOLEAN
  /\ onDemand \in BOOLEAN /\ periodic \in BOOLEAN /\ lost \in BOOLEAN
  /\ genTask \in BOOLEAN /\ lsp \subseteq Links \X Ips \X Softs
  /\ broken \in {"no", "assert", "null", "uaf"}
  /\ hellos \in 0..MaxHellos /\ configs \in 0..MaxConfigs

\* An adjacency has exactly the timer of its state, expiry in INIT and UP and
\* delete in DOWN, so none lingers without a timer; a timer that has fired
\* waits for its job; hellos are sent just where an interface qualifies.
TimersSound ==
  broken = "no" =>
    /\ \A a \in Links :
         /\ exp[a] # "off" <=> state[a] \in {"INIT", "UP"}
         /\ del[a] # "off" <=> state[a] = "DOWN"
         /\ exp[a] = "fired" => job[a] = "expire"
         /\ del[a] = "fired" => job[a] = "delete"
    /\ \A a \in Links : state[a] # "none" => Qualifies(a[1])
    /\ \A i \in Intfs : hello[i] <=> Qualifies(i)

\* No assertion of the handlers fails: on the timers refreshed and restarted,
\* on the hello timer, and on the group of an adjacency that is deleted.
AssertsHold == broken # "assert"

\* Group membership has two ends that agree, an interface is in one group at
\* most and then has an adjacency with the group's neighbour.
GroupsSound ==
  broken = "no" =>
    \A i \in Intfs, n \in Nbrs :
      /\ grp[i] = n <=> i \in ToSet(members[n])
      /\ \A j, k \in DOMAIN members[n] : members[n][j] = members[n][k] => j = k
      /\ grp[i] = n => n \in groups /\ <<i, n>> \in Links /\ state[i, n] # "none"

\* An address that no other neighbour can have and the data plane does not
\* resolve.
Private(a) == ip[a] \notin Resolving /\ \A b \in Links \ {a} : ip[a] \notin Nets[b]

EntriesLive ==
  \A v \in Ips : arp[v].adj # NULL => state[arp[v].adj] = "UP" /\ ip[arp[v].adj] = v
EntriesPresent ==
  \A a \in Links : state[a] = "UP" /\ Private(a) => arp[ip[a]].adj = a

\* An ARP entry of ISIS leads to a neighbour that is up and has that address
\* now; a neighbour that is up has its entry, unless its address is one that
\* another neighbour, or ARP itself, may have taken the entry of.
MappingSound == broken = "no" => EntriesLive /\ EntriesPresent

\* With no LSP generation pending and no reconciliation going on, the router
\* advertises each neighbour that is up, with its present attributes, as long
\* as on-demand flooding has never been switched off ("lost" records that).
LspComplete == broken = "no" /\ ~genTask /\ ~recon /\ ~lost => Advertised \subseteq lsp

\* Reconciliation is in progress just while its timer exists; once the timer
\* has fired the job that ends the phase is queued.
ReconSound ==
  broken = "no" => /\ recon <=> reconTimer # "off"
                   /\ reconTimer = "fired" => reconJob

\* isis_schedule_lsp_flood: an LSP goes out of every interface without a group,
\* and of the first member of each group if it has a neighbour that is up.
FloodOut == {i \in Intfs : enabled[i] /\ grp[i] = NULL}
            \cup {i \in Intfs : AnyUp(i) /\ \E g \in groups : members[g] # << >> /\ Head(members[g]) = i}

\* An LSP that is flooded reaches every neighbour that is up.
FloodReaches ==
  broken = "no" =>
    \A n \in Nbrs :
      (\E i \in Intfs : <<i, n>> \in Links /\ state[i, n] = "UP")
        => \E i \in FloodOut : <<i, n>> \in Links /\ state[i, n] = "UP"

\* No assertion fails, and what the handlers keep about interfaces, adjacencies
\* and groups agrees.
AdjSound == AssertsHold /\ TimersSound /\ GroupsSound /\ MappingSound /\ ReconSound

\* The LSP names the neighbours that are up, and its flood reaches them.
LspSound == LspComplete /\ FloodReaches

\* adjacency_up_count counts the adjacencies that are up.
UpCountSound == upCount = Cardinality({a \in Links : state[a] = "UP"})

\* Neighbours that fall silent are forgotten, in the end by all of the router's
\* state: adjacencies, groups and ARP entries.
SilentForgotten ==
  <>[](broken # "no" \/ (/\ \A a \in Links : state[a] = "none"
                         /\ groups = {} /\ \A v \in Ips : arp[v].adj = NULL))

\* Every reconciliation phase ends.
ReconEnds == recon ~> broken # "no" \/ ~recon
==============================================================================
