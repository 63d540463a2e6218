----------------------------- MODULE RouteTable -----------------------------
(***************************************************************************)
(* The routing table of a node: the routes, the addresses of interfaces    *)
(* that put direct routes into it, SPF and commands that change it, and    *)
(* the two lists through which applications learn of changes: the notify   *)
(* list, sent to subscribers by a job, and the flash list, sent to one     *)
(* application at a time on request.  Handlers run on the dispatcher, so   *)
(* each is one step; the notification and flash jobs are steps of their    *)
(* own, in the order in which they were created.                           *)
(*                                                                         *)
(* A prefix stands for an address and a mask after apply_mask.             *)
(***************************************************************************)
EXTENDS Integers, SequencesExt

CONSTANTS
  Interfaces,   \* interfaces in layer-3 mode
  IfPrefixes,   \* per interface, the addresses it may be given
  CliPrefixes,  \* prefixes of configured routes
  SpfPrefixes,  \* loopback addresses of other nodes, which SPF finds
  NextHops,     \* gateways with their interface
  MaxNextHops,  \* MAX_NXT_HOPS
  RouteIds,     \* memory for routes
  MaxChanges,   \* bound on configuration changes and SPF runs
  MaxFlash      \* bound on flash requests

NoAddr == "none"
NoHop == "direct"

AllPrefixes == CliPrefixes \cup SpfPrefixes \cup UNION {IfPrefixes[i] : i \in Interfaces}

\* What is counted is finite, and NULL is no address and no gateway.
ASSUME RouteTableAssumption ==
  /\ IsFiniteSet(RouteIds) /\ IsFiniteSet(SpfPrefixes) /\ IsFiniteSet(NextHops)
  /\ \A i \in Interfaces : NoAddr \notin IfPrefixes[i]
  /\ "free" \notin AllPrefixes /\ NoHop \notin NextHops
  /\ MaxChanges \in Nat /\ MaxFlash \in Nat

VARIABLES
  rt,    \* rt_table_t and the routes it leads to: a record with
         \*   route: id -> route or Free      table: route_list
         \*   notify: rt_notify_list_head     flash: rt_flash_list_head
         \*   requests: flash requests        jobs: the jobs of the table queued
         \*   died: "no", "null" (NULL followed) or "assert" (l3_route_free)
  addr,  \* per interface, its address or NoAddr
  view,  \* what a subscriber was told: prefix -> Absent or what it was shown
  subscribed, changes, flashes

vars == <<rt, addr, view, subscribed, changes, flashes>>

NewRoute(p) == [prefix |-> p, direct |-> TRUE, hops |-> << >>, idx |-> 0,
                event |-> "none", flashed |-> FALSE]
Free == NewRoute("free")

Init ==
  /\ rt = [route |-> [r \in RouteIds |-> Free], table |-> << >>, notify |-> << >>,
           flash |-> << >>, requests |-> 0, jobs |-> << >>, died |-> "no"]
  /\ addr = [i \in Interfaces |-> NoAddr]
  /\ view = << >> /\ subscribed = FALSE
  /\ changes = 0 /\ flashes = 0

------------------------------------------------------------------------------
(* Operations: each maps a table to the table after it *)

\* l3rib_lookup and rt_table_lookup: the route of exactly this prefix, if any.
\* (rt_table_lookup has no return statement at its end; with the flags of the
\* Makefile the register that holds the last pointer of its loop, NULL, is read.)
Lookup(t, p) == {t.table[i] : i \in {j \in DOMAIN t.table : t.route[t.table[j]].prefix = p}}

\* rt_table_add_route_to_notify_list
Notify(t, r, flag) ==
  [t EXCEPT !.route[r].event = IF @ = "del" /\ flag = "add" THEN "update" ELSE flag,
            !.notify = <<r>> \o RemoveFirst(@, r)]

\* rt_table_kick_start_notif_job
Kick(t) == IF Contains(t.jobs, "notif") THEN t ELSE [t EXCEPT !.jobs = Append(@, "notif")]

\* rt_table_add_route for a new prefix; hop = NoHop for a direct route
Spare(t) == {r \in RouteIds : t.route[r] = Free}
Insert(t, p, hop) ==
  LET r == CHOOSE x \in Spare(t) : TRUE
      new == IF hop = NoHop THEN NewRoute(p)
             ELSE [NewRoute(p) EXCEPT !.direct = FALSE, !.hops = <<hop>>]
  IN Kick(Notify([t EXCEPT !.route[r] = new, !.table = <<r>> \o @], r, "add"))

\* The same for a route there is: its next hops are compared with the gateway,
\* which is NULL for a direct route.
Extend(t, r, hop) ==
  LET hops == t.route[r].hops
  IN IF hop = NoHop
     THEN IF hops = << >> THEN t ELSE [t EXCEPT !.died = "null"]
     ELSE IF Contains(hops, hop) \/ Len(hops) = MaxNextHops THEN t
     ELSE Kick(Notify([t EXCEPT !.route[r].direct = FALSE,
                                !.route[r].hops = Append(@, hop)], r, "update"))

AddRoute(t, p, hop) ==
  IF Lookup(t, p) = {} THEN Insert(t, p, hop)
  ELSE Extend(t, CHOOSE x \in Lookup(t, p) : TRUE, hop)

Withdraw(t, r) == Notify([t EXCEPT !.table = RemoveFirst(@, r)], r, "del")

\* rt_table_delete_route
DeleteRoute(t, p) ==
  IF Lookup(t, p) = {} THEN t
  ELSE Kick(Withdraw(t, CHOOSE x \in Lookup(t, p) : TRUE))

\* clear_rt_table: all routes but the direct ones
Learnt_all(route) == TRUE  \* mutant
Learnt(route) == ~route.direct
ClearTable(t) ==
  LET cleared[k \in 0..Len(t.table)] ==
        IF k = 0 THEN t
        ELSE IF Learnt(t.route[t.table[k]]) THEN Withdraw(cleared[k - 1], t.table[k])
        ELSE cleared[k - 1]
  IN Kick(cleared[Len(t.table)])

\* l3_route_free of the routes "gone", with its assertions
FreeRoutes(t, gone) ==
  IF \E r \in gone : Contains(t.table, r) \/ Contains(t.notify, r) \/ Contains(t.flash, r)
  THEN [t EXCEPT !.died = "assert"]
  ELSE [t EXCEPT !.route = [r \in RouteIds |-> IF r \in gone THEN Free ELSE @[r]]]

------------------------------------------------------------------------------
(* Configuration and SPF *)

Room(n) == Cardinality(Spare(rt)) >= n
Change == changes < MaxChanges /\ changes' = changes + 1
Unseen == UNCHANGED <<view, subscribed, flashes>>

\* l3_config_handler: "route <prefix> <mask>", which makes a direct route, or
\* "route <prefix> <mask> <gateway> <interface>"
ConfigRoute(p, hop) ==
  /\ Change /\ Room(1)
  /\ rt' = AddRoute(rt, p, hop)
  /\ UNCHANGED addr /\ Unseen

UnconfigRoute(p) ==
  /\ Change
  /\ rt' = DeleteRoute(rt, p)
  /\ UNCHANGED addr /\ Unseen

\* interface_set_ip_addr: a new address, or another one
SetAddr(i, p) ==
  /\ Change /\ Room(1) /\ addr[i] # p
  /\ rt' = AddRoute(IF addr[i] = NoAddr THEN rt ELSE DeleteRoute(rt, addr[i]), p, NoHop)
  /\ addr' = [addr EXCEPT ![i] = p]
  /\ Unseen

\* interface_unset_ip_addr
UnsetAddr(i) ==
  /\ Change /\ addr[i] # NoAddr
  /\ rt' = DeleteRoute(rt, addr[i])
  /\ addr' = [addr EXCEPT ![i] = NoAddr]
  /\ Unseen

\* spf_install_routes; "found" gives each node that SPF reached its next hops
InstallHops(t, p, hops) ==
  LET added[k \in 0..Len(hops)] == IF k = 0 THEN t ELSE AddRoute(added[k - 1], p, hops[k])
  IN added[Len(hops)]

InstallSpf(found) ==
  LET order == SetToSeq(DOMAIN found)
      installed[k \in 0..Len(order)] ==
        IF k = 0 THEN ClearTable(rt)
        ELSE InstallHops(installed[k - 1], order[k], SetToSeq(found[order[k]]))
  IN installed[Len(order)]

RunSpf(found) ==
  /\ Change /\ Room(Cardinality(DOMAIN found))
  /\ rt' = InstallSpf(found)
  /\ UNCHANGED addr /\ Unseen

\* l3_route_get_active_nexthop, for a packet that is forwarded along the route
NextIdx(hops, i) == IF i + 1 = MaxNextHops \/ i + 1 >= Len(hops) THEN 0 ELSE i + 1

Forward(p) ==
  /\ \E r \in Lookup(rt, p) :
       /\ ~rt.route[r].direct /\ rt.route[r].idx < Len(rt.route[r].hops)
       /\ rt' = [rt EXCEPT !.route[r].idx = NextIdx(rt.route[r].hops, @)]
  /\ UNCHANGED <<addr, changes>> /\ Unseen

------------------------------------------------------------------------------
(* Notifications *)

\* nfc_ipv4_rt_subscribe, nfc_ipv4_rt_un_subscribe
Subscribe ==
  /\ ~subscribed /\ subscribed' = TRUE
  /\ view' = << >>
  /\ UNCHANGED <<rt, addr, changes, flashes>>

Unsubscribe ==
  /\ subscribed /\ subscribed' = FALSE
  /\ view' = << >>
  /\ UNCHANGED <<rt, addr, changes, flashes>>

Shown(route) == [direct |-> route.direct, hops |-> route.hops]
Absent == [direct |-> FALSE, hops |-> << >>]

\* rt_table_notif_job_cb: oldest first, that is from the end of the list
Oldest_last(list) == list  \* mutant: from the head
Oldest(list) == Reverse(list)

Announced(route) == IF route.event = "del" THEN Absent ELSE Shown(route)

\* What the subscriber knows once the routes of "order" were announced to it,
\* one after the other: of each prefix, the last thing it was told.
Told(order) ==
  LET About(p) == {k \in DOMAIN order : rt.route[order[k]].prefix = p}
  IN [p \in DOMAIN view \cup {rt.route[order[k]].prefix : k \in DOMAIN order} |->
        IF About(p) = {} THEN view[p] ELSE Announced(rt.route[order[Max(About(p))]])]

Deleted(t, list) == {r \in ToSet(list) : t.route[r].event = "del"}

\* The subscriber is told; every route leaves the list, then the deleted ones
\* are freed.
NotifyJob ==
  /\ rt.jobs # << >> /\ Head(rt.jobs) = "notif"
  /\ LET idle == [r \in RouteIds |->
                    IF r \in ToSet(rt.notify) \ Deleted(rt, rt.notify)
                    THEN [rt.route[r] EXCEPT !.event = "none"] ELSE rt.route[r]]
     IN /\ rt' = FreeRoutes([rt EXCEPT !.jobs = Tail(@), !.notify = << >>, !.route = idle],
                            Deleted(rt, rt.notify))
        /\ view' = IF subscribed THEN Told(Oldest(rt.notify)) ELSE view
  /\ UNCHANGED <<addr, subscribed, changes, flashes>>

\* nfc_ipv4_rt_request_flash
RequestFlash ==
  /\ flashes < MaxFlash /\ flashes' = flashes + 1
  /\ LET t == [rt EXCEPT !.requests = @ + 1]
         put[k \in 0..Len(rt.table)] ==
           IF k = 0 THEN rt.flash ELSE <<rt.table[k]>> \o RemoveFirst(put[k - 1], rt.table[k])
         asked == [r \in RouteIds |-> IF r \in ToSet(rt.table) THEN [rt.route[r] EXCEPT !.flashed = TRUE]
                                      ELSE rt.route[r]]
     IN rt' = IF Contains(rt.jobs, "flash") THEN t
              ELSE [t EXCEPT !.route = asked, !.flash = put[Len(rt.table)],
                             !.jobs = Append(@, "flash")]
  /\ UNCHANGED <<addr, view, subscribed, changes>>

\* rt_table_purge_flash_route_queue
Purged(t) ==
  LET seen == [r \in RouteIds |-> IF r \in ToSet(t.flash) THEN [t.route[r] EXCEPT !.flashed = FALSE]
                                  ELSE t.route[r]]
  IN FreeRoutes([t EXCEPT !.route = seen, !.flash = << >>], Deleted(t, t.flash))

\* rt_table_flash_job: one client, then the next job or the purge
FlashJob ==
  /\ rt.jobs # << >> /\ Head(rt.jobs) = "flash"
  /\ LET t == [rt EXCEPT !.jobs = Tail(@), !.requests = @ - 1]
     IN rt' = IF t.requests > 0 THEN [t EXCEPT !.jobs = Append(@, "flash")]
              ELSE Purged(t)
  /\ UNCHANGED <<addr, view, subscribed, changes, flashes>>

------------------------------------------------------------------------------
SpfResults == UNION {[ps -> SUBSET NextHops \ {{}}] : ps \in SUBSET SpfPrefixes}

Next ==
  /\ rt.died = "no"
  /\ \/ \E p \in CliPrefixes : \/ \E hop \in NextHops \cup {NoHop} : ConfigRoute(p, hop)
                                \/ UnconfigRoute(p)
     \/ \E i \in Interfaces : (\E p \in IfPrefixes[i] : SetAddr(i, p)) \/ UnsetAddr(i)
     \/ \E found \in SpfResults : RunSpf(found)
     \/ \E p \in AllPrefixes : Forward(p)
     \/ Subscribe \/ Unsubscribe \/ NotifyJob \/ RequestFlash \/ FlashJob

Spec == Init /\ [][Next]_vars

------------------------------------------------------------------------------
(* Properties *)

Routes == ToSet(rt.table)

\* Every list is sound: no route is listed twice or after it was freed, no two
\* routes have the same prefix, a route that left the table waits for its last
\* notification, whatever is on the notify list has a job that will send it,
\* and the round robin points to a next hop.
ListsSound ==
  rt.died = "no" =>
    /\ \A list \in {rt.table, rt.notify, rt.flash} :
         IsInjective(list) /\ \A r \in ToSet(list) : rt.route[r] # Free
    /\ \A r, s \in Routes : rt.route[r].prefix = rt.route[s].prefix => r = s
    /\ \A r \in RouteIds : rt.route[r] # Free =>
         /\ r \in Routes \/ (rt.route[r].event = "del" /\ r \in ToSet(rt.notify))
         /\ rt.route[r].direct <=> rt.route[r].hops = << >>
         /\ ~rt.route[r].direct => rt.route[r].idx < Len(rt.route[r].hops)
    /\ rt.notify # << >> => Contains(rt.jobs, "notif")

\* The assertions of l3_route_free hold: a route is freed once, by the job that
\* announced its deletion, when no list has it any more.  (A flash requested
\* before the deletion breaks this; no code requests one.)
RoutesFreed == rt.died = "assert" => flashes > 0

\* What a subscriber knows of a prefix is what the table holds, unless a
\* notification about the prefix is still to come: the notifications of a
\* deletion and of a new route for the same prefix arrive in that order.
ViewSound ==
  rt.died = "no" =>
    \A p \in DOMAIN view :
      (\A r \in ToSet(rt.notify) : rt.route[r].prefix # p) =>
        view[p] = IF Lookup(rt, p) = {} THEN Absent
                  ELSE Shown(rt.route[CHOOSE r \in Lookup(rt, p) : TRUE])

\* An interface keeps the direct route of its address through SPF runs and
\* changes of address, unless its prefix is that of a configured route, of a
\* route that SPF finds, or of another interface (whose removal deletes the
\* route they share).
DirectKept ==
  rt.died = "no" =>
    \A i \in Interfaces :
      /\ addr[i] # NoAddr /\ addr[i] \notin CliPrefixes \cup SpfPrefixes
      /\ \A j \in Interfaces \ {i} : addr[i] \notin IfPrefixes[j]
      => \E r \in Lookup(rt, addr[i]) : rt.route[r].direct

\* The lists, the memory of routes and the direct routes are sound.
RoutesSound == ListsSound /\ RoutesFreed /\ DirectKept
==============================================================================
