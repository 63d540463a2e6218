-------------------------------- MODULE Spf --------------------------------
(***************************************************************************)
(* The SPF algorithm of the topology (Layer5/spf_algo/spf.c): every change *)
(* of an interface that is notified queues one job per router, and the job *)
(* computes the router's distances and equal-cost next hops over the       *)
(* topology as it is when it runs. The scratch data of a run (metrics,     *)
(* next hops, the priority list) does not outlive it and is an argument.   *)
(***************************************************************************)
EXTENDS Naturals, SequencesExt, FiniteSets

CONSTANTS
  Routers, Links,
  Ends,         \* per link, its two routers
  Intfs,        \* per router, its links in the order of its interfaces
  Roots,        \* the routers whose results are followed
  Flapping,     \* the links that are reconfigured
  Metrics,      \* the metrics configured
  Default,      \* INTF_METRIC_DEFAULT
  Infinite,     \* INFINITE_METRIC, above every sum of metrics
  MaxNextHops,  \* MAX_NXT_HOPS
  None,         \* an empty slot of an array of next hops
  MaxChanges    \* bound on configuration commands

VARIABLES
  cost,     \* link metrics
  usable,   \* per link, is_interface_l3_bidirectional
  pending,  \* the roots with a job compute_spf_via_job
  result,   \* per root, spf_result_head: [node, metric, hops], the last first
  silent,   \* the topology changed after the last notification
  changes

vars == <<cost, usable, pending, result, silent, changes>>

Init ==  \* init_spf_algo queues a run for every router
  /\ cost = [l \in Links |-> Default] /\ usable = [l \in Links |-> TRUE]
  /\ pending = Roots /\ result = [r \in Roots |-> << >>]
  /\ silent = FALSE /\ changes = 0

------------------------------------------------------------------------------
(* Arrays of next hops; a next hop is the interface it leaves by *)

Slots == 1..MaxNextHops
Empty == [i \in Slots |-> None]  \* spf_flush_nexthops
Hops(a) == {a[i] : i \in Slots} \ {None}
FreeSlot(a) == Min({i \in Slots : a[i] = None} \cup {MaxNextHops + 1})

\* spf_insert_new_nexthop: a hop that finds no slot is left out
Add(a, l) == [i \in Slots |-> IF i = FreeSlot(a) THEN l ELSE a[i]]

\* spf_union_nexthops_arrays: both indices advance together, also over what is
\* already there, and from the first free slot on no slot is looked at
Union(from, to) ==
  FoldLeft(LAMBDA a, i : IF from[i] = None \/ from[i] \in Hops(a) THEN a
                         ELSE [a EXCEPT ![FreeSlot(to) + i - 1] = from[i]],
           to, [i \in 1..(MaxNextHops + 1 - FreeSlot(to)) |-> i])

------------------------------------------------------------------------------
(* One run: d = [m: metrics, nh: next hops, pq: the priority list] *)

Nbr(l, n) == CHOOSE x \in Ends[l] : x # n
UsableOf(n) == SelectSeq(Intfs[n], LAMBDA l : usable[l])

\* glthread_priority_insert with spf_comparison_fn
Enqueue_last(d, n) == [d EXCEPT !.pq = Append(@, n)]  \* mutant: first come, first served
Enqueue(d, n) ==
  LET k == Min({i \in DOMAIN d.pq : d.m[n] < d.m[d.pq[i]]} \cup {Len(d.pq) + 1})
  IN [d EXCEPT !.pq = InsertAt(@, k, n)]
Dequeued(d, n) == [d EXCEPT !.pq = SelectSeq(@, LAMBDA x : x # n)]

\* initialize_direct_nbrs
Direct(d, n, l) ==
  IF cost[l] < d.m[n] THEN [d EXCEPT !.m[n] = cost[l], !.nh[n] = Add(Empty, l)]
  ELSE IF cost[l] = d.m[n] THEN [d EXCEPT !.nh[n] = Add(@, l)]
  ELSE d

\* spf_explore_nbrs, for one interface l of c to n
Improve(d, c, n, v) ==
  Enqueue(Dequeued([d EXCEPT !.nh[n] = Union(d.nh[c], Empty), !.m[n] = v], n), n)

Explore(d, c, l) ==
  LET n == Nbr(l, c)
      v == d.m[c] + cost[l]
  IN IF v < d.m[n] THEN Improve(d, c, n, v)
     ELSE IF v = d.m[n] THEN [d EXCEPT !.nh[n] = Union(d.nh[c], @)]
     ELSE d

\* compute_spf from the point where the direct neighbours are queued; a router
\* taken off the list is recorded (spf_record_result) and explored
RECURSIVE Process(_, _)
Process(d, found) ==
  IF d.pq = << >> THEN found
  ELSE LET c == Head(d.pq)
           e == FoldLeft(LAMBDA x, l : Explore(x, c, l), Dequeued(d, c), UsableOf(c))
       IN Process([e EXCEPT !.nh[c] = Empty],
                  <<[node |-> c, metric |-> d.m[c], hops |-> Union(d.nh[c], Empty)]>> \o found)

ComputeSpf(root) ==
  LET blank == [m |-> [n \in Routers |-> IF n = root THEN 0 ELSE Infinite],
                nh |-> [n \in Routers |-> Empty], pq |-> << >>]
      first == FoldLeft(LAMBDA d, l : Direct(d, Nbr(l, root), l), blank, UsableOf(root))
      queue == FoldLeft(LAMBDA d, l : IF Nbr(l, root) \in Range(d.pq) THEN d
                                      ELSE Enqueue(d, Nbr(l, root)), first, UsableOf(root))
  IN Process(queue, << >>)

RunSpf(root) ==
  /\ root \in pending /\ pending' = pending \ {root}
  /\ result' = [result EXCEPT ![root] = ComputeSpf(root)]
  /\ UNCHANGED <<cost, usable, silent, changes>>

------------------------------------------------------------------------------
(* Configuration; spf_algo_interface_update queues a run for every router *)

Changed(notified, differs) ==
  /\ changes < MaxChanges /\ changes' = changes + 1 /\ UNCHANGED result
  /\ pending' = IF notified THEN Roots ELSE pending
  /\ silent' = (~notified /\ (silent \/ differs))

\* intf_config_handler: "metric v"
SetMetric(l, v) ==
  /\ cost' = [cost EXCEPT ![l] = v] /\ UNCHANGED usable /\ Changed(v # cost[l], FALSE)

\* "no metric v" restores the default, but notifies when v is not the old metric
NoMetric(l, v) ==
  /\ cost' = [cost EXCEPT ![l] = Default] /\ UNCHANGED usable
  /\ Changed(v # cost[l], cost[l] # Default)

\* An interface goes down or up, or its address is set or unset
UpDown(l) ==
  /\ usable' = [usable EXCEPT ![l] = ~@] /\ UNCHANGED cost /\ Changed(TRUE, TRUE)

Next ==
  \/ \E r \in Roots : RunSpf(r)
  \/ \E l \in Flapping, v \in Metrics : SetMetric(l, v)
  \/ \E l \in Flapping, v \in Metrics : NoMetric(l, v)
  \/ \E l \in Flapping : UpDown(l)

Spec == Init /\ [][Next]_vars

------------------------------------------------------------------------------
(* Properties *)

\* A router whose job ran after the last change that was notified, if none was
\* made in silence, has in its result each reachable router once, at its
\* shortest distance, with at least one next hop, and every next hop leaves on
\* a shortest path. With positive metrics the distances are the one solution of
\* Bellman's equations, and a hop is right if it is the link to the router
\* itself or a hop to a predecessor on a shortest path.
SpfSound ==
  \A root \in Roots \ pending :
    ~silent =>
      LET res   == result[root]
          found == {res[i].node : i \in DOMAIN res}
          r(n)  == res[CHOOSE i \in DOMAIN res : res[i].node = n]
          m(n)  == IF n = root THEN 0 ELSE r(n).metric
          best(n) == {l \in Range(UsableOf(n)) : m(Nbr(l, n)) + cost[l] = m(n)}
      IN /\ Cardinality(found) = Len(res) /\ root \notin found
         /\ \A n \in found \cup {root} : \A l \in Range(UsableOf(n)) :
              /\ Nbr(l, n) \in found \cup {root}
              /\ m(Nbr(l, n)) <= m(n) + cost[l]
         /\ \A n \in found :
              /\ best(n) # {} /\ Hops(r(n).hops) # {}
              /\ \A h \in Hops(r(n).hops) :
                   \E l \in best(n) : IF Nbr(l, n) = root THEN h = l
                                      ELSE h \in Hops(r(Nbr(l, n)).hops)
=============================================================================
