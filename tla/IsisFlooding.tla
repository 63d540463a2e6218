---------------------------- MODULE IsisFlooding ----------------------------
(***************************************************************************)
(* The ISIS link state databases of a whole topology: LSPs are generated,  *)
(* queued, sent, received, stored, purged and freed; routers enter and     *)
(* leave reconciliation, and ISIS is started and shut down on them.        *)
(*                                                                         *)
(* All routers are simulated by one process with one dispatcher thread:    *)
(* "jobs" is its only list of jobs, first in, first out, and "stack" the   *)
(* only queue of packets in flight, which is served last in, first out and *)
(* emptied by one job.  Timers and commands act at any moment between two  *)
(* jobs.  Two routers are joined by at most one wire; adjacencies are      *)
(* those of IsisAdjacency, reduced to "none", "DOWN" and "UP".             *)
(*                                                                         *)
(* No action bounds a sequence number: with finitely many events the       *)
(* routers themselves must stop flooding, or the state space is infinite.  *)
(*                                                                         *)
(* An LSP is an object on the heap of its router, shared by the database,  *)
(* the pointer self_lsp_pkt and the transmit queues through ref_count.     *)
(***************************************************************************)
EXTENDS Naturals, Sequences, SequencesExt, FiniteSets

CONSTANTS
  Routers,       \* the routers of the topology
  Intfs,         \* their interfaces, <<router, the router it is wired to>>
  DynGroup,      \* the routers with dynamic interface groups
  NULL,
  MaxEvents      \* bound on the losses of adjacencies and the commands

ASSUME FloodingAssumption ==
  /\ Intfs \subseteq Routers \X Routers /\ DynGroup \subseteq Routers
  /\ \A i \in Intfs : i[1] # i[2] /\ <<i[2], i[1]>> \in Intfs
  /\ IsFiniteSet(Routers) /\ MaxEvents \in Nat
  /\ NULL \notin Routers \cup (Routers \X Nat \X Nat)

VARIABLES
  life,          \* per router: ISIS is "off", "on" or "stopping"
  enabled, adj,  \* per interface: ISIS runs on it; its adjacency
  heap,          \* per router: its LSP objects (isis_lsp_pkt_t), by address
  self,          \* per router: self_lsp_pkt, or NULL
  seqNo,         \* per router: seq_no
  recon,         \* per router: "off"; in reconciliation, "new" until the
                 \* periodic timer has fired once, then "flooded"
  queue,         \* per interface: lsp_xmit_list_head
  pending,       \* per router: pending_lsp_flood_count
  jobs,          \* the dispatcher's list of jobs
  stack,         \* the packets in flight, last sent first
  broken,        \* "no", "assert" or "null"
  fresh,         \* history: the routers that have generated an LSP since the
                 \* last change of an adjacency or command
  events

vars == <<life, enabled, adj, heap, self, seqNo, recon, queue, pending, jobs, stack, broken,
          fresh, events>>

Peers(r) == {s \in Routers : <<r, s>> \in Intfs}
UpPeers(r) == {s \in Peers(r) : adj[<<r, s>>] = "UP"}

\* The jobs: a pointer to a task is not NULL as long as the job is listed.
Gen(r) == <<"isis_generate_lsp_pkt", r, r>>
Spf(r) == <<"isis_run_spf", r, r>>
Xmit(r, s) == <<"isis_lsp_xmit_job", r, s>>
Pkts == <<"pkt_recvr_job_cbk", NULL, NULL>>

Listed(js, j) == \E k \in DOMAIN js : js[k] = j
Post(js, j) == IF Listed(js, j) THEN js ELSE Append(js, j)

\* The list s without the elements of J.
Without(s, J) ==
  LET kept[k \in 0..Len(s)] ==
        IF k = 0 THEN << >>
        ELSE IF s[k] \in J THEN kept[k - 1] ELSE Append(kept[k - 1], s[k])
  IN kept[Len(s)]

Init ==
  /\ life = [r \in Routers |-> "off"]
  /\ enabled = [i \in Intfs |-> FALSE] /\ adj = [i \in Intfs |-> "none"]
  /\ heap = [r \in Routers |-> << >>]
  /\ self = [r \in Routers |-> NULL] /\ seqNo = [r \in Routers |-> 0]
  /\ recon = [r \in Routers |-> "off"]
  /\ queue = [i \in Intfs |-> << >>] /\ pending = [r \in Routers |-> 0]
  /\ jobs = << >> /\ stack = << >>
  /\ broken = "no" /\ fresh = {} /\ events = 0

------------------------------------------------------------------------------
(* Objects.  Parts of a handler of router r work on a context: its heap, its   *)
(* transmit queues, its pending count and the list of jobs.                    *)

Context(r) == [heap |-> heap[r], queue |-> queue, pending |-> pending[r], jobs |-> jobs]

Commit(r, c) ==
  /\ heap' = [heap EXCEPT ![r] = c.heap]
  /\ queue' = c.queue
  /\ pending' = [pending EXCEPT ![r] = c.pending]
  /\ jobs' = c.jobs

\* isis_ref_isis_pkt and isis_deref_isis_pkt
Ref(h, p) == [h EXCEPT ![p].ref = @ + 1]
GiveUp(h, n) ==  \* n[p] references to each object p
  [p \in {k \in DOMAIN h : h[k].ref # n[k]} |-> [h[p] EXCEPT !.ref = @ - n[p]]]
Deref(h, p) == GiveUp(h, [k \in DOMAIN h |-> IF k = p THEN 1 ELSE 0])

\* A new object is held by its creator.  Its address is not that of another:
\* named after what it holds at first, it makes equal heaps equal.
Address(h, x) == LET at(k) == <<x.own, x.seq, k>>
                 IN at(CHOOSE k \in 0..Cardinality(DOMAIN h) :
                         at(k) \notin DOMAIN h /\ \A n \in 0..(k - 1) : at(n) \in DOMAIN h)
New(h, x) ==
  [p \in DOMAIN h \cup {Address(h, x)} |->
     IF p \in DOMAIN h THEN h[p]
     ELSE [own |-> x.own, seq |-> x.seq, adjs |-> x.adjs, tlv |-> x.tlv,
           purge |-> x.purge, live |-> TRUE, ref |-> 1, db |-> FALSE]]

\* isis_lookup_lsp_from_lsdb: the installed LSP of router o, or NULL.
Lookup(h, o) ==
  LET found == {p \in DOMAIN h : h[p].db /\ h[p].own = o}
  IN IF found = {} THEN NULL ELSE CHOOSE p \in found : TRUE

\* isis_add_lsp_pkt_in_lspdb, and isis_remove_lsp_pkt_from_lspdb.
Install_unref(h, p) == [h EXCEPT ![p].db = TRUE]  \* mutant: no reference is taken
Install(h, p) == [Ref(h, p) EXCEPT ![p].db = TRUE]
Remove1(h, p) == Deref([h EXCEPT ![p].db = FALSE], p)

\* isis_cleanup_lsdb
EmptyDb_none(h) == h  \* mutant
EmptyDb_leak(h) ==  \* mutant: no reference is given up
  [p \in DOMAIN h |-> [h[p] EXCEPT !.db = FALSE]]
EmptyDb(h) == GiveUp([p \in DOMAIN h |-> [h[p] EXCEPT !.db = FALSE]],
                     [p \in DOMAIN h |-> IF h[p].db THEN 1 ELSE 0])

\* An installed LSP is replaced: it is not to be sent any more.
Evict(h, p) == IF p = NULL THEN h ELSE Remove1([h EXCEPT ![p].live = FALSE], p)
Replace(h, x) == Install(Evict(New(h, x), Lookup(h, x.own)), Address(h, x))

\* isis_queue_lsp_pkt_for_transmission, on the interfaces to S
Enqueue(c, r, S, p) ==
  LET on == {s \in S : enabled[<<r, s>>] /\ c.heap[p].live}
      new == {s \in on : ~Listed(c.jobs, Xmit(r, s))}
  IN [heap |-> [c.heap EXCEPT ![p].ref = @ + Cardinality(on)],
      queue |-> [i \in Intfs |-> IF i[1] = r /\ i[2] \in on THEN Append(c.queue[i], p)
                                                           ELSE c.queue[i]],
      pending |-> c.pending + Cardinality(on),
      jobs |-> c.jobs \o SetToSeq({Xmit(r, s) : s \in new})]

\* isis_schedule_lsp_flood: interfaces in no group, the receiving one not
\* excepted, and of each other group an interface whose adjacency is up.
Grouped(i) == i[1] \in DynGroup /\ adj[i] # "none"
FloodPeers(r, from) ==
  {s \in Peers(r) : /\ enabled[<<r, s>>]
                    /\ Grouped(<<r, s>>) => s # from /\ adj[<<r, s>>] = "UP"}
Flood(c, r, p, from) == Enqueue(c, r, FloodPeers(r, from), p)

\* isis_schedule_lsp_pkt_generation, isis_schedule_spf_job
Generation(r, js) == IF life[r] = "on" THEN Post(js, Gen(r)) ELSE js
SpfIf(b, r, js) == IF b THEN Post(js, Spf(r)) ELSE js

------------------------------------------------------------------------------
(* Generation of the own LSP: isis_generate_lsp_pkt                            *)

Purging(r) == life[r] = "stopping"
OwnLsp(r) ==
  [own |-> r, seq |-> seqNo[r] + 1, adjs |-> IF Purging(r) THEN {} ELSE UpPeers(r),
   tlv |-> ~Purging(r) /\ recon[r] # "off", purge |-> Purging(r)]

\* self_lsp_pkt is given up, if there is one.
Forget(h, p) == IF p = NULL THEN h ELSE Deref([h EXCEPT ![p].live = FALSE], p)

Generate(r) ==
  LET h == Forget(heap[r], self[r])
      p == Address(h, OwnLsp(r))
      old == Lookup(h, r)
      c == Flood([Context(r) EXCEPT !.heap = Replace(h, OwnLsp(r)), !.jobs = Tail(@)], r, p, NULL)
  IN /\ jobs # << >> /\ Head(jobs) = Gen(r)
     /\ seqNo' = [seqNo EXCEPT ![r] = @ + 1]
     /\ self' = [self EXCEPT ![r] = p]
     /\ Commit(r, [c EXCEPT !.jobs = SpfIf(old = NULL /\ ~Purging(r), r, @)])
     /\ broken' = IF old # NULL /\ h[old].seq > seqNo[r] THEN "assert" ELSE broken
     /\ UNCHANGED <<life, enabled, adj, recon, stack, events>>

------------------------------------------------------------------------------
(* Reception: isis_process_lsp_pkt and isis_install_lsp, for the packet on top *)
(* of the stack.  The job goes on until the stack is empty.                    *)

Msg == Head(stack).lsp
To  == Head(stack).to[1]
Via == Head(stack).to[2]
Old == Lookup(heap[To], Msg.own)
OldSeq == heap[To][Old].seq

Accepted == life[To] = "on" /\ enabled[<<To, Via>>] /\ adj[<<To, Via>>] = "UP"
Arrival ==
  /\ jobs # << >> /\ Head(jobs) = Pkts
  /\ stack' = Tail(stack)
  /\ UNCHANGED <<life, enabled, adj, recon, events>>
Rest == [Context(To) EXCEPT !.jobs = IF Len(stack) = 1 THEN Tail(@) ELSE @]

Fresh == Old = NULL
Newer == ~Fresh /\ Msg.seq > OldSeq
Older == ~Fresh /\ Msg.seq < OldSeq
Same  == ~Fresh /\ Msg.seq = OldSeq

\* Not accepted, or a duplicate, or the purge of an LSP not known.
ReceiveNothing ==
  /\ Arrival
  /\ ~Accepted \/ Same \/ (Fresh /\ Msg.purge /\ Msg.own # To)
  /\ Commit(To, Rest)
  /\ UNCHANGED <<self, seqNo, broken>>

\* The own LSP, unknown here or newer than the one known here.
ReceiveOwn_ignored ==  \* mutant
  /\ Arrival /\ Accepted
  /\ Msg.own = To /\ (Fresh \/ Newer)
  /\ Commit(To, Rest)
  /\ UNCHANGED <<self, seqNo, broken>>
ReceiveOwn ==
  /\ Arrival /\ Accepted
  /\ Msg.own = To /\ (Fresh \/ Newer)
  /\ seqNo' = [seqNo EXCEPT ![To] = Msg.seq]
  /\ Commit(To, [Rest EXCEPT !.jobs = SpfIf(Fresh /\ ~Msg.purge, To, Generation(To, @))])
  /\ UNCHANGED <<self, broken>>

\* An LSP older than the one known here: the newer one is flooded, or sent back.
ReceiveOlder ==
  /\ Arrival /\ Accepted
  /\ Older
  /\ Commit(To, IF Msg.own = To THEN Flood(Rest, To, Old, NULL) ELSE Enqueue(Rest, To, {Via}, Old))
  /\ UNCHANGED <<self, seqNo, broken>>

\* isis_is_lsp_diff
Body(x) == <<x.adjs, x.tlv, x.purge>>
Differs == Fresh \/ Body(heap[To][Old]) # Body(Msg)

\* A new LSP of another router is stored and flooded on.  If it asks for a
\* flood, the own LSP is sent again under the next sequence number, which is
\* written into the present object, wherever that is referred to.
Store ==
  LET p == Address(heap[To], Msg)
      c == Flood([Rest EXCEPT !.heap = Replace(@, Msg)], To, p, Via)
  IN [c EXCEPT !.heap = Deref(@, p), !.jobs = SpfIf(Differs, To, @)]

Demanded_never == FALSE  \* mutant
Demanded == Msg.tlv /\ recon[To] = "off" /\ ~Listed(jobs, Gen(To))

ReceiveNew ==
  /\ Arrival /\ Accepted
  /\ Msg.own # To /\ ~Msg.purge /\ (Fresh \/ Newer)
  /\ ~Demanded
  /\ Commit(To, Store)
  /\ UNCHANGED <<self, seqNo, broken>>

ReceiveDemand ==
  /\ Arrival /\ Accepted
  /\ Msg.own # To /\ ~Msg.purge /\ (Fresh \/ Newer)
  /\ Demanded
  /\ IF self[To] # NULL /\ heap[To][self[To]].live
     THEN /\ seqNo' = [seqNo EXCEPT ![To] = @ + 1]
          /\ Commit(To, Flood([Store EXCEPT !.heap[self[To]].seq = seqNo[To] + 1],
                              To, self[To], NULL))
     ELSE /\ Commit(To, [Store EXCEPT !.jobs = Generation(To, @)])
          /\ UNCHANGED seqNo
  /\ broken' = IF self[To] = NULL THEN "null" ELSE broken
  /\ UNCHANGED self

\* A purge takes the LSP out of the database and is flooded on.
ReceivePurge ==
  /\ Arrival /\ Accepted
  /\ Msg.own # To /\ Msg.purge /\ Newer
  /\ LET p == Address(heap[To], Msg)
         c == Flood([Rest EXCEPT !.heap = Evict(New(@, Msg), Old)], To, p, Via)
     IN Commit(To, [c EXCEPT !.heap = Deref(@, p), !.jobs = Post(@, Spf(To))])
  /\ UNCHANGED <<self, seqNo, broken>>

------------------------------------------------------------------------------
(* Transmission (isis_lsp_xmit_job), shutdown at its end, and the SPF job.     *)

DerefAll(h, ps) ==
  GiveUp(h, [p \in DOMAIN h |-> Cardinality({k \in DOMAIN ps : ps[k] = p})])

\* The places of the transmit queues of a router, and those where p waits.
Places(q, r) == UNION {{s} \X DOMAIN q[<<r, s>>] : s \in Peers(r)}
Waiting(q, r, p) == {x \in Places(q, r) : q[<<r, x[1]>>][x[2]] = p}

\* The references to an object that isis_protocol_shutdown_now gives up.
Held(r, p) ==
  (IF self[r] = p THEN 1 ELSE 0) + (IF heap[r][p].db THEN 1 ELSE 0)
    + Cardinality(Waiting(queue, r, p))

ShutdownNow(r, js) ==
  /\ life' = [life EXCEPT ![r] = "off"]
  /\ enabled' = [i \in Intfs |-> enabled[i] /\ i[1] # r]
  /\ adj' = [i \in Intfs |-> IF i[1] = r THEN "none" ELSE adj[i]]
  /\ heap' = [heap EXCEPT ![r] = GiveUp([p \in DOMAIN @ |-> [@[p] EXCEPT !.db = FALSE]],
                                        [p \in DOMAIN @ |-> Held(r, p)])]
  /\ self' = [self EXCEPT ![r] = NULL] /\ seqNo' = [seqNo EXCEPT ![r] = 0]
  /\ recon' = [recon EXCEPT ![r] = "off"]
  /\ queue' = [i \in Intfs |-> IF i[1] = r THEN << >> ELSE queue[i]]
  /\ pending' = [pending EXCEPT ![r] = 0]
  /\ jobs' = Without(js, {Xmit(r, s) : s \in Routers})
  /\ broken' = IF Listed(js, Gen(r)) \/ Listed(js, Spf(r)) THEN "assert" ELSE broken

Finishes(r, s) == /\ pending[r] = Len(queue[<<r, s>>])
                  /\ life[r] = "stopping" /\ ~Listed(jobs, Gen(r))

Transmit(r, s) ==
  LET dead == {p \in DOMAIN heap[r] : adj[<<r, s>>] # "UP" \/ ~heap[r][p].live}
      sent == Without(queue[<<r, s>>], dead)
      Packet(o) == [to |-> <<s, r>>, lsp |-> [own |-> o.own, seq |-> o.seq, adjs |-> o.adjs,
                                              tlv |-> o.tlv, purge |-> o.purge]]
      js == IF sent = << >> THEN Tail(jobs) ELSE Post(Tail(jobs), Pkts)
  IN /\ jobs # << >> /\ Head(jobs) = Xmit(r, s)
     /\ stack' = Reverse([k \in DOMAIN sent |-> Packet(heap[r][sent[k]])]) \o stack
     /\ IF Finishes(r, s)
        THEN ShutdownNow(r, js)
        ELSE /\ heap' = [heap EXCEPT ![r] = DerefAll(@, queue[<<r, s>>])]
             /\ queue' = [queue EXCEPT ![<<r, s>>] = << >>]
             /\ pending' = [pending EXCEPT ![r] = @ - Len(queue[<<r, s>>])]
             /\ jobs' = js
             /\ UNCHANGED <<life, enabled, adj, self, seqNo, recon, broken>>
     /\ UNCHANGED events

\* isis_run_spf: no route is computed, only the pointer to the job is cleared.
RunSpf(r) ==
  /\ jobs # << >> /\ Head(jobs) = Spf(r)
  /\ jobs' = Tail(jobs)
  /\ UNCHANGED <<life, enabled, adj, heap, self, seqNo, recon, queue, pending, stack, broken, events>>

------------------------------------------------------------------------------
(* Adjacencies: the hellos of a neighbour are heard unless it is silent.       *)

Silent(r, s) == life[s] = "off" \/ ~enabled[<<s, r>>]
SetAdj(r, s, a) == adj' = [adj EXCEPT ![<<r, s>>] = a]
Event == events < MaxEvents /\ events' = events + 1

Hears(r, s) == life[r] = "on" /\ enabled[<<r, s>>] /\ ~Silent(r, s)

\* The hellos that make an adjacency and bring it up.  The first adjacency
\* starts reconciliation, others prolong it, or a new LSP is generated.
AdjUp(r, s) ==
  /\ Hears(r, s) /\ adj[<<r, s>>] # "UP"
  /\ SetAdj(r, s, "UP")
  /\ recon' = [recon EXCEPT ![r] = IF (@ = "off") = (UpPeers(r) = {}) THEN "new" ELSE @]
  /\ jobs' = IF recon[r] = "off" THEN Generation(r, jobs) ELSE jobs
  /\ UNCHANGED <<life, enabled, heap, self, seqNo, queue, pending, stack, broken, events>>

\* Hellos stay out for the hold time; a new LSP is generated, or left to the end
\* of reconciliation, whose timer a router that is stopping has lost.
AdjDown(r, s) ==
  LET prolong == recon[r] # "off" /\ UpPeers(r) # {s}
  IN /\ life[r] # "off" /\ adj[<<r, s>>] = "UP"
     /\ IF Silent(r, s) THEN UNCHANGED events ELSE Event
     /\ SetAdj(r, s, "DOWN")
     /\ recon' = [recon EXCEPT ![r] = IF prolong THEN "new" ELSE @]
     /\ jobs' = IF prolong THEN jobs ELSE Generation(r, jobs)
     /\ broken' = IF prolong /\ life[r] = "stopping" THEN "assert" ELSE broken
     /\ UNCHANGED <<life, enabled, heap, self, seqNo, queue, pending, stack>>

AdjDelete(r, s) ==
  /\ life[r] # "off" /\ Silent(r, s) /\ adj[<<r, s>>] = "DOWN"
  /\ SetAdj(r, s, "none")
  /\ UNCHANGED <<life, enabled, heap, self, seqNo, recon, queue, pending, jobs, stack,
                 broken, events>>

------------------------------------------------------------------------------
(* Timers.  Hellos are three seconds apart and two bring an adjacency up; LSPs *)
(* are flooded in no time.  Reconciliation floods every two seconds and ends   *)
(* ten seconds after the last adjacency came up or went: its last flood, which *)
(* stands for all, and its end find neither in progress.                       *)

\* An adjacency of router r is still coming up, here or there.
Forming(r) == \E s \in Peers(r) : \/ Hears(r, s) /\ adj[<<r, s>>] # "UP"
                                  \/ Hears(s, r) /\ adj[<<s, r>>] # "UP"

Quiet == jobs = << >> /\ \A r \in Routers : recon[r] = "off" \/ life[r] # "on"

\* isis_timer_wrapper_lsp_flood, every two seconds during reconciliation.
ReconFlood(r) ==
  /\ life[r] = "on" /\ recon[r] = "new" /\ jobs = << >> /\ ~Forming(r)
  /\ recon' = [recon EXCEPT ![r] = "flooded"]
  /\ jobs' = Generation(r, jobs)
  /\ UNCHANGED <<life, enabled, adj, heap, self, seqNo, queue, pending, stack, broken, events>>

\* isis_exit_reconciliation_phase
ReconExit_silent(r) ==  \* mutant: no LSP is generated
  /\ life[r] = "on" /\ recon[r] = "flooded" /\ jobs = << >> /\ ~Forming(r)
  /\ recon' = [recon EXCEPT ![r] = "off"]
  /\ UNCHANGED <<life, enabled, adj, heap, self, seqNo, queue, pending, jobs, stack, broken, events>>
ReconExit(r) ==
  /\ life[r] = "on" /\ recon[r] = "flooded" /\ jobs = << >> /\ ~Forming(r)
  /\ recon' = [recon EXCEPT ![r] = "off"]
  /\ jobs' = Generation(r, jobs)
  /\ UNCHANGED <<life, enabled, adj, heap, self, seqNo, queue, pending, stack, broken, events>>

\* The same, every 20 minutes else: only when nothing else is left to happen,
\* and once per router is enough.
Refresh(r) ==
  /\ life[r] = "on" /\ events > 0 /\ Quiet /\ r \notin fresh
  /\ jobs' = Generation(r, jobs)
  /\ UNCHANGED <<life, enabled, adj, heap, self, seqNo, recon, queue, pending, stack,
                 broken, events>>

\* isis_lsp_pkt_delete_from_lspdb_timer_cb, for a router that refreshes its LSP
\* no more; the lifetime of an LSP is long against any work of the dispatcher.
Expire(r, o) ==
  LET p == Lookup(heap[r], o)
  IN /\ life[r] # "off" /\ o # r /\ p # NULL /\ jobs = << >>
     /\ life[o] = "off" \/ UpPeers(o) = {}
     /\ heap' = [heap EXCEPT ![r] = Remove1(@, p)]
     /\ UNCHANGED <<life, enabled, adj, self, seqNo, recon, queue, pending, jobs, stack,
                    broken, events>>

------------------------------------------------------------------------------
(* Commands                                                                    *)

\* clear node protocol isis lsdb
Clear(r) ==
  /\ Event /\ life[r] # "off"
  /\ heap' = [heap EXCEPT ![r] = EmptyDb(@)]
  /\ seqNo' = [seqNo EXCEPT ![r] = 0]
  /\ recon' = [recon EXCEPT ![r] = IF @ = "off" THEN "new" ELSE @]
  /\ jobs' = IF recon[r] = "off" THEN Generation(r, jobs) ELSE jobs
  /\ broken' = IF recon[r] = "off" /\ life[r] = "stopping" THEN "null" ELSE broken
  /\ UNCHANGED <<life, enabled, adj, self, queue, pending, stack>>

\* isis_de_init: the tasks are cancelled; a purge is to be sent first if an
\* interface is enabled.
Shutdown(r) ==
  LET js == Without(jobs, {Gen(r), Spf(r)})
  IN /\ Event /\ life[r] = "on"
     /\ IF \E s \in Peers(r) : enabled[<<r, s>>]
        THEN /\ life' = [life EXCEPT ![r] = "stopping"]
             /\ jobs' = Append(js, Gen(r))
             /\ UNCHANGED <<enabled, adj, heap, self, seqNo, recon, queue, pending, broken>>
        ELSE ShutdownNow(r, js)
     /\ UNCHANGED stack

\* isis_init; isis_enable_protocol_on_interface for all interfaces
Start(r) ==
  /\ life[r] = "off"
  /\ life' = [life EXCEPT ![r] = "on"]
  /\ jobs' = Post(jobs, Gen(r))
  /\ UNCHANGED <<enabled, adj, heap, self, seqNo, recon, queue, pending, stack, broken, events>>

EnableAll(r) ==
  /\ life[r] # "off" /\ \E s \in Peers(r) : ~enabled[<<r, s>>]
  /\ enabled' = [i \in Intfs |-> enabled[i] \/ i[1] = r]
  /\ UNCHANGED <<life, adj, heap, self, seqNo, recon, queue, pending, jobs, stack, broken, events>>

\* isis_disable_protocol_on_interface: the queue is emptied but its length stays
\* in pending_lsp_flood_count.
DisableIntf(r, s) ==
  /\ Event /\ life[r] # "off" /\ enabled[<<r, s>>]
  /\ enabled' = [enabled EXCEPT ![<<r, s>>] = FALSE]
  /\ SetAdj(r, s, "none")
  /\ heap' = [heap EXCEPT ![r] = DerefAll(@, queue[<<r, s>>])]
  /\ queue' = [queue EXCEPT ![<<r, s>>] = << >>]
  /\ jobs' = Without(jobs, {Xmit(r, s)})
  /\ UNCHANGED <<life, self, seqNo, recon, pending, stack, broken>>

------------------------------------------------------------------------------
Receive == \/ ReceiveNothing \/ ReceiveOwn \/ ReceiveOlder \/ ReceiveNew
           \/ ReceiveDemand \/ ReceivePurge

Dispatch ==
  \/ \E r \in Routers : Generate(r) /\ fresh' = fresh \cup {r}
  \/ /\ \/ Receive
        \/ \E r \in Routers : RunSpf(r)
        \/ \E i \in Intfs : Transmit(i[1], i[2])
     /\ UNCHANGED fresh

Timers ==
  /\ \E r \in Routers : \/ ReconFlood(r) \/ ReconExit(r) \/ Refresh(r)
                         \/ \E o \in Routers : Expire(r, o)
  /\ UNCHANGED fresh

Hellos == \E i \in Intfs : \/ AdjUp(i[1], i[2])
                           \/ AdjDown(i[1], i[2]) \/ AdjDelete(i[1], i[2])

Commands == \/ \E r \in Routers : Clear(r) \/ Shutdown(r) \/ Start(r) \/ EnableAll(r)
            \/ \E i \in Intfs : DisableIntf(i[1], i[2])

Next == broken = "no" /\ (Dispatch \/ Timers \/ ((Hellos \/ Commands) /\ fresh' = {}))

Spec == Init /\ [][Next]_vars

------------------------------------------------------------------------------
(* Properties *)

Lsps == [own : Routers, seq : Nat, adjs : SUBSET Routers, tlv : BOOLEAN, purge : BOOLEAN,
         live : BOOLEAN, ref : Nat \ {0}, db : BOOLEAN]

\* Every variable has its type.
TypeOK ==
  /\ life \in [Routers -> {"off", "on", "stopping"}]
  /\ enabled \in [Intfs -> BOOLEAN] /\ adj \in [Intfs -> {"none", "DOWN", "UP"}]
  /\ \A r \in Routers : /\ \A p \in DOMAIN heap[r] : heap[r][p] \in Lsps
                         /\ self[r] \in DOMAIN heap[r] \cup {NULL}
                         /\ \A s \in Peers(r) : ToSet(queue[<<r, s>>]) \subseteq DOMAIN heap[r]
  /\ seqNo \in [Routers -> Nat]
  /\ recon \in [Routers -> {"off", "new", "flooded"}]
  /\ pending \in [Routers -> Nat]
  /\ broken \in {"no", "assert", "null"}

\* Reference counts: an object exists exactly as long as the database, the self
\* pointer or a queue refers to it, and counts each of these references once.
RefCountSound == \A r \in Routers : \A p \in DOMAIN heap[r] : heap[r][p].ref = Held(r, p)

\* isis_install_lsp asserts that an own LSP is never older than, or as old as,
\* the one installed; it is not although commands and packets reset seq_no.
OwnSeqSound ==
  \A r \in Routers : LET p == Lookup(heap[r], r) IN p # NULL => heap[r][p].seq <= seqNo[r]

\* A router asks for floods by its LSP only as long as it reconciles, or its next
\* LSP is already due: else two such routers would flood each other for ever.
DemandEnds ==
  \A r \in Routers :
    (life[r] = "on" /\ self[r] # NULL) =>
      (heap[r][self[r]].tlv => recon[r] # "off" \/ Listed(jobs, Gen(r)))

Linked(r, s) == <<r, s>> \in Intfs /\ adj[<<r, s>>] = "UP" /\ adj[<<s, r>>] = "UP"
                /\ life[r] = "on" /\ life[s] = "on"
Stable == Quiet /\ \A i \in Intfs : adj[i] = "UP" <=> Linked(i[1], i[2])

\* The routers around a link hold the last LSP of each other and of their
\* neighbours, and it names the adjacencies that are up.
InStep(r, s) ==
  \A o \in {r, s} \cup {x \in Routers : Linked(r, x) \/ Linked(s, x)} :
    LET p == Lookup(heap[r], o) IN p # NULL /\ heap[r][p].adjs = UpPeers(o) /\ heap[r][p].seq = seqNo[o]

\* On-demand flooding synchronises routers that come up, without the periodic
\* flooding of LSPs 20 minutes later.
BootSync == Stable /\ events = 0 => \A r, s \in Routers : Linked(r, s) => InStep(r, s)

\* Whatever happened, once each router has flooded its LSP the databases agree.
Converged == Stable /\ fresh = Routers => \A r, s \in Routers : Linked(r, s) => InStep(r, s)

=============================================================================
