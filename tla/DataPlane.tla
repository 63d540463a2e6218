----------------------------- MODULE DataPlane -----------------------------
(***************************************************************************)
(* Layers 2 and 3 of the nodes on point-to-point links: a packet is routed *)
(* (layer3.c), its next hop is resolved (layer2.c, arp.c), and frames wait *)
(* in the receive queue of the process (comm.c), which is a stack.  A      *)
(* frame, a command and a timer job are one step each.                     *)
(*                                                                         *)
(* An interface stands for its MAC and its IP address, a node for its      *)
(* loopback address; the subnet of an interface is itself and its peer.    *)
(* "home" tells where each packet is; it is not kept by the code.          *)
(***************************************************************************)
EXTENDS Naturals, SequencesExt, FiniteSets, TLC

CONSTANTS
  Nodes, Ports,    \* nodes, and their interfaces
  Owner, Peer,     \* per interface, its node and the other end of its link
  Routes,          \* per node, destination -> [direct, gw, oif]
  Pings,           \* the pings sent: <<node, destination>>
  Ttl,             \* the initial TTL, 64 in the code
  Refreshers,      \* interfaces whose peer ISIS may map (isis_layer2map.c)
  MaxPings, MaxDowns, MaxIsis  \* bounds on pings and on commands

NoPort == "none"
NoMac  == "zero"
Bcast  == "broadcast"
Zero   == "0.0.0.0"

VARIABLES
  arp,   \* per node, its ARP table: address -> entry
  wire,  \* recvr_pkt_q: frames, the next one to be served first
  jobs,  \* timer jobs queued: [node, ip, live]
  up,    \* interfaces that are up
  home,  \* per packet sent: "wire", "pending", "done" or why it was dropped
  died,  \* "no", "assert" or "uaf"
  sent,  \* the pings sent so far
  downs, isis

vars == <<arp, wire, jobs, up, home, died, sent, downs, isis>>

NodePorts(n) == {i \in Ports : Owner[i] = n}
Entry == [mac : Ports \cup {NoMac}, sane : BOOLEAN, proto : {"arp", "isis"},
          pend : Seq([id : Nat, dst : STRING, ttl : Nat]), timer : {"off", "armed", "fired"}]

Init ==
  /\ arp = [n \in Nodes |-> << >>] /\ wire = << >> /\ jobs = << >> /\ up = Ports
  /\ home = << >> /\ died = "no" /\ sent = << >> /\ downs = 0 /\ isis = 0

\* What a handler changes is passed through the calls it makes.
Ctx == [arp |-> arp, wire |-> wire, jobs |-> jobs, home |-> home, died |-> died]
Put(c) == /\ arp' = c.arp /\ wire' = c.wire /\ jobs' = c.jobs
          /\ home' = c.home /\ died' = c.died

Without(f, x) == [y \in DOMAIN f \ {x} |-> f[y]]
Place(c, p, where) == [c EXCEPT !.home[p.id] = where]

------------------------------------------------------------------------------
(* Frames *)

Frame(dst, type, body) == [dst |-> dst, type |-> type, body |-> body]

\* send_pkt_out; the frame is received by the peer
SendOut(c, i, frame) ==
  LET isIp == frame.type = "ip"
  IN IF i \notin up
     THEN IF isIp THEN Place(c, frame.body, "down") ELSE c
     ELSE LET d == [c EXCEPT !.wire = <<[at |-> Peer[i], frame |-> frame]>> \o @]
          IN IF isIp THEN Place(d, frame.body, "wire") ELSE d

\* send_pkt_to_self, with both MAC addresses zero
SendToSelf(c, i, p) ==
  IF i \notin up THEN Place(c, p, "down")
  ELSE Place([c EXCEPT !.wire = <<[at |-> i, frame |-> Frame(NoMac, "ip", p)]>> \o @], p, "wire")

\* l2_frame_recv_qualify_on_interface, for an interface in layer-3 mode
Qualifies(i, frame) == frame.dst = i \/ frame.dst = Bcast

------------------------------------------------------------------------------
(* The ARP table *)

\* A job whose entry is freed keeps a dangling pointer.
Orphan(js, n, ip) ==
  [k \in DOMAIN js |-> IF js[k].node = n /\ js[k].ip = ip THEN [js[k] EXCEPT !.live = FALSE] ELSE js[k]]

\* delete_arp_entry: the packets that wait are dropped
Drop(c, p) == Place(c, p, "expired")
DeleteEntry(c, n, ip) ==
  FoldLeft(Drop, [c EXCEPT !.arp[n] = Without(@, ip), !.jobs = Orphan(@, n, ip)], c.arp[n][ip].pend)

\* arp_entry_refresh_expiration_timer
Refresh(e) == IF e.timer = "off" THEN e ELSE [e EXCEPT !.timer = "armed"]

\* arp_entry_create_expiration_timer, for entries of ARP itself.  (It has no
\* return statement; with the flags of the Makefile its callers store the
\* register that still holds the timer.)
Timed_never(e) == e  \* mutant
Timed(e) == [e EXCEPT !.timer = IF e.proto = "arp" THEN "armed" ELSE "off"]

NewEntry(mac, sane, proto, pend) ==
  [mac |-> mac, sane |-> sane, proto |-> proto, pend |-> pend, timer |-> "off"]

Same(e, f) == ~e.sane /\ ~f.sane /\ e.mac = f.mac /\ e.proto = f.proto

MayReplace(old, new) == ~old.sane /\ (old.proto = new.proto \/ (old.proto = "arp" /\ new.proto = "isis"))

\* arp_table_entry_add for a resolved entry
AddFull(c, n, ip, e) ==
  LET known == ip \in DOMAIN c.arp[n]
      old   == c.arp[n][ip]
      Store(d) == [d EXCEPT !.arp[n] = (ip :> Timed(e)) @@ @]
  IN IF ~known THEN Store(c)
     ELSE IF Same(old, e) THEN c
     ELSE IF MayReplace(old, e) THEN Store(DeleteEntry(c, n, ip))
     ELSE IF old.sane
     THEN [c EXCEPT !.arp[n][ip] = Refresh([@ EXCEPT !.mac = e.mac, !.proto = e.proto])]
     ELSE c

\* create_arp_sane_entry: an entry that waits for a reply, with the packet
CreateSane(c, n, ip, p) ==
  Place(IF ip \notin DOMAIN c.arp[n]
        THEN [c EXCEPT !.arp[n] = (ip :> Timed(NewEntry(NoMac, TRUE, "arp", <<p>>))) @@ @]
        ELSE IF c.arp[n][ip].sane
        THEN [c EXCEPT !.arp[n][ip] = Refresh([@ EXCEPT !.pend = <<p>> \o @])]
        ELSE [c EXCEPT !.died = "assert"],
        p, "pending")

\* send_arp_broadcast_request
Request(c, i, ip) == SendOut(c, i, Frame(Bcast, "request", [src |-> i, dst |-> ip]))

\* arp_table_update_from_arp_reply: the table, then the packets that waited
\* for the entry go out, the latest first, and the entry is resolved.
FlushOf(e, fresh) == IF e.sane THEN e.pend ELSE << >>
Reply(c, i, ip) ==
  LET n == Owner[i]
      e == NewEntry(ip, FALSE, "arp", << >>)
      known == ip \in DOMAIN c.arp[n]
      waiting == IF known THEN FlushOf(c.arp[n][ip], e) ELSE << >>
      d == AddFull(c, n, ip, e)
      Send(x, p) == SendOut(x, i, Frame(ip, "ip", p))
  IN IF ~known \/ ~c.arp[n][ip].sane THEN d
     ELSE [FoldLeft(Send, d, waiting) EXCEPT !.arp[n][ip].sane = FALSE,
                                             !.arp[n][ip].pend = SelectSeq(@, LAMBDA p : ~Contains(waiting, p))]

------------------------------------------------------------------------------
(* Layer 2: l2_forward_ip_packet *)

Subnets(n, ip) == {i \in NodePorts(n) : ip \in {i, Peer[i]}}

\* With an interface from layer 3.  An entry that still waits for its reply is
\* used like a resolved one: the frame carries its MAC address, zero.
Transmit(c, n, ip, i, p) ==
  [SendOut(c, i, Frame(c.arp[n][ip].mac, "ip", p)) EXCEPT !.arp[n][ip] = Refresh(@)]

Resolved(c, n, ip) == ip \in DOMAIN c.arp[n]
ToNextHop(c, n, ip, i, p) ==
  IF Resolved(c, n, ip) THEN Transmit(c, n, ip, i, p)
  ELSE Request(CreateSane(c, n, ip, p), i, ip)

\* Without one: to itself, or to a host of an attached subnet.
ToSubnet(c, n, ip, p) ==
  IF Subnets(n, ip) = {} THEN Place(c, p, "noSubnet")
  ELSE LET i == CHOOSE x \in Subnets(n, ip) : TRUE
       IN IF ip = i THEN SendToSelf(c, i, p)
          ELSE IF Resolved(c, n, ip) /\ ~c.arp[n][ip].sane THEN Transmit(c, n, ip, i, p)
          ELSE Request(CreateSane(c, n, ip, p), i, ip)

------------------------------------------------------------------------------
(* Layer 3 *)

Local(n, ip) == ip = n \/ ip \in NodePorts(n)

\* layer3_ip_pkt_recv_from_layer2.  For a host of an attached subnet layer 2
\* is given no address (0.0.0.0) and no interface.
Aged(p) == [p EXCEPT !.ttl = @ - 1]
Receive(c, n, p) ==
  IF p.dst \notin DOMAIN Routes[n] THEN Place(c, p, "noRoute")
  ELSE LET r == Routes[n][p.dst]
       IN IF r.direct
          THEN IF Local(n, p.dst) THEN Place(c, p, "done") ELSE ToSubnet(c, n, Zero, p)
          ELSE IF Aged(p).ttl = 0 THEN Place(c, p, "ttl")
          ELSE ToNextHop(c, n, r.gw, r.oif, Aged(p))

\* demote_packet_to_layer3
Send(c, n, p) ==
  IF p.dst \notin DOMAIN Routes[n] THEN Place(c, p, "noRoute")
  ELSE LET r == Routes[n][p.dst]
       IN IF ~r.direct THEN ToNextHop(c, n, r.gw, r.oif, p)
          ELSE IF p.dst = n THEN Receive(c, n, p)
          ELSE ToSubnet(c, n, p.dst, p)

------------------------------------------------------------------------------
(* Actions *)

\* layer3_ping_fn
Ping(n, dst) ==
  /\ Len(sent) < MaxPings /\ sent' = Append(sent, <<n, dst>>)
  /\ LET p == [id |-> Len(sent'), dst |-> dst, ttl |-> Ttl]
     IN Put(Send([Ctx EXCEPT !.home = Append(@, "new")], n, p))
  /\ UNCHANGED <<up, downs, isis>>

Answers(i, frame) == frame.type = "request" /\ frame.body.dst = i

\* layer2_frame_recv and promote_pkt_to_layer2
RecvFrame ==
  /\ wire # << >>
  /\ LET i == Head(wire).at
         f == Head(wire).frame
         c == [Ctx EXCEPT !.wire = Tail(@)]
     IN Put(IF ~Qualifies(i, f)
            THEN IF f.type = "ip" THEN Place(c, f.body, "rejected") ELSE c
            ELSE IF f.type = "ip" THEN Receive(c, Owner[i], f.body)
            ELSE IF f.type = "reply" THEN Reply(c, i, f.body)
            ELSE IF Answers(i, f) THEN SendOut(c, i, Frame(f.body.src, "reply", i))
            ELSE c)
  /\ UNCHANGED <<up, sent, downs, isis>>

\* The timer of an entry fires: its job is queued.  A job waits less than the
\* 30 seconds of a timer.
Expire(n, ip) ==
  /\ arp[n][ip].timer = "armed"
  /\ \A k \in DOMAIN jobs : <<jobs[k].node, jobs[k].ip>> # <<n, ip>>
  /\ arp' = [arp EXCEPT ![n][ip].timer = "fired"]
  /\ jobs' = Append(jobs, [node |-> n, ip |-> ip, live |-> TRUE])
  /\ UNCHANGED <<wire, up, home, died, sent, downs, isis>>

\* arp_entry_timer_delete_cbk
ExpiryJob ==
  /\ jobs # << >>
  /\ LET j == Head(jobs)
         c == [Ctx EXCEPT !.jobs = Tail(@)]
     IN Put(IF ~j.live THEN [c EXCEPT !.died = "uaf"] ELSE DeleteEntry(c, j.node, j.ip))
  /\ UNCHANGED <<up, sent, downs, isis>>

\* arp_entry_add and arp_entry_delete, as ISIS calls them
IsisMap(i) ==
  /\ isis < MaxIsis /\ isis' = isis + 1
  /\ Put(AddFull(Ctx, Owner[i], Peer[i], NewEntry(Peer[i], FALSE, "isis", << >>)))
  /\ UNCHANGED <<up, sent, downs>>

IsisUnmap(i) ==
  /\ Peer[i] \in DOMAIN arp[Owner[i]] /\ arp[Owner[i]][Peer[i]].proto = "isis"
  /\ Put(DeleteEntry(Ctx, Owner[i], Peer[i]))
  /\ UNCHANGED <<up, sent, downs, isis>>

\* The interface command "shutdown" and its negation
Toggle(i) ==
  /\ downs < MaxDowns /\ downs' = downs + 1
  /\ up' = IF i \in up THEN up \ {i} ELSE up \cup {i}
  /\ UNCHANGED <<arp, wire, jobs, home, died, sent, isis>>

Next ==
  /\ died = "no"
  /\ \/ \E ping \in Pings : Ping(ping[1], ping[2])
     \/ RecvFrame
     \/ \E n \in Nodes : \E ip \in DOMAIN arp[n] : Expire(n, ip)
     \/ ExpiryJob
     \/ \E i \in Refreshers : IsisMap(i) \/ IsisUnmap(i)
     \/ \E i \in Ports : Toggle(i)

Spec == Init /\ [][Next]_vars

------------------------------------------------------------------------------
(* Properties *)

Entries(n) == {arp[n][ip] : ip \in DOMAIN arp[n]}

OnWire(id) == {k \in DOMAIN wire : wire[k].frame.type = "ip" /\ wire[k].frame.body.id = id}
Waits(id, n, ip, k) == /\ ip \in DOMAIN arp[n] /\ k \in DOMAIN arp[n][ip].pend
                       /\ arp[n][ip].pend[k].id = id
Pending(id) == {x \in Nodes \X Ports \X (1..MaxPings) : Waits(id, x[1], x[2], x[3])}

\* No packet is duplicated or forgotten: a packet neither delivered nor dropped
\* is in exactly one frame or waits for exactly one entry, whatever is
\* resolved, replaced, deleted or expires meanwhile, and the TTL bounds its way.
PacketsKept ==
  died = "no" =>
    \A id \in DOMAIN home :
      /\ Cardinality(OnWire(id)) = (IF home[id] = "wire" THEN 1 ELSE 0)
      /\ Cardinality(Pending(id)) = (IF home[id] = "pending" THEN 1 ELSE 0)
      /\ \A k \in OnWire(id) : wire[k].frame.body.ttl > 0

\* Entries are sound: packets wait exactly for the entries that are not
\* resolved; such an entry, and every resolved entry that ARP made, is timed,
\* so that no packet waits for ever; and a resolved entry, or any frame it
\* addresses, has the MAC address of the owner of the IP address.
EntriesSound ==
  died = "no" =>
    \A n \in Nodes : \A ip \in DOMAIN arp[n] :
      LET e == arp[n][ip]
      IN /\ e.sane <=> e.pend # << >>
         /\ (e.sane \/ e.proto = "arp") <=> e.timer # "off"
         /\ ~e.sane => e.mac = ip
         /\ e.timer = "fired" => \E k \in DOMAIN jobs : jobs[k] = [node |-> n, ip |-> ip, live |-> TRUE]

\* Packets are dropped for these reasons only: an interface was shut down; the
\* entry expired without an answer; no node has the destination, and the TTL
\* ended; the packet was for a host of a subnet which the sender is not attached
\* to (the last router looks for the subnet of 0.0.0.0); or it was sent with a
\* MAC address of zero: to the sender itself, or while another one waits for
\* the same entry.  create_arp_sane_entry never finds the entry resolved.
DropsSound ==
  /\ died # "assert"
  /\ \A id \in DOMAIN home :
       LET src == sent[id][1]
           dst == sent[id][2]
       IN /\ home[id] = "down" => downs > 0
          /\ home[id] = "ttl" => \A n \in Nodes : ~Local(n, dst)
          /\ home[id] = "noSubnet" => dst \in Ports /\ Subnets(src, dst) = {}
          /\ home[id] = "rejected" => Local(src, dst) \/ Len(sent) > 1
          /\ home[id] # "noRoute"

\* Packets, ARP entries and the reasons of drops are sound.
DataPlaneSound == PacketsKept /\ EntriesSound /\ DropsSound
=============================================================================
