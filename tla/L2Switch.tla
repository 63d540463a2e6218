------------------------------ MODULE L2Switch ------------------------------
(***************************************************************************)
(* Learning switches with VLANs (l2switch.c, layer2.c, layer2.h, net.c):   *)
(* hosts, whose interfaces are in layer-3 mode, exchange frames over the   *)
(* ports of switches.  Modes and VLANs are configured while the topology   *)
(* is built, before the first frame (nwcli.c compiles their commands out), *)
(* addresses at any time.  Frames wait in the receive queue of the process *)
(* (a stack).  A command and the receipt of a frame are one step each.     *)
(*                                                                         *)
(* "vlan" and "by" in a frame are not in the code: the VLAN of the port by *)
(* which it entered the first switch, and of the access port it left.      *)
(***************************************************************************)
EXTENDS Naturals, SequencesExt

CONSTANTS
  Hosts, Switches, Ports,   \* Ports: of the switches
  At, Link,                 \* per port, its switch and the host or port it leads to
  Modes, Members,           \* per port, its first mode and the VLANs it is a member of
  Edges,                    \* ports whose mode and address are configured
  Vlans, Slots,             \* VLAN ids; MAX_VLAN_MEMBERSHIP
  Sends,                    \* <<source, destination>> of the frames sent
  MaxSends, MaxConfigs      \* bounds on frames and on commands

Bcast == "broadcast"

VARIABLES
  mode,   \* per port "access", "trunk", "unknown" (intf_l2_mode)
  ip,     \* ports with an IP address: in layer-3 mode
  vlans,  \* per port, its slots: a VLAN or 0
  table,  \* per switch, the MAC table: address -> port
  wire,   \* frames on their way, the next one to be served first
  got,    \* frames that hosts accepted
  died, frames, configs,
  raced   \* a frame was sent while another one was on its way

vars == <<mode, ip, vlans, table, wire, got, died, frames, configs, raced>>

PortsOf(s) == {p \in Ports : At[p] = s}
PortTo(x) == CHOOSE p \in Ports : Link[p] = x
Empty == [k \in 1..Slots |-> 0]
Filled(members) == [k \in 1..Slots |-> IF k <= Len(members) THEN members[k] ELSE 0]

Init ==
  /\ mode = Modes /\ vlans = [p \in Ports |-> Filled(Members[p])]
  /\ ip = {p \in Ports : Modes[p] = "unknown"}
  /\ table = [s \in Switches |-> << >>]
  /\ wire = << >> /\ got = << >> /\ died = FALSE /\ frames = 0 /\ configs = 0
  /\ raced = FALSE

L2(p) == mode[p] \in {"access", "trunk"}

------------------------------------------------------------------------------
(* Configuration *)

Configures == /\ ~died /\ configs < MaxConfigs /\ configs' = configs + 1
              /\ UNCHANGED <<table, wire, got, died, frames, raced>>

Building == frames = 0

\* interface_set_l2_mode.  From layer 3, only the address is given up; from
\* trunk to access the port leaves its VLANs.
LeavesVlans(p, m) == p \notin ip /\ mode[p] = "trunk" /\ m = "access"
SetMode(p, m) ==
  /\ Configures /\ Building
  /\ mode' = [mode EXCEPT ![p] = m] /\ ip' = ip \ {p}
  /\ vlans' = IF LeavesVlans(p, m) THEN [vlans EXCEPT ![p] = Empty] ELSE vlans

Used(p) == {k \in 1..Slots : vlans[p][k] # 0}
Free(p) == 1..Slots \ Used(p)

\* interface_set_vlan: an access port has one VLAN, in its last slot in use; a
\* trunk port takes its first free slot unless the VLAN stands in a later one.
SlotFor(p, v) ==
  IF mode[p] = "access" THEN IF Used(p) = {} THEN {1} ELSE {Max(Used(p))}
  ELSE IF Free(p) = {} \/ v \in {vlans[p][k] : k \in 1..Slots} THEN {} ELSE {Min(Free(p))}

SetVlan(p, v) ==
  /\ Configures /\ Building /\ p \notin ip /\ L2(p)
  /\ vlans' = [vlans EXCEPT ![p] = [k \in 1..Slots |-> IF k \in SlotFor(p, v) THEN v ELSE @[k]]]
  /\ UNCHANGED <<mode, ip>>

\* interface_set_ip_addr refuses a port in layer-2 mode; interface_unset_ip_addr
MaySetIp(p) == ~L2(p)
SetIp(p)   == Configures /\ MaySetIp(p) /\ ip' = ip \cup {p} /\ UNCHANGED <<mode, vlans>>
UnsetIp(p) == Configures /\ ip' = ip \ {p} /\ UNCHANGED <<mode, vlans>>

------------------------------------------------------------------------------
(* Frames *)

AccessVlan(p) == vlans[p][1]                               \* get_access_intf_operating_vlan_id
Enabled(p, v) == \E k \in 1..Slots : vlans[p][k] = v       \* is_trunk_interface_vlan_enabled

\* l2_frame_recv_qualify_on_interface
TrunkTakes(p, tag) == tag # 0 /\ Enabled(p, tag)
Qualifies(p, f) ==
  CASE mode[p] = "access" -> f.tag \in {0, AccessVlan(p)}
    [] mode[p] = "trunk"  -> TrunkTakes(p, f.tag)
    [] OTHER -> p \in ip /\ f.tag = 0 /\ f.dst \in {p, Bcast}

\* tag_pkt_with_vlan_id, a tag is replaced; untag_pkt_with_vlan_id
Tagged(f, v) == [f EXCEPT !.tag = v]
Untagged(f) == [f EXCEPT !.tag = 0]

\* The frame that l2_switch_send_pkt_out passes on; none when it drops it.
Same(p, tag) == tag = AccessVlan(p)
Sent(p, f) ==
  IF mode[p] = "access" /\ Same(p, f.tag)
  THEN {[to |-> Link[p], f |-> [Untagged(f) EXCEPT !.by = AccessVlan(p)]]}
  ELSE IF mode[p] = "trunk" /\ f.tag # 0 /\ Enabled(p, f.tag)
  THEN {[to |-> Link[p], f |-> f]}
  ELSE {}

\* l2_switch_forward_frame with l2_switch_flood_pkt_out: the ports it goes to
Outs_all(s, p) == {q \in PortsOf(s) : L2(q)}  \* mutant: back to where it came from
Outs(s, p) == {q \in PortsOf(s) \ {p} : L2(q)}
Targets(s, known, p, f) ==
  IF f.dst # Bcast /\ f.dst \in DOMAIN known THEN {known[f.dst]} ELSE Outs(s, p)

\* l2_switch_perform_mac_learning, mac_table_entry_add
Learn(s, f, p) ==
  [x \in DOMAIN table[s] \cup {f.src} |-> IF x = f.src THEN p ELSE table[s][x]]

\* layer2_frame_recv on a port of a switch
Switch(p, f0) ==
  LET tagged == mode[p] = "access" /\ f0.tag = 0 /\ AccessVlan(p) # 0
      f   == IF tagged THEN Tagged(f0, AccessVlan(p)) ELSE f0
      g   == IF Link[p] \in Hosts THEN [f EXCEPT !.vlan = f.tag] ELSE f
      s   == At[p]
      new == Learn(s, g, p)
      out == Targets(s, new, p, g)
  IN IF ~Qualifies(p, f0) \/ p \in ip \/ ~L2(p) THEN wire' = Tail(wire) /\ UNCHANGED <<table, died>>
     ELSE /\ table' = [table EXCEPT ![s] = new]
          /\ died' = (out \cap ip # {})
          /\ wire' = SetToSeq(UNION {Sent(q, g) : q \in out}) \o Tail(wire)

\* layer2_frame_recv on the interface of a host
Accept(h, f) ==
  /\ wire' = Tail(wire) /\ UNCHANGED <<table, died>>
  /\ got' = IF f.tag = 0 /\ f.dst \in {h, Bcast} THEN Append(got, [f |-> f, at |-> h]) ELSE got

RecvFrame ==
  /\ ~died /\ wire # << >>
  /\ LET to == Head(wire).to
         f  == Head(wire).f
     IN IF to \in Hosts THEN Accept(to, f) ELSE Switch(to, f) /\ UNCHANGED got
  /\ UNCHANGED <<mode, ip, vlans, frames, configs, raced>>

HostSends(h, dst) ==
  /\ ~died /\ frames < MaxSends /\ frames' = frames + 1 /\ raced' = (raced \/ wire # << >>)
  /\ wire' = <<[to |-> PortTo(h),
                f |-> [id |-> frames', src |-> h, dst |-> dst, tag |-> 0, vlan |-> 0, by |-> 0]]>> \o wire
  /\ UNCHANGED <<mode, ip, vlans, table, got, died, configs>>

Next ==
  \/ \E p \in Edges : (\E m \in {"access", "trunk"} : SetMode(p, m)) \/ SetIp(p) \/ UnsetIp(p)
  \/ \E p \in Ports, v \in Vlans : SetVlan(p, v)
  \/ RecvFrame
  \/ \E x \in Sends : HostSends(x[1], x[2])

Spec == Init /\ [][Next]_vars

------------------------------------------------------------------------------
(* Properties *)

\* VLANs are isolated, however the ports were configured and whatever address
\* is set or unset while frames are on their way: a host accepts a frame only
\* from a port of the VLAN by which it came in, as the tag carried it over the
\* trunks; no frame is given to a port that routes (the assertion in
\* l2_switch_send_pkt_out), for a port cannot leave layer-2 mode; and an access
\* port has one VLAN.
IsolationSound ==
  /\ ~died
  /\ \A k \in DOMAIN got : got[k].f.by = got[k].f.vlan
  /\ \A p \in Ports : mode[p] = "access" => Used(p) \subseteq {1}

\* Where a frame to x leaves switch s in a network of two switches
Toward(s, x) ==
  IF At[PortTo(x)] = s THEN PortTo(x)
  ELSE CHOOSE p \in PortsOf(s) : Link[p] \in PortsOf(At[PortTo(x)])

\* The MAC tables of the switches agree although they are learnt one frame at a
\* time: every entry leads to its host, and a switch that reaches a host through
\* another one knows that the other one has learnt it, so that a frame is never
\* returned to the port it came from and a host gets it once.  It is returned
\* when a later frame overtakes a flooded one in the receive queue: the next
\* switch then knows the destination on the port the flooded frame comes from,
\* returns it, and its source is learnt on the wrong port.
LearningSound ==
  ~raced =>
    /\ \A s \in Switches : \A x \in DOMAIN table[s] :
         table[s][x] = Toward(s, x) /\ x \in DOMAIN table[At[PortTo(x)]]
    /\ \A j, k \in DOMAIN got :
         got[k].at # got[k].f.src /\ (j # k => <<got[j].f.id, got[j].at>> # <<got[k].f.id, got[k].at>>)

\* VLANs are isolated and what the switches learn is right.
SwitchSound == IsolationSound /\ LearningSound
=============================================================================
