----------------------------- MODULE MCServices -----------------------------
(***************************************************************************)
(* Values, for TLC, of the constants of Services.                          *)
(***************************************************************************)
EXTENDS Services, TLC

CONSTANTS
  port1, port2, pfxS, pfxT, pfxC  \* interfaces and prefixes (model values)

\* Routing table: port1 may have an address of pfxS or pfxT, port2 of pfxS;
\* pfxC and pfxS have configured routes, and SPF finds pfxC.
TableAddrs == port1 :> {pfxS, pfxT} @@ port2 :> {pfxS}
TableIds == 1..6

\* r1 -(a,b)- r2 -(c,d)- r3; x is an address no router has, and r1 and r2
\* point to each other for it.
DpPorts == {"a", "b", "c", "d"}
DpOwners == "a" :> "r1" @@ "b" :> "r2" @@ "c" :> "r2" @@ "d" :> "r3"
DpPeers == "a" :> "b" @@ "b" :> "a" @@ "c" :> "d" @@ "d" :> "c"
Attached == [direct |-> TRUE, gw |-> "none", oif |-> "none"]
Via(gw, oif) == [direct |-> FALSE, gw |-> gw, oif |-> oif]
DpRoutes ==
  "r1" :> [r1 |-> Attached, a |-> Attached, b |-> Attached, c |-> Via("b", "a"), d |-> Via("b", "a"),
           r2 |-> Via("b", "a"), r3 |-> Via("b", "a"), x |-> Via("b", "a")] @@
  "r2" :> [r2 |-> Attached, a |-> Attached, b |-> Attached, c |-> Attached, d |-> Attached,
           r3 |-> Via("d", "c"), r1 |-> Via("a", "b"), x |-> Via("a", "b")] @@
  "r3" :> [r3 |-> Attached, c |-> Attached, d |-> Attached]
DpPings == {<<"r1", "b">>, <<"r1", "r3">>, <<"r1", "x">>, <<"r1", "d">>, <<"r1", "a">>}

\* Two switches, a trunk between t1 and t2; h1 and h3 are in VLAN 10, h2 in
\* 11; the port of h4 is an access port without VLAN, that of h5 routes.
SwLinks == "a1" :> "h1" @@ "a2" :> "h2" @@ "b3" :> "h3" @@ "b4" :> "h4" @@ "a5" :> "h5"
           @@ "t1" :> "t2" @@ "t2" :> "t1"
SwPorts == DOMAIN SwLinks
SwAt == [p \in SwPorts |-> IF p \in {"a1", "a2", "t1", "a5"} THEN "s1" ELSE "s2"]
SwMembers == "t1" :> <<10, 11>> @@ "t2" :> <<10, 11>> @@ "a1" :> <<10>> @@ "b3" :> <<10>>
             @@ "a2" :> <<11>> @@ "b4" :> << >> @@ "a5" :> << >>
SwModes == [p \in SwPorts |-> IF p \in {"t1", "t2"} THEN "trunk"
                              ELSE IF p = "a5" THEN "unknown" ELSE "access"]
SwSends == {<<"h1", "broadcast">>, <<"h3", "h1">>, <<"h1", "h3">>, <<"h2", "h1">>, <<"h4", "broadcast">>}

\* A triangle, so that queries meet.
DdPeers == "a" :> "b" @@ "b" :> "a" @@ "c" :> "d" @@ "d" :> "c" @@ "e" :> "f" @@ "f" :> "e"
DdPorts == DOMAIN DdPeers
DdOwners == "a" :> "r1" @@ "f" :> "r1" @@ "b" :> "r2" @@ "c" :> "r2" @@ "d" :> "r3" @@ "e" :> "r3"

\* Two links to one neighbour and one to another.
OrderOfThree == <<"i1", "i2", "i3">>
LinksToTwo == {<<"i1", "n1">>, <<"i2", "n1">>, <<"i3", "n2">>}
=============================================================================
