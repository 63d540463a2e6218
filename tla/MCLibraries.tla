---------------------------- MODULE MCLibraries ----------------------------
(***************************************************************************)
(* Instances, for TLC, of the libraries that the simulator is built on:    *)
(* the wheel timer, the memory manager, the AVL tree, the intrusive lists, *)
(* the SPF algorithm, the traffic engineering database and the command     *)
(* parser.  They share no state: each behaviour is one of a single         *)
(* library, the subject, and v1, ..., v8 stand for its variables.          *)
(***************************************************************************)
EXTENDS MCWheelTimer

CONSTANT Nobody  \* no router (a model value)

VARIABLES subject, v1, v2, v3, v4, v5, v6, v7, v8

spare == <<v1, v2, v3, v4, v5, v6, v7, v8>>

------------------------------------------------------------------------------
HeapRequests == "misc" :> {3, 8} @@ "s" :> {6}
Heap == INSTANCE MemoryManager WITH
  Families <- {"misc", "s"}, Requests <- HeapRequests,
  PageSize <- 10, PageHdr <- 3, Hdr <- 2, MaxLive <- 3,
  pages <- v1, free <- v2, live <- v3

\* Node 12 has the key of node 5.
Avl == INSTANCE AvlTree WITH
  Nodes <- 1..12, KeyOf <- [x \in 1..12 |-> IF x = 12 THEN 5 ELSE x],
  tree <- v1, members <- v2

List == INSTANCE Glthread WITH
  Heads <- {11, 12}, Elems <- 1..4, Priority <- [n \in 1..4 |-> n \div 2],
  Null <- 0, MaxSteps <- 6,
  left <- v1, right <- v2, lists <- v3, walk <- v4, steps <- v5

\* r has next hops to a, b, c and d; x and z are reached by two of them, y by
\* one, t by all.
SpfOrder == <<"ra", "rb", "rc", "rd", "ay", "ax", "bx", "cz", "dz", "yt", "xt", "zt">>
SpfEnds == "ra" :> {"r", "a"} @@ "rb" :> {"r", "b"} @@ "rc" :> {"r", "c"} @@ "rd" :> {"r", "d"}
           @@ "ax" :> {"a", "x"} @@ "bx" :> {"b", "x"} @@ "ay" :> {"a", "y"}
           @@ "cz" :> {"c", "z"} @@ "dz" :> {"d", "z"}
           @@ "yt" :> {"y", "t"} @@ "xt" :> {"x", "t"} @@ "zt" :> {"z", "t"}
SpfRouters == UNION {SpfEnds[l] : l \in DOMAIN SpfEnds}
Paths == INSTANCE Spf WITH
  Routers <- SpfRouters, Links <- ToSet(SpfOrder), Ends <- SpfEnds,
  Intfs <- [n \in SpfRouters |-> SelectSeq(SpfOrder, LAMBDA l : n \in SpfEnds[l])],
  Roots <- {"r", "t"}, Flapping <- {"ra", "ay", "zt", "xt"}, Metrics <- {1, 3},
  Default <- 1, Infinite <- 100, MaxNextHops <- 4, None <- "none", MaxChanges <- 3,
  cost <- v1, usable <- v2, pending <- v3, result <- v4, silent <- v5, changes <- v6

\* A triangle with one parallel link.
TedEnd(r, i) == [att |-> r, ix |-> i]
TedWires == {[a |-> TedEnd("r1", 1), b |-> TedEnd("r2", 2)], [a |-> TedEnd("r2", 3), b |-> TedEnd("r3", 4)],
             [a |-> TedEnd("r3", 5), b |-> TedEnd("r1", 6)], [a |-> TedEnd("r1", 7), b |-> TedEnd("r2", 8)]}
Database == INSTANCE Ted WITH
  Wires <- TedWires, MaxIntf <- 3, Nobody <- Nobody, MaxOps <- 5,
  routers <- v1, links <- v2, lsps <- v3, last <- v4, ops <- v5, died <- v6

\* show node <n> {rt | arp}, and in the mode of config node <n>: protocol isis,
\* and under an interface, which "no" removes, its metric.
CliTree ==
  [root |-> {"show", "config"}, show |-> {"snode"}, snode |-> {"sname"},
   sname |-> {"rt", "arp"}, rt |-> {}, arp |-> {},
   config |-> {"cnode", "noC"}, noC |-> {"cnode"}, cnode |-> {"cname"},
   cname |-> {"interface", "isis"}, isis |-> {},
   interface |-> {"ifname", "noI"}, noI |-> {"ifname"}, ifname |-> {"metric"},
   metric |-> {"mval"}, mval |-> {}]
CliParent ==
  [show |-> "root", config |-> "root", snode |-> "show", sname |-> "snode",
   rt |-> "sname", arp |-> "sname", cnode |-> "config", noC |-> "config",
   cname |-> "cnode", interface |-> "cname", isis |-> "cname",
   ifname |-> "interface", noI |-> "interface", metric |-> "ifname", mval |-> "metric"]
Line == INSTANCE Cli WITH
  Tree <- CliTree, Parent <- CliParent, Leaves <- {"sname", "cname", "ifname", "mval"},
  Negations <- {"noC", "noI"}, Handlers <- {"config", "rt", "arp", "mval", "isis"},
  Values <- {"1", "2"},
  cursor <- v1, tlvs <- v2, mark <- v3, holder <- v4, ran <- v5, entered <- v6,
  spoiled <- v7, stuck <- v8

------------------------------------------------------------------------------
\* The variables beyond the first n are not used: 0 at first, and never changed.
ZeroBeyond(n) ==
  /\ IF n < 1 THEN v1 = 0 ELSE TRUE
  /\ IF n < 2 THEN v2 = 0 ELSE TRUE
  /\ IF n < 3 THEN v3 = 0 ELSE TRUE
  /\ IF n < 4 THEN v4 = 0 ELSE TRUE
  /\ IF n < 5 THEN v5 = 0 ELSE TRUE
  /\ IF n < 6 THEN v6 = 0 ELSE TRUE
  /\ IF n < 7 THEN v7 = 0 ELSE TRUE
  /\ IF n < 8 THEN v8 = 0 ELSE TRUE
KeptBeyond(n) ==
  /\ IF n < 1 THEN UNCHANGED v1 ELSE TRUE
  /\ IF n < 2 THEN UNCHANGED v2 ELSE TRUE
  /\ IF n < 3 THEN UNCHANGED v3 ELSE TRUE
  /\ IF n < 4 THEN UNCHANGED v4 ELSE TRUE
  /\ IF n < 5 THEN UNCHANGED v5 ELSE TRUE
  /\ IF n < 6 THEN UNCHANGED v6 ELSE TRUE
  /\ IF n < 7 THEN UNCHANGED v7 ELSE TRUE
  /\ IF n < 8 THEN UNCHANGED v8 ELSE TRUE

Start(name, n) == subject = name /\ ZeroBeyond(n)

LibInit ==
  /\ Init
  /\ \/ Start("wheel", 0)
     \/ Start("heap", 3) /\ Heap!Init
     \/ Start("tree", 2) /\ Avl!Init
     \/ Start("list", 5) /\ List!Init
     \/ Start("paths", 6) /\ Paths!Init
     \/ Start("database", 6) /\ Database!Init
     \/ Start("line", 8) /\ Line!Init
  /\ subject = "wheel" \/ (~overlap /\ \A e \in Elems : ~rec[e])  \* one state of the wheel

\* One step of the subject, which has n variables.
Step(name, n) ==
  /\ subject = name /\ UNCHANGED <<subject, vars>>
  /\ KeptBeyond(n)

LibNext ==
  \/ subject = "wheel" /\ Next /\ UNCHANGED <<subject, spare>>
  \/ Step("heap", 3) /\ Heap!Next
  \/ Step("tree", 2) /\ Avl!Next
  \/ Step("list", 5) /\ List!Next
  \/ Step("paths", 6) /\ Paths!Next
  \/ Step("database", 6) /\ Database!Next
  \/ Step("line", 8) /\ Line!Next

LibSpec == LibInit /\ [][LibNext]_<<subject, vars, spare>>

------------------------------------------------------------------------------
(* Properties *)

\* Pages, blocks and free lists of the memory manager (MemoryManager).
HeapSound == subject = "heap" => Heap!HeapSound

\* The AVL tree is a balanced search tree of its members (AvlTree).
TreeSound == subject = "tree" => Avl!TreeSound

\* The lists hold what was put on them, and walks see it (Glthread).
ListsSound == subject = "list" => List!ListsSound

\* The results of SPF are those of the topology (Spf).
SpfSound == subject = "paths" => Paths!SpfSound

\* The links of the TED are those the LSPs installed in it name (Ted).
TedSound == subject = "database" => Database!TedSound

\* A handler gets the values of its mode and of its command (Cli).
ContextSound == subject = "line" => Line!ContextSound
=============================================================================
