-------------------------------- MODULE Ted --------------------------------
(***************************************************************************)
(* The traffic engineering database (ted/ted.c) that ISIS fills from its   *)
(* LSP database (isis_ted.c): routers, and links whose two ends are        *)
(* plugged into routers. An LSP that names an unknown neighbour creates a  *)
(* fake router for it. A link is a record of its two ends; the end of an   *)
(* unplugged interface is attached to Nobody. Addresses, costs and flags   *)
(* are left out.                                                           *)
(***************************************************************************)
EXTENDS Naturals, SequencesExt, FiniteSets

CONSTANTS
  Wires,    \* the links there are: records [a, b] of ends [att, ix]
  MaxIntf,  \* TEDN_MAX_INTF_PER_NODE
  Nobody,   \* att_node of an interface that is not plugged in
  MaxOps    \* bound on installations and removals

VARIABLES
  routers,  \* the routers in teddb, and which of them are fake
  links,    \* the ted_link_t objects
  lsps,     \* per router, the ends its installed LSP names; Nobody if none
  last,     \* the router whose LSP was installed last, Nobody after a removal
  ops, died

vars == <<routers, links, lsps, last, ops, died>>

Ids == {w.a.att : w \in Wires} \cup {w.b.att : w \in Wires}
Far(w, r) == IF w.a.att = r THEN w.b ELSE w.a
Near(w, r) == IF w.a.att = r THEN w.a ELSE w.b
WiresOf(r) == {w \in Wires : r \in {w.a.att, w.b.att}}

Init ==  \* ted_init_teddb
  /\ routers = [known |-> {}, fake |-> {}] /\ links = {}
  /\ lsps = [r \in Ids |-> Nobody] /\ last = Nobody /\ ops = 0 /\ died = FALSE

------------------------------------------------------------------------------
(* The functions, on the database d = [rt: routers, ln: links, ok] *)

Detached(l) == l.a.att = Nobody /\ l.b.att = Nobody  \* ted_is_link_dettached
PluggedAt(ls, r) == {l \in ls : r \in {l.a.att, l.b.att}}
HasRoom(ls, r) ==
  Cardinality({<<l, s>> \in ls \X {"a", "b"} : l[s].att = r}) < MaxIntf

\* ted_node_lookup_intf: the link and the side of interface ix of r
Lookup(ls, r, ix) == {<<l, s>> \in ls \X {"a", "b"} : l[s].att = r /\ l[s].ix = ix}
OtherSide(s) == IF s = "a" THEN "b" ELSE "a"

\* ted_unplug_all_interfaces
Unplug(l, r) ==
  [s \in {"a", "b"} |-> IF l[s].att = r THEN [l[s] EXCEPT !.att = Nobody] ELSE l[s]]
UnplugAll_leak(ls, r) == {Unplug(l, r) : l \in ls}  \* mutant: detached links are not freed
UnplugAll(ls, r) == {k \in {Unplug(l, r) : l \in ls} : ~Detached(k)}

\* ted_delete_node
DeleteNode(d, r) ==
  IF r \notin d.rt.known THEN d
  ELSE [d EXCEPT !.rt.known = @ \ {r}, !.rt.fake = @ \ {r}, !.ln = UnplugAll(@, r)]

\* ted_create_node and ted_insert_node_in_teddb, unless the router is known
Ensure(d, r, fake) ==
  IF r \in d.rt.known THEN d
  ELSE [d EXCEPT !.rt.known = @ \cup {r}, !.rt.fake = IF fake THEN @ \cup {r} ELSE @]

Plug(d, r) == [d EXCEPT !.ok = @ /\ HasRoom(d.ln, r)]  \* the assertion of ted_plug_in_interface
NewLink(d, from, to) == [Plug(Plug(d, from.att), to.att) EXCEPT !.ln = @ \cup {[a |-> from, b |-> to]}]

\* The end that is unknown takes the other side of the link of the known one
Reuse(d, found, end) ==
  LET l == found[1]
      s == OtherSide(found[2])
  IN [Plug(d, end.att) EXCEPT !.ln = (@ \ {l}) \cup {[l EXCEPT ![s] = end]}]

\* ted_resurrect_link; what the database knows of the two ends decides
Resurrect(d0, from, to) ==
  LET d1 == Ensure(d0, from.att, FALSE)
      d  == Ensure([d1 EXCEPT !.rt.fake = @ \ {from.att}], to.att, TRUE)
      f  == Lookup(d.ln, from.att, from.ix)
      t  == Lookup(d.ln, to.att, to.ix)
      one(S) == CHOOSE x \in S : TRUE
  IN CASE f = {} /\ t # {} -> Reuse(d, one(t), from)
       [] f # {} /\ t = {} -> Reuse(d, one(f), to)
       [] f # {} /\ t # {} ->
            IF one(f)[1] = one(t)[1] THEN d
            ELSE LET cut(l, s) == [l EXCEPT ![s].att = Nobody]
                     kept == {l \in {cut(one(f)[1], one(f)[2]), cut(one(t)[1], one(t)[2])} : ~Detached(l)}
                 IN NewLink([d EXCEPT !.ln = (@ \ {one(f)[1], one(t)[1]}) \cup kept], from, to)
       [] OTHER -> NewLink(d, from, to)

------------------------------------------------------------------------------
(* Operations *)

Store(d) == routers' = d.rt /\ links' = d.ln /\ died' = ~d.ok
Db == [rt |-> routers, ln |-> links, ok |-> TRUE]
Step(r) == ~died /\ ops < MaxOps /\ ops' = ops + 1

\* isis_ted_install_lsp and ted_create_or_update_node: the router is deleted
\* and built again from the neighbours of the LSP, in their order
InstallLsp(r, nbrs) ==
  /\ Step(r) /\ lsps' = [lsps EXCEPT ![r] = Range(nbrs)] /\ last' = r
  /\ Store(FoldLeft(LAMBDA d, w : Resurrect(d, Near(w, r), Far(w, r)),
                    Ensure(DeleteNode(Db, r), r, FALSE), nbrs))

\* isis_ted_uninstall_lsp
UninstallLsp(r) ==
  /\ Step(r) /\ lsps[r] # Nobody /\ Store(DeleteNode(Db, r))
  /\ lsps' = [lsps EXCEPT ![r] = Nobody] /\ last' = Nobody

Next ==
  \/ \E r \in Ids : \E S \in SUBSET WiresOf(r) : \E nbrs \in SetToSeqs(S) : InstallLsp(r, nbrs)
  \/ \E r \in Ids : UninstallLsp(r)

Spec == Init /\ [][Next]_vars

------------------------------------------------------------------------------
(* Properties *)

\* Whatever LSPs are installed, updated and removed in whatever order, on
\* point-to-point links: the routers that are not fake are those with an LSP;
\* every end is unplugged or plugged into a known router; no link has lost
\* both ends; no router has two interfaces with one index, or more than it has
\* slots for; an end that is plugged in has its true other end across the link;
\* and the router whose LSP came last has each of its links, with both ends.
TedSound ==
  /\ ~died
  /\ routers.known \ routers.fake = {r \in Ids : lsps[r] # Nobody}
  /\ \A l \in links : ~Detached(l) /\ {l.a.att, l.b.att} \subseteq routers.known \cup {Nobody}
  /\ \A l \in links : \E w \in Wires : {l.a.ix, l.b.ix} = {w.a.ix, w.b.ix}
  /\ \A r \in Ids : \A ix \in {w.a.ix : w \in Wires} \cup {w.b.ix : w \in Wires} :
       Cardinality(Lookup(links, r, ix)) <= 1
  /\ last # Nobody => \A w \in lsps[last] :
       \E l \in links : {l.a, l.b} = {w.a, w.b}
=============================================================================
