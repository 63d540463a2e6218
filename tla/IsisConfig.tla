----------------------------- MODULE IsisConfig -----------------------------
(***************************************************************************)
(* The commands that switch what a router derives from its ISIS            *)
(* adjacencies: interface groups, configured or dynamic, and the ARP       *)
(* entries of the layer-2 mapping.  IsisAdjacency has the adjacencies in   *)
(* full, with dynamic groups and mapping always on, and the ARP table by   *)
(* address; here an adjacency only comes, is up or not, and goes, and each *)
(* neighbour keeps an address of its own, so that the adjacency stands for *)
(* it.                                                                     *)
(*                                                                         *)
(* A dynamic group bears the name of the neighbour it leads to.  An LSP is *)
(* flooded once per group, by its first member if that has a neighbour     *)
(* that is up: so the members with such a neighbour have to come first.    *)
(***************************************************************************)
EXTENDS Naturals, SequencesExt

CONSTANTS
  Order,         \* the interfaces of the router, as a sequence
  Links,         \* which neighbour can be heard on which interface, one at most
  Names,         \* names of configured groups
  NoGroup,       \* not one of AllNames
  MaxCommands    \* bound on the commands

Intfs == ToSet(Order)
Nbrs == {a[2] : a \in Links}
AllNames == Names \cup Nbrs

VARIABLES
  enabled,       \* interfaces with isis_intf_info
  adjs,          \* per interface: adj_list_head, first adjacency first
  ups,           \* adjacencies that are up
  dyn,           \* dyn_intf_grp
  groups,        \* intf_grp_avl_root: the names of the groups
  grp,           \* per interface: intf_grp, or NoGroup
  members,       \* per group: intf_list_head
  mapping,       \* layer2_mapping
  arp,           \* adjacencies with an ARP entry of ISIS
  stale,         \* members whose neighbour went, up, while they kept their place
  meddled,       \* a command moved an interface between dynamic groups
  died,          \* assert(intf_grp), or assert(!intf_info->intf_grp), failed
  commands

grpVars == <<dyn, groups, grp, members, stale, died>>
vars == <<enabled, adjs, ups, dyn, groups, grp, members, mapping, arp, stale,
          meddled, died, commands>>

\* After "protocol isis" and "protocol isis interface all".
Init ==
  /\ enabled = Intfs /\ adjs = [i \in Intfs |-> << >>] /\ ups = {}
  /\ dyn = TRUE /\ groups = {} /\ grp = [i \in Intfs |-> NoGroup]
  /\ members = [g \in AllNames |-> << >>]
  /\ mapping = TRUE /\ arp = {}
  /\ stale = {} /\ meddled = FALSE /\ died = FALSE /\ commands = 0

------------------------------------------------------------------------------
(* Groups *)

\* The first adjacency of interface i is up, given the adjacencies up.
Active(i, up) == adjs[i] # << >> /\ <<i, Head(adjs[i])>> \in up

\* isis_intf_grp_refresh_member_interface: i is taken out of m and put into
\* group g, in front if it is active.
Placed(m, g, i, active) ==
  LET rest == [h \in AllNames |-> RemoveFirst(m[h], i)]
  IN [rest EXCEPT ![g] = IF active THEN <<i>> \o @ ELSE Append(@, i)]

\* The state of an adjacency on i changed.
Refresh(i, up) ==
  /\ members' = IF grp[i] = NoGroup THEN members ELSE Placed(members, grp[i], i, Active(i, up))
  /\ stale' = stale \ {i}
  /\ UNCHANGED <<dyn, groups, grp, died>>

\* isis_dynamic_intf_grp_update_on_adjacency_delete for all neighbours "gone"
\* of i, which then, if "quits", leaves its group whatever it is.
Leave(i, gone, quits) ==
  LET leaves == quits \/ (dyn /\ grp[i] \in gone)
  IN /\ grp' = IF leaves THEN [grp EXCEPT ![i] = NoGroup] ELSE grp
     /\ members' = IF leaves THEN [g \in AllNames |-> RemoveFirst(members[g], i)] ELSE members
     /\ groups' = IF dyn THEN groups \ {g \in gone : members'[g] = << >>} ELSE groups
     /\ stale' = IF leaves THEN stale \ {i}
                 ELSE IF grp[i] # NoGroup /\ Active(i, ups) THEN stale \cup {i} ELSE stale
     /\ died' = (dyn /\ ~(gone \subseteq groups))
     /\ UNCHANGED dyn

\* isis_intf_grp_cleanup; the groups "new" are configured then.
Cleanup_tree(new) ==  \* mutant: the interfaces keep their pointers to the groups
  groups' = new /\ members' = [g \in AllNames |-> << >>] /\ stale' = {} /\ grp' = grp
Cleanup(new) ==
  /\ groups' = new /\ members' = [g \in AllNames |-> << >>] /\ stale' = {}
  /\ grp' = [i \in Intfs |-> NoGroup]

\* isis_dynamic_intf_grp_build_intf_grp_db, for interfaces in no group: each is
\* left in the group of its last adjacency, those before it only get theirs made.
\* The groups when the first k interfaces have been put into theirs:
Built[k \in 0..Len(Order)] ==
  IF k = 0 THEN [g \in AllNames |-> << >>]
  ELSE IF adjs[Order[k]] = << >> THEN Built[k - 1]
  ELSE Placed(Built[k - 1], Last(adjs[Order[k]]), Order[k], Active(Order[k], ups))

Build ==
  /\ groups' = UNION {ToSet(adjs[i]) : i \in Intfs}
  /\ grp' = [i \in Intfs |-> IF adjs[i] = << >> THEN NoGroup ELSE Last(adjs[i])]
  /\ members' = Built[Len(Order)]

------------------------------------------------------------------------------
(* Adjacencies *)

New(i, n) ==
  /\ i \in enabled /\ n \notin ToSet(adjs[i])
  /\ adjs' = [adjs EXCEPT ![i] = <<n>> \o @]
  /\ IF dyn THEN /\ groups' = groups \cup {n}
                 /\ grp' = [grp EXCEPT ![i] = n]
                 /\ members' = IF grp[i] = n THEN members ELSE Placed(members, n, i, FALSE)
                 /\ stale' = stale \ {i}
            ELSE UNCHANGED <<groups, grp, members, stale>>
  /\ UNCHANGED <<enabled, ups, dyn, mapping, arp, meddled, died, commands>>

Up(i, n) ==
  /\ n \in ToSet(adjs[i]) /\ <<i, n>> \notin ups
  /\ ups' = ups \cup {<<i, n>>}
  /\ arp' = IF mapping THEN arp \cup {<<i, n>>} ELSE arp
  /\ Refresh(i, ups')
  /\ UNCHANGED <<enabled, adjs, mapping, meddled, commands>>

Down(i, n) ==
  /\ <<i, n>> \in ups
  /\ ups' = ups \ {<<i, n>>}
  /\ arp' = IF mapping THEN arp \ {<<i, n>>} ELSE arp
  /\ Refresh(i, ups')
  /\ UNCHANGED <<enabled, adjs, mapping, meddled, commands>>

\* The delete timer of an adjacency that is down.
Forget(i, n) ==
  /\ n \in ToSet(adjs[i]) /\ <<i, n>> \notin ups
  /\ adjs' = [adjs EXCEPT ![i] = RemoveFirst(@, n)]
  /\ Leave(i, {n}, FALSE)
  /\ UNCHANGED <<enabled, ups, mapping, arp, meddled, commands>>

------------------------------------------------------------------------------
(* Commands *)

Command == commands < MaxCommands /\ commands' = commands + 1

\* isis_delete_all_adjacencies
DeleteAll(i, quits) ==
  LET gone == {<<i, n>> : n \in ToSet(adjs[i])}
  IN /\ adjs' = [adjs EXCEPT ![i] = << >>]
     /\ ups' = ups \ gone
     /\ arp' = IF mapping THEN arp \ (gone \cap ups) ELSE arp
     /\ Leave(i, ToSet(adjs[i]), quits)

\* The interface is shut, or loses its address.
Withdraw(i) ==
  /\ Command /\ adjs[i] # << >>
  /\ DeleteAll(i, FALSE)
  /\ UNCHANGED <<enabled, mapping, meddled>>

DisableIntf(i) ==
  /\ Command /\ i \in enabled /\ enabled' = enabled \ {i}
  /\ DeleteAll(i, TRUE)
  /\ UNCHANGED <<mapping, meddled>>

EnableIntf(i) ==
  /\ Command /\ i \notin enabled /\ enabled' = enabled \cup {i}
  /\ UNCHANGED <<adjs, ups, grpVars, mapping, arp, meddled>>

\* isis_config_intf_grp: the first configured group ends dynamic groups.
ConfigGroup(g) ==
  /\ Command
  /\ IF dyn
     THEN Cleanup({g})
     ELSE groups' = groups \cup {g} /\ UNCHANGED <<grp, members, stale>>
  /\ dyn' = FALSE
  /\ UNCHANGED <<enabled, adjs, ups, mapping, arp, meddled, died>>

\* isis_un_config_intf_grp: without the last one, groups are dynamic again.
UnconfigGroup(g) ==
  /\ Command /\ ~dyn /\ g \in groups
  /\ IF groups = {g}
     THEN dyn' = TRUE /\ stale' = {} /\ Build
     ELSE /\ groups' = groups \ {g}
          /\ grp' = [i \in Intfs |-> IF grp[i] = g THEN NoGroup ELSE grp[i]]
          /\ members' = [members EXCEPT ![g] = << >>]
          /\ stale' = stale \ ToSet(members[g])
          /\ UNCHANGED dyn
  /\ died' = (groups = {g} /\ \E i \in enabled : grp[i] \notin {g, NoGroup})
  /\ UNCHANGED <<enabled, adjs, ups, mapping, arp, meddled>>

ConfigDynamic ==
  /\ Command /\ ~dyn /\ groups = {}
  /\ dyn' = TRUE /\ Build
  /\ died' = \E i \in enabled : grp[i] # NoGroup
  /\ UNCHANGED <<enabled, adjs, ups, mapping, arp, stale, meddled>>

UnconfigDynamic ==
  /\ Command /\ dyn /\ dyn' = FALSE
  /\ Cleanup({})
  /\ UNCHANGED <<enabled, adjs, ups, mapping, arp, meddled, died>>

\* isis_intf_group_add_intf_membership, isis_intf_group_remove_intf_membership:
\* in any group there is, a dynamic one as well.
AddMember(i, g) ==
  /\ Command /\ g \in groups /\ i \in enabled /\ grp[i] # g
  /\ grp' = [grp EXCEPT ![i] = g]
  /\ members' = Placed(members, g, i, Active(i, ups))
  /\ stale' = stale \ {i}
  /\ meddled' = (meddled \/ dyn)
  /\ UNCHANGED <<enabled, adjs, ups, dyn, groups, mapping, arp, died>>

RemoveMember(i, g) ==
  /\ Command /\ g \in groups /\ i \in enabled /\ grp[i] = g
  /\ grp' = [grp EXCEPT ![i] = NoGroup]
  /\ members' = [members EXCEPT ![g] = RemoveFirst(@, i)]
  /\ stale' = stale \ {i}
  /\ meddled' = (meddled \/ dyn)
  /\ UNCHANGED <<enabled, adjs, ups, dyn, groups, mapping, arp, died>>

\* isis_config_layer2_map, isis_un_config_layer2_map
Map ==
  /\ Command /\ ~mapping /\ mapping' = TRUE
  /\ arp' = arp \cup ups
  /\ UNCHANGED <<enabled, adjs, ups, grpVars, meddled>>
Unmap ==
  /\ Command /\ mapping /\ mapping' = FALSE
  /\ arp' = arp \ ups
  /\ UNCHANGED <<enabled, adjs, ups, grpVars, meddled>>

------------------------------------------------------------------------------
Next ==
  /\ ~died
  /\ \/ \E i \in Intfs, n \in Nbrs : <<i, n>> \in Links /\ (New(i, n) \/ Up(i, n) \/ Down(i, n) \/ Forget(i, n))
     \/ \E i \in Intfs : Withdraw(i) \/ DisableIntf(i) \/ EnableIntf(i)
     \/ \E g \in Names : ConfigGroup(g) \/ UnconfigGroup(g)
     \/ \E i \in Intfs, g \in AllNames : AddMember(i, g) \/ RemoveMember(i, g)
     \/ ConfigDynamic \/ UnconfigDynamic \/ Map \/ Unmap

Spec == Init /\ [][Next]_vars

------------------------------------------------------------------------------
(* Properties *)

\* Membership has two ends that agree, in groups that exist.  Dynamic groups
\* are those of the neighbours, and lead to them, unless a command meddled.
MembersSound ==
  /\ \A i \in Intfs, g \in AllNames :
       /\ grp[i] = g <=> \E k \in DOMAIN members[g] : members[g][k] = i
       /\ grp[i] = g => g \in groups /\ i \in enabled
       /\ \A j, k \in DOMAIN members[g] : members[g][j] = members[g][k] => j = k
  /\ ~dyn => groups \subseteq Names
  /\ dyn /\ ~meddled =>
       /\ groups = UNION {ToSet(adjs[i]) : i \in Intfs}
       /\ \A i \in Intfs : adjs[i] # << >> => grp[i] \in ToSet(adjs[i])

\* In a group, no member with an adjacency that is up comes behind one
\* without, but for those whose adjacency was deleted while it was up.
ActiveFirst ==
  \A g \in AllNames : \A j, k \in DOMAIN members[g] :
    j < k /\ Active(members[g][k], ups) => Active(members[g][j], ups) \/ members[g][j] \in stale

\* ARP entries are those of the neighbours that are up, or none.
MapSound == arp = IF mapping THEN ups ELSE {}

\* What the router derives from its adjacencies is right, and no assertion
\* fails, whatever sequence of commands switches it.
ConfigSound == (died => meddled) /\ (~died => MembersSound /\ ActiveFirst /\ MapSound)
==============================================================================
